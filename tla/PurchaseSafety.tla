---------------------------- MODULE PurchaseSafety ----------------------------
(***************************************************************************)
(* The safety of the purchase system, for every value of its constants:    *)
(* the phase never runs ahead of the world, a completed order is           *)
(* provisioned, Partner-Led Support is sold only with the roles deployed,  *)
(* and the system implements OrderLifecycle.                                *)
(***************************************************************************)
EXTENDS PurchaseTypes

-----------------------------------------------------------------------------
(* The inductive invariant.                                                *)

RunOrigin ==
    /\ run.at = "idle" => run.mode = "run"
    /\ run.mode \in {"record", "alert", "email"} =>
          \/ run.at = "onboard" /\ run.p.phase = "onboardServices"
          \/ run.at = "checkOnboard" /\ run.p.phase = "checkOnboardStatus"
    /\ run.at = "complete" /\ run.mode = "save" =>
          run.p.phase = "completed" /\ vendor = run.p.mpa
    /\ run.p.mpaErr => run.at = "setup" /\ run.mode = "run"

JobOrigin == job.at = "saveTicket" => job.p.phase = "checkCustomerRoles"

Sales ==
    /\ made["subscription"] <= 1
    /\ made["subscription"] > 0 => \E i \in Ids : transferStatus[i] \in {"ACCEPTED", "WITHDRAWN"}
    /\ vendor # NoMpa => made["subscription"] = 1
    /\ \A i \in Ids : transferStatus[i] # None => i <= made["transfer"]

Closed == status = "Completed" => run.at = "idle"

IInv ==
    /\ ParamsFollowPhase /\ RunOrigin /\ JobOrigin /\ Sales /\ Closed
    /\ PlsGate /\ CompletedIsProvisioned

-----------------------------------------------------------------------------
(* What a copy p of the parameters claims, of a world w outside the order. *)
(* HoldsIn is Consistent with the world as a parameter, so that a claim    *)
(* can be carried from the world before a step to the one after it.        *)

World == [made |-> made, transfer |-> transferStatus, account |-> transferMpa,
          handshake |-> handshakeStatus, roles |-> rolesUp]

Worlds == [made : [Resources -> 0..MaxMade],
           transfer : [Ids -> TransferStatuses \cup {None}],
           account : [Ids -> MPAs \cup {NoMpa}],
           handshake : [Ids -> HandshakeStatuses \cup {None}], roles : BOOLEAN]

AcceptedIn(p, w) ==
    /\ Set(p, "transfer")
    /\ w.transfer[p.id["transfer"]] \in {"ACCEPTED", "WITHDRAWN"}
    /\ w.account[p.id["transfer"]] = p.mpa

InvitationIn(p, w) ==
    IF p.phase \in Invited
    THEN /\ p.mpa # NoMpa /\ Set(p, "transfer")
         /\ w.account[p.id["transfer"]] = p.mpa
    ELSE ~Set(p, "transfer")

ResourcesIn(p, w) ==
    /\ p.phase \in Transferred => AcceptedIn(p, w) /\ Set(p, "group")
    /\ p.phase \in Related => Set(p, "relationship")
    /\ p.phase \in HandshakeDue => Set(p, "handshake")
    /\ p.phase \in Sold => w.made["subscription"] > 0
    /\ \A kind \in Kinds : p.id[kind] <= w.made[kind]

AnswersIn(p, w) ==
    /\ p.roles = "yes" => w.roles
    /\ p.approved = "yes" => /\ Set(p, "handshake")
                             /\ w.handshake[p.id["handshake"]] = "ACCEPTED"
    /\ p.phase = "" <=> p.roles = ""

HoldsIn(p, w) ==
    InvitationIn(p, w) /\ ResourcesIn(p, w) /\ AnswersIn(p, w) /\ ErrorShown(p)

(* The world only grows: resources are not destroyed, an invitation keeps  *)
(* its account, an accepted one is at most withdrawn, an accepted handshake *)
(* and deployed roles stay.                                                *)
Grows(w, v) ==
    /\ \A r \in Resources : w.made[r] <= v.made[r]
    /\ \A i \in Ids : i <= w.made["transfer"] =>
          /\ v.account[i] = w.account[i]
          /\ w.transfer[i] \in {"ACCEPTED", "WITHDRAWN"}
                => v.transfer[i] \in {"ACCEPTED", "WITHDRAWN"}
    /\ \A i \in Ids : i <= w.made["handshake"] =>
          (w.handshake[i] = "ACCEPTED" => v.handshake[i] = "ACCEPTED")
    /\ w.roles => v.roles

(* The parameterised claims are the claims the properties make.            *)
LEMMA SameConsistent == ASSUME NEW p PROVE Consistent(p) <=> HoldsIn(p, World)
    BY DEF Consistent, InvitationKnown, ResourcesKnown, AnswersKnown, TransferAccepted,
           HoldsIn, InvitationIn, ResourcesIn, AnswersIn, AcceptedIn, World

(* ParamsFollowPhase is what three copies claim of the world.              *)
LEMMA SameClaims ==
    ParamsFollowPhase
        <=> HoldsIn(params, World) /\ HoldsIn(RunClaims, World) /\ HoldsIn(job.p, World)
    BY SameConsistent DEF ParamsFollowPhase

(* The same of the state after a step.                                     *)
LEMMA SameClaimsNext ==
    ParamsFollowPhase'
        <=> /\ HoldsIn(params', World') /\ HoldsIn(RunClaims', World')
            /\ HoldsIn(job'.p, World')
  <1> USE DEF Consistent, InvitationKnown, ResourcesKnown, AnswersKnown, TransferAccepted,
          HoldsIn, InvitationIn, ResourcesIn, AnswersIn, AcceptedIn, World
  <1>1. Consistent(params)' <=> HoldsIn(params', World')
    OBVIOUS
  <1>2. Consistent(RunClaims)' <=> HoldsIn(RunClaims', World')
    OBVIOUS
  <1>3. Consistent(job.p)' <=> HoldsIn(job'.p, World')
    OBVIOUS
  <1> HIDE DEF Consistent, HoldsIn
  <1> QED BY <1>1, <1>2, <1>3 DEF ParamsFollowPhase

(* The world of a well formed state.                                       *)
LEMMA WorldType == TypeOK => World \in Worlds
    BY DEF TypeOK, World, Worlds

(* An id a copy records is an id.                                          *)
LEMMA IdsKnown ==
    ASSUME NEW p \in Params, NEW kind \in Kinds, Set(p, kind)
    PROVE  p.id[kind] \in Ids
  <1>1. p.id[kind] \in 0..MaxMade
    BY DEF Params
  <1> QED BY <1>1, BoundAssumption DEF Set, Ids

(* A claim that holds keeps holding while the world grows.                 *)
LEMMA GrowsKeeps ==
    ASSUME NEW w \in Worlds, NEW v \in Worlds, Grows(w, v),
           NEW p \in Params, HoldsIn(p, w)
    PROVE  HoldsIn(p, v)
  <1>1. /\ Set(p, "transfer") => p.id["transfer"] \in Ids
        /\ Set(p, "handshake") => p.id["handshake"] \in Ids
    BY IdsKnown DEF Kinds
  <1>2. \A kind \in Kinds : p.id[kind] <= w.made[kind]
    BY DEF HoldsIn, ResourcesIn
  <1>8. Set(p, "transfer") => v.account[p.id["transfer"]] = w.account[p.id["transfer"]]
    BY <1>1, <1>2 DEF Grows, Kinds
  <1>3. InvitationIn(p, v)
    BY <1>8 DEF HoldsIn, InvitationIn
  <1>4. AnswersIn(p, v)
    BY <1>1, <1>2 DEF HoldsIn, AnswersIn, Grows, Kinds
  <1>5. AcceptedIn(p, w) => AcceptedIn(p, v)
    BY <1>1, <1>2 DEF AcceptedIn, Grows, Kinds
  <1>6. /\ \A kind \in Kinds : p.id[kind] <= v.made[kind]
        /\ w.made["subscription"] > 0 => v.made["subscription"] > 0
    <2>1. \A r \in Resources :
            w.made[r] \in 0..MaxMade /\ v.made[r] \in 0..MaxMade /\ w.made[r] <= v.made[r]
      BY DEF Grows, Worlds
    <2>2. \A kind \in Kinds : p.id[kind] \in 0..MaxMade /\ kind \in Resources
      BY DEF Params, Resources
    <2>3. "subscription" \in Resources
      BY DEF Resources
    <2> QED BY <1>2, <2>1, <2>2, <2>3, BoundAssumption
  <1>7. ResourcesIn(p, v)
    BY <1>5, <1>6 DEF HoldsIn, ResourcesIn
  <1> QED BY <1>3, <1>4, <1>7 DEF HoldsIn

-----------------------------------------------------------------------------
(* A created resource is one more than there were.                          *)
LEMMA MadeGrows ==
    ASSUME TypeOK, NEW kind \in Resources, made' = Made(kind)
    PROVE  \A r \in Resources : made[r] <= made'[r]
  <1>1. \A r \in Resources : made[r] \in Nat
    BY DEF TypeOK
  <1> QED BY <1>1 DEF Made, TypeOK

(* No step takes back what the customer has answered, or renumbers what the *)
(* extension has created: a new invitation or handshake is the next one.    *)
LEMMA WorldGrows ==
    ASSUME TypeOK, Next
    PROVE  Grows(World, World')
  <1> USE DEF Keep, OrderSame, WorldSame, orderVars, awsVars, crmVars, alertVars,
          JobSame, JobKeep, EnvKeep
  <1>1. ASSUME \A r \in Resources : made[r] <= made'[r],
               UNCHANGED <<transferStatus, transferMpa, handshakeStatus, rolesUp>>
        PROVE  Grows(World, World')
    BY <1>1 DEF Grows, World
  <1>2. ASSUME UNCHANGED <<made, transferStatus, transferMpa, handshakeStatus, rolesUp>>
        PROVE  Grows(World, World')
    <2>1. \A r \in Resources : made[r] <= made'[r]
      BY <1>2 DEF TypeOK
    <2> QED BY <1>1, <1>2, <2>1
  <1>3. ASSUME NEW kind \in Resources, made' = Made(kind),
               UNCHANGED <<transferStatus, transferMpa, handshakeStatus, rolesUp>>
        PROVE  Grows(World, World')
    BY <1>1, <1>3, MadeGrows
  <1>4. CASE CreateTickets
    BY <1>3, <1>4 DEF CreateTickets, CreateTicket, TicketSteps, Resources, Kinds
  <1>5. CASE CreateNewAWSEnvironment
    BY <1>2, <1>5 DEF CreateNewAWSEnvironment, QueryOrder
  <1>6. CASE CreateBillingTransferInvitation
    <2>1. CASE InviteOrganization
      <3>1. \A r \in Resources : made[r] <= made'[r]
        BY <2>1, MadeGrows DEF InviteOrganization, Resources, Kinds
      <3>2. /\ made["transfer"] \in Nat /\ UNCHANGED <<handshakeStatus, rolesUp>>
            /\ transferStatus' = [transferStatus EXCEPT ![made["transfer"] + 1] = "REQUESTED"]
            /\ transferMpa' = [transferMpa EXCEPT ![made["transfer"] + 1] = run.p.mpa]
        BY <2>1 DEF InviteOrganization, TypeOK, Resources, Kinds
      <3>3. \A i \in Ids : i <= made["transfer"] =>
              transferStatus'[i] = transferStatus[i] /\ transferMpa'[i] = transferMpa[i]
        BY <3>2 DEF TypeOK, Ids
      <3> QED BY <3>1, <3>2, <3>3 DEF Grows, World
    <2>2. CASE UNCHANGED <<made, transferStatus, transferMpa, handshakeStatus, rolesUp>>
      BY <1>2, <2>2
    <2> QED BY <1>6, <2>1, <2>2 DEF CreateBillingTransferInvitation, QueryOrder
  <1>7. CASE CheckBillingTransferInvitation
    BY <1>2, <1>3, <1>7 DEF CheckBillingTransferInvitation, QueryOrder, Resources, Kinds
  <1>8. CASE ConfigureAPNProgram
    BY <1>2, <1>3, <1>8 DEF ConfigureAPNProgram, Resources, Kinds
  <1>9. CASE CreateChannelHandshake
    <2>1. CASE UNCHANGED <<made, handshakeStatus>>
      BY <1>2, <1>9, <2>1 DEF CreateChannelHandshake
    <2>2. CASE /\ made' = Made("handshake")
               /\ handshakeStatus' =
                    [handshakeStatus EXCEPT ![made["handshake"] + 1] = "PENDING"]
      <3>1. \A r \in Resources : made[r] <= made'[r]
        BY <2>2, MadeGrows DEF Resources, Kinds
      <3>2. made["handshake"] \in Nat
        BY DEF TypeOK, Resources, Kinds
      <3>3. \A i \in Ids : i <= made["handshake"] => handshakeStatus'[i] = handshakeStatus[i]
        BY <2>2, <3>2 DEF TypeOK, Ids
      <3> QED BY <1>9, <3>1, <3>3 DEF CreateChannelHandshake, Grows, World
    <2> QED BY <1>9, <2>1, <2>2 DEF CreateChannelHandshake
  <1>10. CASE CheckChannelHandshakeStatus
    BY <1>2, <1>10 DEF CheckChannelHandshakeStatus, QueryOrder
  <1>11. CASE CheckCustomerRoles
    BY <1>2, <1>11 DEF CheckCustomerRoles, QueryOrder
  <1>12. CASE OnboardServices
    BY <1>2, <1>3, <1>12 DEF OnboardServices, Resources, Kinds
  <1>13. CASE CreateSubscription
    BY <1>2, <1>3, <1>13 DEF CreateSubscription, Resources
  <1>14. CASE ContractCardStep
    BY <1>2, <1>3, <1>14 DEF ContractCardStep, Resources, Kinds
  <1>15. CASE SWOJobStep
    BY <1>2, <1>3, <1>15 DEF SWOJobStep, Resources, Kinds
  <1>16. CASE \/ Poll \/ SetupContext \/ ValidateOrder \/ CheckOnboardStatus
              \/ UpdateAgreement \/ CompleteOrder \/ PostStep \/ SaveInProcess
              \/ SendErrorEmail \/ StepFails \/ SaveFails \/ Restart
    BY <1>2, <1>16 DEF Poll, SetupContext, ValidateOrder, CheckOnboardStatus,
       UpdateAgreement, CompleteOrder, PostStep, SaveInProcess, SendErrorEmail,
       StepFails, SaveFails, Restart
  <1>17. CASE ProcessRoles
    BY <1>2, <1>3, <1>17 DEF ProcessRoles, Resources, Kinds
  <1>18. CASE \/ FetchOrder \/ ProcessTransfer \/ ProcessHandshake \/ JobSaves
              \/ ProcessOrder \/ NothingToDo \/ JobFails
    BY <1>2, <1>18 DEF FetchOrder, ProcessTransfer, ProcessHandshake, JobSaves,
       ProcessOrder, NothingToDo, JobFails
  <1>19. CASE TransferSettles
    <2>1. /\ UNCHANGED <<made, transferMpa, handshakeStatus, rolesUp>>
          /\ \A i \in Ids : transferStatus[i] \in {"ACCEPTED", "WITHDRAWN"}
                => transferStatus'[i] \in {"ACCEPTED", "WITHDRAWN"}
      BY <1>19 DEF TransferSettles, TypeOK
    <2>2. \A r \in Resources : made[r] <= made'[r]
      BY <2>1 DEF TypeOK
    <2> QED BY <2>1, <2>2 DEF Grows, World
  <1>20. CASE HandshakeSettles
    <2>1. /\ UNCHANGED <<made, transferStatus, transferMpa, rolesUp>>
          /\ \A i \in Ids : handshakeStatus[i] = "ACCEPTED" => handshakeStatus'[i] = "ACCEPTED"
      BY <1>20 DEF HandshakeSettles, TypeOK
    <2>2. \A r \in Resources : made[r] <= made'[r]
      BY <2>1 DEF TypeOK
    <2> QED BY <2>1, <2>2 DEF Grows, World
  <1>21. CASE RolesDeployed
    <2>1. \A r \in Resources : made[r] <= made'[r]
      BY <1>21 DEF RolesDeployed, TypeOK
    <2> QED BY <1>21, <2>1 DEF RolesDeployed, Grows, World
  <1>22. CASE CustomerResubmits \/ OnboardingEnds \/ TicketResolved \/ OperatorFails
              \/ DayPasses
    BY <1>2, <1>22 DEF CustomerResubmits, OnboardingEnds, TicketResolved, OperatorFails,
       DayPasses
  <1> QED
    BY <1>4, <1>5, <1>6, <1>7, <1>8, <1>9, <1>10, <1>11, <1>12, <1>13, <1>14, <1>15,
       <1>16, <1>17, <1>18, <1>19, <1>20, <1>21, <1>22
    DEF Next, WorkerNext, WorkerStep, JobNext, JobStep, Environment

-----------------------------------------------------------------------------
(* Claims and the edits of the parameters: parameters not filled in claim   *)
(* nothing.                                                                 *)
LEMMA FreshHolds ==
    ASSUME NEW a, NEW w \in Worlds
    PROVE  HoldsIn(FreshParams(a), w)
  <1>1. \A r \in Resources : w.made[r] \in Nat
    BY BoundAssumption DEF Worlds
  <1> QED
    BY <1>1 DEF FreshParams, HoldsIn, InvitationIn, ResourcesIn, AnswersIn, AcceptedIn,
       ErrorShown, Set, Invited, Transferred, Related, HandshakeDue, Sold, Kinds, Resources

(* Recording the id of a resource that exists.                              *)
LEMMA IdHolds ==
    ASSUME NEW w \in Worlds, NEW p \in Params, HoldsIn(p, w),
           NEW kind \in Kinds \ {"transfer", "handshake"}, NEW n \in 0..MaxMade,
           n <= w.made[kind], kind \in {"group", "relationship"} => n # 0
    PROVE  HoldsIn(WithId(p, kind, n), w)
  <1> DEFINE q == WithId(p, kind, n)
  <1>1. /\ q.phase = p.phase /\ q.mpa = p.mpa /\ q.mpaErr = p.mpaErr
        /\ q.roles = p.roles /\ q.approved = p.approved
        /\ q.id[kind] = n /\ \A k \in Kinds \ {kind} : q.id[k] = p.id[k]
    BY DEF WithId, Params
  <1>2. /\ q.id["transfer"] = p.id["transfer"] /\ q.id["handshake"] = p.id["handshake"]
        /\ Set(p, "group") => Set(q, "group")
        /\ Set(p, "relationship") => Set(q, "relationship")
    BY <1>1 DEF Kinds, Set
  <1>3. \A k \in Kinds : q.id[k] <= w.made[k]
    BY <1>1 DEF HoldsIn, ResourcesIn
  <1> HIDE DEF q
  <1>4. Set(p, "transfer") <=> Set(q, "transfer")
    BY <1>2 DEF Set
  <1>5. Set(p, "handshake") <=> Set(q, "handshake")
    BY <1>2 DEF Set
  <1>6. AcceptedIn(p, w) => AcceptedIn(q, w)
    BY <1>1, <1>2, <1>4 DEF AcceptedIn
  <1>7. InvitationIn(q, w)
    BY <1>1, <1>2, <1>4 DEF HoldsIn, InvitationIn
  <1>8. ResourcesIn(q, w)
    BY <1>1, <1>2, <1>3, <1>5, <1>6 DEF HoldsIn, ResourcesIn
  <1>9. AnswersIn(q, w) /\ ErrorShown(q)
    BY <1>1, <1>2, <1>5 DEF HoldsIn, AnswersIn, ErrorShown
  <1> QED BY <1>7, <1>8, <1>9 DEF HoldsIn, q

(* Moving on to a phase whose requirements are met.                         *)
LEMMA PhaseHolds ==
    ASSUME NEW w, NEW p \in Params, HoldsIn(p, w), NEW ph \in Phases \ {""},
           p.phase # "", ~p.mpaErr,
           IF ph \in Invited
           THEN p.mpa # NoMpa /\ Set(p, "transfer") /\ w.account[p.id["transfer"]] = p.mpa
           ELSE ~Set(p, "transfer"),
           ph \in Transferred => AcceptedIn(p, w) /\ Set(p, "group"),
           ph \in Related => Set(p, "relationship"),
           ph \in HandshakeDue => Set(p, "handshake"),
           ph \in Sold => w.made["subscription"] > 0
    PROVE  HoldsIn(WithPhase(p, ph), w)
  <1> DEFINE q == WithPhase(p, ph)
  <1>1. /\ q.phase = ph /\ q.mpa = p.mpa /\ q.mpaErr = p.mpaErr /\ q.id = p.id
        /\ q.roles = p.roles /\ q.approved = p.approved
    BY DEF WithPhase, Params
  <1> HIDE DEF q
  <1>2. \A kind \in Kinds : Set(q, kind) <=> Set(p, kind)
    BY <1>1 DEF Set
  <1>3. InvitationIn(q, w)
    BY <1>1 DEF InvitationIn, Set
  <1>4. ResourcesIn(q, w)
    BY <1>1 DEF HoldsIn, ResourcesIn, AcceptedIn, Set
  <1>5. AnswersIn(q, w) /\ ErrorShown(q)
    BY <1>1 DEF HoldsIn, AnswersIn, ErrorShown, Set
  <1> QED BY <1>3, <1>4, <1>5 DEF HoldsIn, q

(* From the handshake on, the only thing a phase still has to wait for is   *)
(* the subscription.                                                        *)
LEMMA LaterPhaseHolds ==
    ASSUME NEW w, NEW p \in Params, HoldsIn(p, w),
           p.phase \in HandshakeDue, NEW ph \in HandshakeDue,
           ph \in Sold => w.made["subscription"] > 0
    PROVE  HoldsIn(WithPhase(p, ph), w)
  <1>1. /\ ph \in Phases \ {""} /\ p.phase # ""
        /\ ph \in Invited /\ p.phase \in Invited /\ ph \in Transferred
        /\ p.phase \in Transferred /\ ph \in Related /\ p.phase \in Related
        /\ p.phase \notin {"createAccount", "createBillingTransferInvitation"}
    BY DEF HandshakeDue, Related, Transferred, Invited
  <1>2. ~p.mpaErr
    BY <1>1 DEF HoldsIn, ErrorShown
  <1>3. /\ p.mpa # NoMpa /\ Set(p, "transfer") /\ w.account[p.id["transfer"]] = p.mpa
        /\ AcceptedIn(p, w) /\ Set(p, "group") /\ Set(p, "relationship")
        /\ Set(p, "handshake")
    BY <1>1 DEF HoldsIn, InvitationIn, ResourcesIn
  <1> QED BY <1>1, <1>2, <1>3, PhaseHolds

(* Every step keeps the state well formed.                                  *)
LEMMA TypesKept == ASSUME TypeOK, Next PROVE TypeOK'
    BY WorkerTypes, JobTypes, EnvironmentTypes DEF Next

(* The world after a step.                                                  *)
LEMMA WorldTypeNext == TypeOK' => World' \in Worlds
    BY DEF TypeOK, World, Worlds

(* What a copy claims before a step it claims after it.                     *)
LEMMA Carried ==
    ASSUME TypeOK, Next, NEW p \in Params, HoldsIn(p, World)
    PROVE  HoldsIn(p, World')
    BY GrowsKeeps, WorldGrows, WorldType, WorldTypeNext, TypesKept

(* The claims of the fresh copies the processes start from.                 *)
LEMMA IdleHolds ==
    ASSUME NEW w \in Worlds
    PROVE  HoldsIn(IdleRun.p, w) /\ HoldsIn(IdleJob.p, w)
    BY FreshHolds DEF IdleRun, IdleJob

(* Marking a context as overtaken leaves what it claims.                    *)
LEMMA OvertakenSame ==
    ASSUME NEW p
    PROVE  /\ run \in RunType => /\ Overtaken(run, p).p = run.p
                                 /\ Overtaken(run, p).at = run.at
                                 /\ Overtaken(run, p).mode = run.mode
           /\ job \in JobType => Overtaken(job, p).p = job.p /\ Overtaken(job, p).at = job.at
    BY DEF Overtaken, RunType, JobType

-----------------------------------------------------------------------------
(* The cron job's copy claims only what holds, whatever the worker and the  *)
(* customer do meanwhile.                                                   *)
LEMMA JobHolds ==
    ASSUME TypeOK, IInv, Next
    PROVE  HoldsIn(job'.p, World') /\ JobOrigin'
  <1> USE DEF Keep, OrderSame, orderVars, JobSame, JobKeep, JobDone, EnvKeep
  <1>1. HoldsIn(params, World) /\ HoldsIn(job.p, World) /\ JobOrigin
    BY SameClaims DEF IInv
  <1>2. /\ params \in Params /\ job \in JobType /\ job.p \in Params
        /\ \A r \in Resources : made[r] \in 0..MaxMade
    BY DEF TypeOK, JobType
  <1>3. HoldsIn(params, World') /\ HoldsIn(job.p, World')
    BY <1>1, <1>2, Carried
  <1>4. World \in Worlds /\ World' \in Worlds
    BY WorldType, WorldTypeNext, TypesKept
  <1>5. ASSUME job'.p = job.p, job'.at = job.at \/ job'.at # "saveTicket"
        PROVE  HoldsIn(job'.p, World') /\ JobOrigin'
    BY <1>1, <1>3, <1>5 DEF JobOrigin
  <1>6. ASSUME NEW p, job' = Overtaken(job, p)
        PROVE  HoldsIn(job'.p, World') /\ JobOrigin'
    BY <1>2, <1>5, <1>6, OvertakenSame
  <1>7. ASSUME job' = IdleJob
        PROVE  HoldsIn(job'.p, World') /\ JobOrigin'
    BY <1>4, <1>7, IdleHolds DEF JobOrigin, IdleJob
  <1>8. ASSUME NEW ph \in HandshakeDue \ Sold, NEW point \in {"savePhase", "process"},
               job.p.phase \in HandshakeDue,
               job'.p = [job.p EXCEPT !.phase = ph], job'.at = point
        PROVE  HoldsIn(job'.p, World') /\ JobOrigin'
    BY <1>2, <1>3, <1>8, LaterPhaseHolds DEF JobOrigin, WithPhase
  <1>9. ASSUME NEW ctx \in JobType, ctx.p = job.p, RolesDeadline(ctx),
               job.p.phase = "checkCustomerRoles"
        PROVE  HoldsIn(job'.p, World') /\ JobOrigin'
    <2>1. CASE TimedOut(ctx.age, QueryTimeout)
      <3>1. job'.at = "savePhase" /\ job'.p = [job.p EXCEPT !.phase = "createSubscription"]
        BY <1>9, <2>1 DEF RolesDeadline, JobType
      <3> QED BY <1>8, <1>9, <3>1 DEF HandshakeDue, Related, Transferred, Invited, Phases, Sold
    <2>2. CASE ~TimedOut(ctx.age, QueryTimeout)
      BY <1>7, <1>9, <2>2 DEF RolesDeadline
    <2> QED BY <2>1, <2>2
  <1>10. CASE FetchOrder
    BY <1>3, <1>10 DEF FetchOrder, JobOrigin
  <1>11. CASE ProcessTransfer
    <2>1. job'.p = job.p /\ job'.at = "process"
      BY <1>2, <1>11 DEF ProcessTransfer, JobGoes, JobType
    <2> QED BY <1>5, <2>1
  <1>12. CASE ProcessHandshake
    <2>1. CASE JobGoes("process", job.p)
      <3>1. job'.p = job.p /\ job'.at = "process"
        BY <1>2, <2>1 DEF JobGoes, JobType
      <3> QED BY <1>5, <3>1
    <2>2. CASE JobGoes("savePhase", [job.p EXCEPT !.phase = "checkCustomerRoles"])
      <3>1. /\ job'.p = [job.p EXCEPT !.phase = "checkCustomerRoles"]
            /\ job'.at = "savePhase" /\ job.p.phase = "checkChannelHandshakeStatus"
        BY <1>2, <1>12, <2>2 DEF JobGoes, JobType, ProcessHandshake
      <3> QED BY <1>8, <3>1 DEF HandshakeDue, Related, Transferred, Invited, Phases, Sold
    <2> QED BY <1>12, <2>1, <2>2 DEF ProcessHandshake
  <1>13. CASE ProcessRoles
    <2>1. CASE JobGoes("process", job.p)
      <3>1. job'.p = job.p /\ job'.at = "process"
        BY <1>2, <2>1 DEF JobGoes, JobType
      <3> QED BY <1>5, <3>1
    <2>2. CASE RolesDeadline(job)
      BY <1>2, <1>9, <1>13, <2>2 DEF ProcessRoles
    <2>3. ASSUME NEW n \in {0, made["rolesTicket"] + 1},
                 JobGoes("saveTicket", WithId(job.p, "rolesTicket", n)),
                 CanMake("rolesTicket"), made' = Made("rolesTicket")
          PROVE  HoldsIn(job'.p, World') /\ JobOrigin'
      <3>1. /\ job'.p = WithId(job.p, "rolesTicket", n) /\ job'.at = "saveTicket"
            /\ job'.p.phase = "checkCustomerRoles"
        BY <1>2, <1>13, <2>3 DEF JobGoes, JobType, ProcessRoles, WithId, Params
      <3>2. /\ "rolesTicket" \in Resources
            /\ "rolesTicket" \in Kinds \ {"transfer", "handshake"}
        BY DEF Resources, Kinds
      <3>3. /\ made'["rolesTicket"] = made["rolesTicket"] + 1
            /\ made["rolesTicket"] \in 0..MaxMade
            /\ made["rolesTicket"] + 1 \in 0..MaxMade
        BY <1>2, <2>3, <3>2, BoundAssumption DEF Made, CanMake, TypeOK
      <3>4. n \in 0..MaxMade /\ n <= World'.made["rolesTicket"]
        BY <2>3, <3>3, BoundAssumption DEF World
      <3>5. HoldsIn(job'.p, World')
        BY <1>2, <1>3, <1>4, <3>1, <3>2, <3>4, IdHolds
      <3> QED BY <3>1, <3>5 DEF JobOrigin
    <2> QED BY <1>13, <2>1, <2>2, <2>3 DEF ProcessRoles
  <1>14. CASE JobSaves
    <2>1. CASE ~Editable
      BY <1>7, <1>14, <2>1 DEF JobSaves
    <2>2. CASE Editable /\ job.at = "savePhase"
      <3>1. job'.p = job.p /\ job'.at = "process"
        BY <1>2, <1>14, <2>2 DEF JobSaves, AfterSave, Refreshed, JobType
      <3> QED BY <1>5, <3>1
    <2>3. CASE Editable /\ job.at = "saveTicket"
      <3>1. Refreshed \in JobType /\ Refreshed.p = job.p
        BY <1>2 DEF Refreshed, JobType, TypeOK
      <3>2. RolesDeadline(Refreshed)
        BY <1>14, <2>3 DEF JobSaves, AfterSave
      <3> QED BY <1>1, <1>9, <2>3, <3>1, <3>2 DEF JobOrigin
    <2> QED BY <1>14, <2>1, <2>2, <2>3 DEF JobSaves
  <1>15. CASE ProcessOrder \/ NothingToDo \/ JobFails
    BY <1>7, <1>15 DEF ProcessOrder, NothingToDo, JobFails
  <1>16. CASE DayPasses
    <2>1. job'.p = job.p /\ job'.at = job.at
      BY <1>2, <1>16 DEF DayPasses, JobType
    <2> QED BY <1>5, <2>1
  <1>17. CASE CustomerResubmits
    BY <1>6, <1>17 DEF CustomerResubmits
  <1>18. CASE \/ TransferSettles \/ HandshakeSettles \/ RolesDeployed \/ OnboardingEnds
              \/ TicketResolved \/ OperatorFails
    BY <1>5, <1>18 DEF TransferSettles, HandshakeSettles, RolesDeployed, OnboardingEnds,
       TicketResolved, OperatorFails
  <1>19. ASSUME NEW st, NEW p, Close(st, p)
         PROVE  HoldsIn(job'.p, World') /\ JobOrigin'
    BY <1>5, <1>6, <1>19 DEF Close
  <1>20. CASE SetupContext
    BY <1>5, <1>6, <1>20 DEF SetupContext
  <1>21. CASE PostStep \/ SaveInProcess
    BY <1>5, <1>6, <1>21 DEF PostStep, SaveInProcess
  <1>22. CASE \/ ValidateOrder \/ CreateNewAWSEnvironment \/ CreateBillingTransferInvitation
              \/ CheckBillingTransferInvitation \/ CheckChannelHandshakeStatus
              \/ CheckCustomerRoles \/ CompleteOrder
    BY <1>5, <1>19, <1>22 DEF ValidateOrder, CreateNewAWSEnvironment,
       CreateBillingTransferInvitation, CheckBillingTransferInvitation,
       CheckChannelHandshakeStatus, CheckCustomerRoles, CompleteOrder, QueryOrder,
       InviteOrganization
  <1>23. CASE \/ Poll \/ CreateTickets \/ ConfigureAPNProgram \/ CreateChannelHandshake
              \/ OnboardServices \/ CheckOnboardStatus \/ CreateSubscription
              \/ ContractCardStep \/ SWOJobStep \/ UpdateAgreement \/ SendErrorEmail
              \/ StepFails \/ SaveFails \/ Restart
    BY <1>5, <1>23 DEF Poll, CreateTickets, CreateTicket, ConfigureAPNProgram,
       CreateChannelHandshake, OnboardServices, CheckOnboardStatus, CreateSubscription,
       ContractCardStep, SWOJobStep, UpdateAgreement, SendErrorEmail, StepFails,
       SaveFails, Restart
  <1> QED
    BY <1>10, <1>11, <1>12, <1>13, <1>14, <1>15, <1>16, <1>17, <1>18, <1>20, <1>21,
       <1>22, <1>23
    DEF Next, WorkerNext, WorkerStep, JobNext, JobStep, Environment

-----------------------------------------------------------------------------
(* The edits the steps make of the answers of the customer.                 *)
LEMMA EditHolds ==
    ASSUME NEW w, NEW p, HoldsIn(p, w), NEW q,
           q.phase = p.phase, q.mpa = p.mpa, q.id = p.id,
           q.mpaErr => p.mpaErr \/ p.phase \in {"createAccount", "createBillingTransferInvitation"},
           \/ q.roles = p.roles
           \/ p.phase # "" /\ q.roles = "no"
           \/ p.phase # "" /\ q.roles = "yes" /\ w.roles,
           \/ q.approved \in {p.approved, "no"}
           \/ Set(p, "handshake") /\ w.handshake[p.id["handshake"]] = "ACCEPTED"
    PROVE  HoldsIn(q, w)
  <1>1. \A kind \in Kinds : Set(q, kind) <=> Set(p, kind)
    BY DEF Set
  <1>2. InvitationIn(q, w) /\ ResourcesIn(q, w)
    BY DEF HoldsIn, InvitationIn, ResourcesIn, AcceptedIn, Set
  <1>3. AnswersIn(q, w) /\ ErrorShown(q)
    BY DEF HoldsIn, AnswersIn, ErrorShown, Set
  <1> QED BY <1>2, <1>3 DEF HoldsIn

(* setup_context begins an order: the first phase, the catalog's defaults.  *)
LEMMA BegunHolds ==
    ASSUME NEW w, NEW p \in Params, HoldsIn(p, w), p.phase = "",
           NEW first \in {"createAccount", "createBillingTransferInvitation"}
    PROVE  HoldsIn([p EXCEPT !.mpaErr = FALSE, !.phase = first, !.roles = "no",
                             !.approved = "no"], w)
  <1> DEFINE q == [p EXCEPT !.mpaErr = FALSE, !.phase = first, !.roles = "no",
                            !.approved = "no"]
  <1>1. /\ q.phase = first /\ q.mpaErr = FALSE /\ q.roles = "no" /\ q.approved = "no"
        /\ q.id = p.id
    BY DEF Params
  <1> HIDE DEF q
  <1>2. ~Set(p, "transfer") /\ \A kind \in Kinds : p.id[kind] <= w.made[kind]
    BY DEF HoldsIn, InvitationIn, ResourcesIn, Invited
  <1>3. InvitationIn(q, w) /\ ResourcesIn(q, w)
    BY <1>1, <1>2 DEF InvitationIn, ResourcesIn, Invited, Transferred, Related,
       HandshakeDue, Sold, Set
  <1>4. AnswersIn(q, w) /\ ErrorShown(q)
    BY <1>1 DEF AnswersIn, ErrorShown
  <1> QED BY <1>3, <1>4 DEF HoldsIn, q

(* The invitation sent for the account of the order is the one recorded.    *)
LEMMA InvitedHolds ==
    ASSUME NEW w, NEW p \in Params, HoldsIn(p, w),
           p.phase = "createBillingTransferInvitation", ~p.mpaErr, p.mpa # NoMpa,
           NEW n \in Ids, n <= w.made["transfer"], w.account[n] = p.mpa
    PROVE  HoldsIn(WithPhase(WithId(p, "transfer", n), "checkBillingTransferInvitation"), w)
  <1> DEFINE q == WithPhase(WithId(p, "transfer", n), "checkBillingTransferInvitation")
  <1>1. /\ q.phase = "checkBillingTransferInvitation" /\ q.mpa = p.mpa
        /\ q.mpaErr = p.mpaErr /\ q.roles = p.roles /\ q.approved = p.approved
        /\ q.id["transfer"] = n /\ \A k \in Kinds \ {"transfer"} : q.id[k] = p.id[k]
    BY DEF WithPhase, WithId, Params, Kinds
  <1> HIDE DEF q
  <1>2. Set(q, "transfer") /\ (Set(p, "handshake") <=> Set(q, "handshake"))
    BY <1>1 DEF Set, Ids, Kinds
  <1>3. InvitationIn(q, w)
    BY <1>1, <1>2 DEF InvitationIn, Invited, Phases
  <1>4. \A k \in Kinds : q.id[k] <= w.made[k]
    BY <1>1 DEF HoldsIn, ResourcesIn
  <1>5. ResourcesIn(q, w)
    BY <1>1, <1>4 DEF ResourcesIn, Transferred, Related, HandshakeDue, Sold
  <1>6. AnswersIn(q, w) /\ ErrorShown(q)
    BY <1>1, <1>2 DEF HoldsIn, AnswersIn, ErrorShown, Kinds
  <1> QED BY <1>3, <1>5, <1>6 DEF HoldsIn, q

(* The handshake sent is the one recorded; it has no answer yet.            *)
LEMMA HandshakeHolds ==
    ASSUME NEW w, NEW p \in Params, HoldsIn(p, w), p.phase = "createChannelHandshake",
           p.id["handshake"] = 0, NEW n \in Ids, n <= w.made["handshake"]
    PROVE  HoldsIn(WithPhase(WithId(p, "handshake", n), "checkChannelHandshakeStatus"), w)
  <1> DEFINE q == WithPhase(WithId(p, "handshake", n), "checkChannelHandshakeStatus")
  <1>1. /\ q.phase = "checkChannelHandshakeStatus" /\ q.mpa = p.mpa
        /\ q.mpaErr = p.mpaErr /\ q.roles = p.roles /\ q.approved = p.approved
        /\ q.id["handshake"] = n /\ \A k \in Kinds \ {"handshake"} : q.id[k] = p.id[k]
    BY DEF WithPhase, WithId, Params, Kinds
  <1> HIDE DEF q
  <1>2. /\ Set(q, "handshake") /\ q.id["transfer"] = p.id["transfer"]
        /\ q.id["group"] = p.id["group"] /\ q.id["relationship"] = p.id["relationship"]
    BY <1>1 DEF Set, Ids, Kinds
  <1>3. /\ p.phase \in Invited /\ p.phase \in Transferred /\ p.phase \in Related
        /\ p.phase \notin {"", "createAccount"} /\ p.phase # "createBillingTransferInvitation"
        /\ q.phase \in Invited
    BY <1>1 DEF Invited, Transferred, Related, Phases
  <1>4. InvitationIn(q, w)
    BY <1>1, <1>2, <1>3 DEF HoldsIn, InvitationIn, Set
  <1>5. \A k \in Kinds : q.id[k] <= w.made[k]
    BY <1>1 DEF HoldsIn, ResourcesIn
  <1>6. AcceptedIn(q, w) /\ Set(q, "group") /\ Set(q, "relationship")
    BY <1>1, <1>2, <1>3 DEF HoldsIn, ResourcesIn, AcceptedIn, Set
  <1>7. ResourcesIn(q, w)
    BY <1>1, <1>2, <1>5, <1>6 DEF ResourcesIn, Sold
  <1>8. p.approved # "yes" /\ ~p.mpaErr
    BY <1>3 DEF HoldsIn, AnswersIn, ErrorShown, Set
  <1>9. AnswersIn(q, w) /\ ErrorShown(q)
    BY <1>1, <1>3, <1>8 DEF HoldsIn, AnswersIn, ErrorShown
  <1> QED BY <1>4, <1>7, <1>9 DEF HoldsIn, q

-----------------------------------------------------------------------------
(* What the invariant says of the run, before and after the step.           *)
LEMMA RunFacts ==
    ASSUME TypeOK, IInv, Next
    PROVE  /\ run \in RunType /\ run.p \in Params /\ World \in Worlds /\ World' \in Worlds
           /\ HoldsIn(run.p, World) \/ run.mode = "save"
           /\ HoldsIn(run.p, World') \/ run.mode = "save"
           /\ HoldsIn(RunClaims, World')
           /\ HoldsIn(params, World')
           /\ HoldsIn(job.p, World')
           /\ run.p.mpaErr => run.at = "setup" /\ run.mode = "run"
  <1>1. run \in RunType /\ run.p \in Params /\ params \in Params /\ job.p \in Params
    BY DEF TypeOK, RunType, JobType
  <1>2. RunClaims \in Params
    BY <1>1, PostedParams DEF RunClaims
  <1>3. HoldsIn(RunClaims, World) /\ HoldsIn(params, World) /\ HoldsIn(job.p, World)
    BY SameClaims DEF IInv
  <1>4. HoldsIn(RunClaims, World') /\ HoldsIn(params, World') /\ HoldsIn(job.p, World')
    BY <1>1, <1>2, <1>3, Carried
  <1>5. run.mode # "save" => RunClaims = run.p
    BY DEF RunClaims
  <1>6. World \in Worlds /\ World' \in Worlds
    BY WorldType, WorldTypeNext, TypesKept
  <1> QED BY <1>1, <1>3, <1>4, <1>5, <1>6 DEF IInv, RunOrigin

(* The edits of a context the worker makes before it queries an order.      *)
LEMMA QueriedHolds ==
    ASSUME NEW w, NEW p \in Params, HoldsIn(p, w), p.phase # ""
    PROVE  /\ p.phase \in {"createAccount", "createBillingTransferInvitation"}
                => HoldsIn([p EXCEPT !.mpaErr = TRUE], w)
           /\ HoldsIn([p EXCEPT !.approved = "no"], w)
           /\ HoldsIn([p EXCEPT !.roles = "no"], w)
           /\ HoldsIn([p EXCEPT !.mpaErr = FALSE], w)
           /\ HoldsIn([p EXCEPT !.errSent = TRUE], w)
           /\ w.roles => HoldsIn([p EXCEPT !.roles = "yes"], w)
           /\ Set(p, "handshake") /\ w.handshake[p.id["handshake"]] = "ACCEPTED"
                => HoldsIn([p EXCEPT !.approved = "yes"], w)
  <1>1. ASSUME NEW b \in BOOLEAN,
               b => p.phase \in {"createAccount", "createBillingTransferInvitation"}
        PROVE  HoldsIn([p EXCEPT !.mpaErr = b], w)
    <2> DEFINE q == [p EXCEPT !.mpaErr = b]
    <2>1. /\ q.phase = p.phase /\ q.mpa = p.mpa /\ q.id = p.id /\ q.mpaErr = b
          /\ q.roles = p.roles /\ q.approved = p.approved
      BY DEF Params
    <2> HIDE DEF q
    <2>2. HoldsIn(q, w)
      BY <1>1, <2>1, EditHolds
    <2> QED BY <2>2 DEF q
  <1>2. ASSUME NEW v \in {"no", "yes"},
               v = "yes" => Set(p, "handshake") /\ w.handshake[p.id["handshake"]] = "ACCEPTED"
        PROVE  HoldsIn([p EXCEPT !.approved = v], w)
    <2> DEFINE q == [p EXCEPT !.approved = v]
    <2>1. /\ q.phase = p.phase /\ q.mpa = p.mpa /\ q.id = p.id /\ q.mpaErr = p.mpaErr
          /\ q.roles = p.roles /\ q.approved = v
      BY DEF Params
    <2> HIDE DEF q
    <2>2. HoldsIn(q, w)
      BY <1>2, <2>1, EditHolds
    <2> QED BY <2>2 DEF q
  <1>3. ASSUME NEW v \in {"no", "yes"}, v = "yes" => w.roles
        PROVE  HoldsIn([p EXCEPT !.roles = v], w)
    <2> DEFINE q == [p EXCEPT !.roles = v]
    <2>1. /\ q.phase = p.phase /\ q.mpa = p.mpa /\ q.id = p.id /\ q.mpaErr = p.mpaErr
          /\ q.roles = v /\ q.approved = p.approved
      BY DEF Params
    <2> HIDE DEF q
    <2>2. HoldsIn(q, w)
      BY <1>3, <2>1, EditHolds
    <2> QED BY <2>2 DEF q
  <1>4. HoldsIn([p EXCEPT !.errSent = TRUE], w)
    <2> DEFINE q == [p EXCEPT !.errSent = TRUE]
    <2>1. /\ q.phase = p.phase /\ q.mpa = p.mpa /\ q.id = p.id /\ q.mpaErr = p.mpaErr
          /\ q.roles = p.roles /\ q.approved = p.approved
      BY DEF Params
    <2> HIDE DEF q
    <2>2. HoldsIn(q, w)
      BY <2>1, EditHolds
    <2> QED BY <2>2 DEF q
  <1> QED BY <1>1, <1>2, <1>3, <1>4

(* A step is executed in its phase (pre_step).                              *)
LEMMA AtPhase ==
    ASSUME NEW s, At(s)
    PROVE  /\ run.at = s /\ run.mode = "run"
           /\ PhaseOf(s) # "any" => run.p.phase = PhaseOf(s)
    BY DEF At, Applies, InPhase

(* The stored parameters claim only what holds, whoever saves them.         *)
LEMMA ParamsHolds ==
    ASSUME TypeOK, IInv, Next
    PROVE  HoldsIn(params', World')
  <1> USE RunFacts DEF Keep, OrderSame, orderVars, JobSame, JobKeep, EnvKeep
  <1>1. ASSUME params' = params \/ \E ctx : Store(run.p, ctx) /\ run.mode # "save"
        PROVE  HoldsIn(params', World')
    BY <1>1 DEF Store
  <1>2. ASSUME NEW p, NEW st, Close(st, p), HoldsIn(p, World')
        PROVE  HoldsIn(params', World')
    BY <1>2 DEF Close, Store
  <1>3. CASE SetupContext
    <2> DEFINE clean == [run.p EXCEPT !.mpaErr = FALSE]
               first == IF account = "new" THEN "createAccount"
                        ELSE "createBillingTransferInvitation"
               begun == [clean EXCEPT !.phase = first, !.roles = "no", !.approved = "no"]
    <2>1. run.mode # "save"
      BY <1>3 DEF SetupContext, At
    <2>2. run.p.phase = "" => HoldsIn(begun, World')
      <3>1. begun = [run.p EXCEPT !.mpaErr = FALSE, !.phase = first, !.roles = "no",
                                  !.approved = "no"]
        BY DEF Params
      <3>2. first \in {"createAccount", "createBillingTransferInvitation"}
        OBVIOUS
      <3> HIDE DEF begun, first
      <3> QED BY <2>1, <3>1, <3>2, BegunHolds
    <2>3. \/ params' = params
          \/ run.p.phase = "" /\ params' = begun
          \/ params' = run.p
      BY <1>3 DEF SetupContext, Store
    <2> QED BY <2>1, <2>2, <2>3
  <1>4. CASE ValidateOrder
    BY <1>1, <1>2, <1>4, AtPhase DEF ValidateOrder
  <1>5. CASE CreateNewAWSEnvironment
    <2>1. run.mode # "save" /\ run.p.phase = "createAccount"
      BY <1>5, AtPhase DEF CreateNewAWSEnvironment, PhaseOf
    <2> QED BY <1>1, <1>2, <1>5, <2>1, QueriedHolds DEF CreateNewAWSEnvironment, QueryOrder
  <1>6. CASE CreateBillingTransferInvitation
    <2>1. run.mode # "save" /\ run.p.phase = "createBillingTransferInvitation"
      BY <1>6, AtPhase DEF CreateBillingTransferInvitation, PhaseOf
    <2> QED BY <1>1, <1>2, <1>6, <2>1, QueriedHolds
        DEF CreateBillingTransferInvitation, InviteOrganization, QueryOrder
  <1>7. CASE CheckBillingTransferInvitation
    <2>1. run.mode # "save"
      BY <1>7, AtPhase DEF CheckBillingTransferInvitation
    <2> QED BY <1>1, <1>2, <1>7, <2>1 DEF CheckBillingTransferInvitation, QueryOrder
  <1>8. CASE CheckChannelHandshakeStatus
    <2>1. run.mode # "save" /\ run.p.phase = "checkChannelHandshakeStatus"
      BY <1>8, AtPhase DEF CheckChannelHandshakeStatus, PhaseOf
    <2> QED BY <1>1, <1>2, <1>8, <2>1, QueriedHolds
        DEF CheckChannelHandshakeStatus, QueryOrder
  <1>9. CASE CheckCustomerRoles
    <2>1. run.mode # "save" /\ run.p.phase = "checkCustomerRoles"
      BY <1>9, AtPhase DEF CheckCustomerRoles, PhaseOf
    <2> QED BY <1>1, <1>2, <1>9, <2>1, QueriedHolds DEF CheckCustomerRoles, QueryOrder
  <1>10. CASE CompleteOrder
    <2>1. Posted("complete", run.p) = run.p
      BY DEF Posted, PhaseAfter, WithPhase, Params
    <2>2. HoldsIn(run.p, World')
      BY <1>10, <2>1 DEF CompleteOrder, RunClaims
    <2> QED BY <1>2, <1>10, <2>2 DEF CompleteOrder
  <1>11. CASE PostStep
    BY <1>1, <1>11 DEF PostStep, RunClaims, Store
  <1>12. CASE SaveInProcess
    <2>1. run.mode # "save"
      BY <1>12 DEF SaveInProcess
    <2> QED BY <1>1, <1>12, <2>1 DEF SaveInProcess
  <1>13. CASE JobSaves \/ ProcessOrder
    BY <1>1, <1>13 DEF JobSaves, ProcessOrder, Store
  <1>14. CASE CustomerResubmits
    <2>1. PICK mpa \in MPAs \cup {params.mpa} :
            /\ mpa # params.mpa => params.mpaErr
            /\ params' = [params EXCEPT !.mpa = mpa]
      BY <1>14 DEF CustomerResubmits
    <2>2. CASE mpa = params.mpa
      <3>1. params' = params
        BY <2>1, <2>2 DEF TypeOK, Params
      <3> QED BY <3>1
    <2>3. CASE mpa # params.mpa
      <3>1. /\ params'.phase = params.phase /\ params'.id = params.id
            /\ params'.mpaErr = params.mpaErr /\ params'.roles = params.roles
            /\ params'.approved = params.approved
        BY <2>1 DEF TypeOK, Params
      <3>2. params.phase \in {"createAccount", "createBillingTransferInvitation"}
        BY <2>1, <2>3 DEF HoldsIn, ErrorShown
      <3>3. params.phase \notin Invited /\ params.phase \notin Transferred
        BY <3>2 DEF Invited, Transferred
      <3>4. InvitationIn(params', World') /\ ResourcesIn(params', World')
        BY <3>1, <3>2, <3>3
        DEF HoldsIn, InvitationIn, ResourcesIn, Set, Related, HandshakeDue, Sold
      <3>5. AnswersIn(params', World') /\ ErrorShown(params')
        BY <3>1 DEF HoldsIn, AnswersIn, ErrorShown, Set
      <3> QED BY <3>4, <3>5 DEF HoldsIn
    <2> QED BY <2>2, <2>3
  <1>15. CASE \/ Poll \/ CreateTickets \/ ConfigureAPNProgram \/ CreateChannelHandshake
              \/ OnboardServices \/ CheckOnboardStatus \/ CreateSubscription
              \/ ContractCardStep \/ SWOJobStep \/ UpdateAgreement \/ SendErrorEmail
              \/ StepFails \/ SaveFails \/ Restart
    BY <1>1, <1>15 DEF Poll, CreateTickets, CreateTicket, ConfigureAPNProgram,
       CreateChannelHandshake, OnboardServices, CheckOnboardStatus, CreateSubscription,
       ContractCardStep, SWOJobStep, UpdateAgreement, SendErrorEmail, StepFails,
       SaveFails, Restart
  <1>16. CASE \/ FetchOrder \/ ProcessTransfer \/ ProcessHandshake \/ ProcessRoles
              \/ NothingToDo \/ JobFails
    BY <1>1, <1>16 DEF FetchOrder, ProcessTransfer, ProcessHandshake, ProcessRoles,
       NothingToDo, JobFails
  <1>17. CASE \/ TransferSettles \/ HandshakeSettles \/ RolesDeployed \/ OnboardingEnds
              \/ TicketResolved \/ OperatorFails \/ DayPasses
    BY <1>1, <1>17 DEF TransferSettles, HandshakeSettles, RolesDeployed, OnboardingEnds,
       TicketResolved, OperatorFails, DayPasses
  <1> QED
    BY <1>3, <1>4, <1>5, <1>6, <1>7, <1>8, <1>9, <1>10, <1>11, <1>12, <1>13, <1>14,
       <1>15, <1>16, <1>17
    DEF Next, WorkerNext, WorkerStep, JobNext, JobStep, Environment

-----------------------------------------------------------------------------
(* The worker's context claims only what holds, also after its post_step.   *)
LEMMA RunHolds ==
    ASSUME TypeOK, IInv, Next
    PROVE  HoldsIn(RunClaims', World') /\ RunOrigin'
  <1> DEFINE Goal == HoldsIn(RunClaims', World') /\ RunOrigin'
  <1> USE RunFacts DEF Keep, OrderSame, orderVars, JobSame, JobKeep, EnvKeep
  <1>0. /\ \A r \in Resources : made[r] \in 0..MaxMade
        /\ RunOrigin
    BY DEF TypeOK, IInv
  <1>1. ASSUME Stop PROVE Goal
    BY <1>1, IdleHolds DEF Stop, IdleRun, RunClaims, RunOrigin, FreshParams
  <1>2. ASSUME NEW p, NEW fresh, Advance(p, fresh), HoldsIn(p, World'), ~p.mpaErr
        PROVE  Goal
    <2>1. CASE run' = IdleRun
      BY <1>1, <2>1 DEF Stop
    <2>2. CASE run'.mode = "run" /\ run'.p = p /\ run'.at \in Steps
      BY <1>2, <2>2 DEF RunClaims, RunOrigin, Steps
    <2> QED BY <1>2, <2>1, <2>2 DEF Advance, Later
  <1>3. ASSUME NEW q, Then("save", q), run.at \notin {"idle", "complete"},
               HoldsIn(Posted(run.at, q), World'), ~q.mpaErr
        PROVE  Goal
    <2>1. run'.mode = "save" /\ run'.at = run.at /\ run'.p = q
      BY <1>3 DEF Then, RunType
    <2>2. RunClaims' = Posted(run.at, q)
      BY <2>1 DEF RunClaims, Posted, PhaseAfter, WithPhase
    <2> QED BY <1>3, <2>1, <2>2 DEF RunOrigin
  <1>4. ASSUME NEW mode \in {"record", "alert", "email"}, NEW q, Then(mode, q),
               HoldsIn(q, World'), ~q.mpaErr,
               \/ run.at = "onboard" /\ q.phase = "onboardServices"
               \/ run.at = "checkOnboard" /\ q.phase = "checkOnboardStatus"
        PROVE  Goal
    <2>1. run'.mode = mode /\ run'.at = run.at /\ run'.p = q
      BY <1>4 DEF Then, RunType
    <2> QED BY <1>4, <2>1 DEF RunClaims, RunOrigin
  <1>5. ASSUME run'.at = run.at, run'.p = run.p, run'.mode = run.mode, vendor' = vendor
        PROVE  Goal
    <2>1. RunClaims' = RunClaims
      BY <1>5 DEF RunClaims, Posted, PhaseAfter, WithPhase
    <2> QED BY <1>0, <1>5, <2>1 DEF RunOrigin
  <1>6. ASSUME NEW p, run' = Overtaken(run, p), vendor' = vendor
        PROVE  Goal
    BY <1>5, <1>6, OvertakenSame
  <1>7. ASSUME NEW st, NEW p, Close(st, p) PROVE Goal
    BY <1>1, <1>7 DEF Close
  <1>8. ASSUME NEW p \in Params, NEW s, PhaseAfter(s, p.phase) = p.phase
        PROVE  Posted(s, p) = p
    BY <1>8 DEF Posted, WithPhase, Params
  <1>9. ASSUME NEW kind \in Kinds, CanMake(kind), made' = Made(kind)
        PROVE  /\ made'[kind] = made[kind] + 1 /\ made[kind] + 1 \in 0..MaxMade
               /\ made[kind] + 1 \in Ids /\ World'.made = made' /\ made[kind] + 1 # 0
    <2>1. kind \in Resources
      BY DEF Resources
    <2> QED BY <1>0, <1>9, <2>1, BoundAssumption DEF CanMake, Made, TypeOK, Ids, World
  <1>10. run.at \notin {"setup"} \/ run.mode # "run" => ~run.p.mpaErr
    BY <1>0 DEF RunOrigin
  <1>11. ASSUME HandleError, HoldsIn(run.p, World'), ~run.p.mpaErr,
                \/ run.at = "onboard" /\ run.p.phase = "onboardServices"
                \/ run.at = "checkOnboard" /\ run.p.phase = "checkOnboardStatus"
         PROVE  Goal
    <2>1. CASE Then("alert", [run.p EXCEPT !.errSent = TRUE])
      <3>1. HoldsIn([run.p EXCEPT !.errSent = TRUE], World')
        BY <1>11, QueriedHolds
      <3>2. /\ [run.p EXCEPT !.errSent = TRUE].phase = run.p.phase
            /\ ~[run.p EXCEPT !.errSent = TRUE].mpaErr
        BY <1>11 DEF Params
      <3> QED BY <1>4, <1>11, <2>1, <3>1, <3>2
    <2>2. CASE Then("save", run.p)
      <3>1. HoldsIn(Posted(run.at, run.p), World')
        BY <1>11, LaterPhaseHolds DEF Posted, PhaseAfter, HandshakeDue, Related,
           Transferred, Invited, Phases, Sold
      <3> QED BY <1>3, <1>11, <2>2, <3>1
    <2> QED BY <1>1, <1>11, <2>1, <2>2 DEF HandleError
  <1>20. CASE Poll
    <2>1. run'.at = "setup" /\ run'.mode = "run" /\ run'.p = params
      BY <1>20 DEF Poll
    <2> QED BY <2>1 DEF RunClaims, RunOrigin
  <1>21. CASE SetupContext
    <2> DEFINE clean == [run.p EXCEPT !.mpaErr = FALSE]
               first == IF account = "new" THEN "createAccount"
                        ELSE "createBillingTransferInvitation"
               begun == [clean EXCEPT !.phase = first, !.roles = "no", !.approved = "no"]
    <2>1. run.mode = "run"
      BY <1>21 DEF SetupContext, At
    <2>2. run.p.phase = "" => HoldsIn(begun, World') /\ ~begun.mpaErr
      <3>1. begun = [run.p EXCEPT !.mpaErr = FALSE, !.phase = first, !.roles = "no",
                                  !.approved = "no"]
        BY DEF Params
      <3>2. first \in {"createAccount", "createBillingTransferInvitation"}
        OBVIOUS
      <3>3. ~begun.mpaErr
        BY DEF Params
      <3> HIDE DEF begun, first
      <3> QED BY <2>1, <3>1, <3>2, <3>3, BegunHolds
    <2>3. run.p.phase # "" => HoldsIn(clean, World') /\ ~clean.mpaErr
      BY <2>1, QueriedHolds DEF Params
    <2> HIDE DEF begun
    <2>4. \/ run.p.phase = "" /\ Advance(begun, TRUE)
          \/ run.p.phase # "" /\ (\E fresh : Advance(clean, fresh))
          \/ Stop
      BY <1>21 DEF SetupContext, begun
    <2> HIDE DEF clean
    <2> QED BY <1>1, <1>2, <2>2, <2>3, <2>4
  <1>22. CASE ValidateOrder
    <2>1. run.mode = "run" /\ run.at = "validate"
      BY <1>22, AtPhase DEF ValidateOrder
    <2> QED BY <1>2, <1>7, <1>10, <1>22, <2>1 DEF ValidateOrder
  <1>23. CASE CreateTickets
    <2>1. PICK s \in TicketSteps : CreateTicket(s)
      BY <1>23 DEF CreateTickets
    <2>2. /\ run.at = s /\ run.mode = "run" /\ CanMake(s) /\ made' = Made(s)
          /\ s \in Kinds \ {"transfer", "handshake", "group", "relationship"}
      BY <2>1, AtPhase DEF CreateTicket, TicketSteps, Kinds
    <2>3. PICK q \in {run.p, WithId(run.p, s, made[s] + 1)} : Then("save", q)
      BY <2>1 DEF CreateTicket
    <2>4. q \in Params /\ HoldsIn(q, World') /\ ~q.mpaErr
      <3>1. CASE q = run.p
        BY <1>10, <2>1, <2>2, <3>1 DEF TicketSteps
      <3>2. CASE q = WithId(run.p, s, made[s] + 1)
        <4>1. /\ made[s] + 1 \in 0..MaxMade /\ made[s] + 1 <= World'.made[s]
              /\ s \in Kinds
          BY <1>9, <2>2, BoundAssumption DEF Ids
        <4>3. q \in Params
          BY <3>2, <4>1, EditedParams
        <4>4. HoldsIn(q, World')
          BY <2>2, <3>2, <4>1, IdHolds
        <4>2. q.mpaErr = run.p.mpaErr
          BY <3>2 DEF WithId, Params
        <4> QED BY <1>10, <2>1, <2>2, <4>2, <4>3, <4>4 DEF TicketSteps
      <3> QED BY <2>3, <3>1, <3>2
    <2>5. Posted(s, q) = q
      BY <1>8, <2>1, <2>4 DEF PhaseAfter, TicketSteps
    <2> QED BY <1>3, <2>1, <2>2, <2>3, <2>4, <2>5 DEF TicketSteps
  <1>24. CASE CreateNewAWSEnvironment
    <2>1. run.mode = "run" /\ run.at = "createEnv" /\ run.p.phase = "createAccount"
      BY <1>24, AtPhase DEF CreateNewAWSEnvironment, PhaseOf
    <2>2. CASE run.p.mpa # NoMpa /\ Then("save", run.p)
      <3>1. ~Set(run.p, "transfer")
        BY <2>1 DEF HoldsIn, InvitationIn, Invited
      <3>2. HoldsIn(WithPhase(run.p, "createBillingTransferInvitation"), World')
        BY <1>10, <2>1, <3>1, PhaseHolds
        DEF Invited, Transferred, Related, HandshakeDue, Sold, Phases
      <3>3. HoldsIn(Posted(run.at, run.p), World')
        BY <2>1, <3>2 DEF Posted, PhaseAfter
      <3> QED BY <1>3, <1>10, <2>1, <2>2, <3>3
    <2> QED BY <1>7, <1>24, <2>2 DEF CreateNewAWSEnvironment, QueryOrder
  <1>25. CASE CreateBillingTransferInvitation
    <2>1. /\ run.mode = "run" /\ run.at = "createTransfer"
          /\ run.p.phase = "createBillingTransferInvitation"
      BY <1>25, AtPhase DEF CreateBillingTransferInvitation, PhaseOf
    <2>2. run.p.id["transfer"] = 0
      BY <2>1 DEF HoldsIn, InvitationIn, Invited, Set
    <2>3. CASE InviteOrganization
      <3> DEFINE n == made["transfer"] + 1
                 q == WithId(run.p, "transfer", n)
      <3>1. /\ run.p.mpa # NoMpa /\ Then("save", q)
            /\ transferMpa' = [transferMpa EXCEPT ![n] = run.p.mpa]
        BY <2>3 DEF InviteOrganization
      <3>2. made'["transfer"] = n /\ n \in Ids /\ World'.made = made'
        BY <1>9, <2>3 DEF InviteOrganization, Kinds
      <3>3. World'.account[n] = run.p.mpa
        BY <3>1, <3>2 DEF World, TypeOK
      <3>4. n <= World'.made["transfer"]
        BY <3>2 DEF Ids
      <3>5. ~q.mpaErr
        BY <1>10, <2>1 DEF WithId, Params
      <3> HIDE DEF n
      <3>6. HoldsIn(Posted(run.at, q), World')
        BY <1>10, <2>1, <3>1, <3>2, <3>3, <3>4, InvitedHolds DEF Posted, PhaseAfter
      <3> HIDE DEF q
      <3> QED BY <1>3, <2>1, <3>1, <3>5, <3>6
    <2> QED BY <1>7, <1>25, <2>2, <2>3 DEF CreateBillingTransferInvitation, QueryOrder
  <1>26. CASE CheckBillingTransferInvitation
    <2>1. /\ run.mode = "run" /\ run.at = "checkTransfer"
          /\ run.p.phase = "checkBillingTransferInvitation"
      BY <1>26, AtPhase DEF CheckBillingTransferInvitation, PhaseOf
    <2>2. CASE /\ transferStatus[run.p.id["transfer"]] = "ACCEPTED" /\ CanMake("group")
               /\ made' = Made("group") /\ UNCHANGED awsVars
               /\ Then("save", WithId(run.p, "group", made["group"] + 1))
      <3> DEFINE n == made["group"] + 1
                 q == WithId(run.p, "group", n)
      <3>1. /\ n \in 0..MaxMade /\ n # 0 /\ n <= World'.made["group"]
        BY <1>9, <2>2 DEF Kinds, Ids
      <3>2. HoldsIn(q, World') /\ q \in Params
        <4> HIDE DEF n
        <4> QED BY <2>1, <3>1, IdHolds, EditedParams DEF Kinds
      <3>3. /\ q.id["transfer"] = run.p.id["transfer"] /\ q.mpa = run.p.mpa
            /\ q.mpaErr = run.p.mpaErr /\ q.phase = run.p.phase /\ q.id["group"] = n
        BY DEF WithId, Params, Kinds
      <3>4. World'.transfer[run.p.id["transfer"]] = "ACCEPTED"
        BY <2>2 DEF World, awsVars
      <3>5. ~q.mpaErr /\ q.phase = "checkBillingTransferInvitation"
        BY <1>10, <2>1, <3>3
      <3>6. Set(q, "group")
        BY <3>1, <3>3 DEF Set
      <3> HIDE DEF q, n
      <3>7. /\ q.mpa # NoMpa /\ Set(q, "transfer")
            /\ World'.account[q.id["transfer"]] = q.mpa
        BY <3>2, <3>5 DEF HoldsIn, InvitationIn, Invited, Phases
      <3>8. AcceptedIn(q, World')
        BY <3>3, <3>4, <3>7 DEF AcceptedIn
      <3>9. HoldsIn(Posted(run.at, q), World')
        BY <2>1, <3>2, <3>5, <3>6, <3>7, <3>8, PhaseHolds
        DEF Posted, PhaseAfter, Invited, Transferred, Related, HandshakeDue, Sold, Phases
      <3> QED BY <1>3, <2>1, <2>2, <3>5, <3>9 DEF q, n
    <2> QED BY <1>7, <1>26, <2>2 DEF CheckBillingTransferInvitation, QueryOrder
  <1>27. CASE ConfigureAPNProgram
    <2>1. /\ run.mode = "run" /\ run.at = "configureApn"
          /\ run.p.phase = "configureApnProgram"
      BY <1>27, AtPhase DEF ConfigureAPNProgram, PhaseOf
    <2>2. ASSUME NEW q \in Params, HoldsIn(q, World'), q.phase = "configureApnProgram",
                 Set(q, "relationship"), ~q.mpaErr, Then("save", q)
          PROVE  Goal
      <3>1. /\ q.mpa # NoMpa /\ Set(q, "transfer") /\ Set(q, "group")
            /\ World'.account[q.id["transfer"]] = q.mpa /\ AcceptedIn(q, World')
        BY <2>2 DEF HoldsIn, InvitationIn, ResourcesIn, Transferred, Invited, Phases
      <3>2. HoldsIn(Posted(run.at, q), World')
        BY <2>1, <2>2, <3>1, PhaseHolds
        DEF Posted, PhaseAfter, Invited, Transferred, Related, HandshakeDue, Sold, Phases
      <3> QED BY <1>3, <2>1, <2>2, <3>2
    <2>3. CASE run.p.id["relationship"] # 0 /\ Then("save", run.p)
      BY <1>10, <2>1, <2>2, <2>3 DEF Set
    <2>4. CASE /\ CanMake("relationship") /\ made' = Made("relationship")
               /\ Then("save", WithId(run.p, "relationship", made["relationship"] + 1))
      <3> DEFINE n == made["relationship"] + 1
                 q == WithId(run.p, "relationship", n)
      <3>1. /\ n \in 0..MaxMade /\ n # 0 /\ n <= World'.made["relationship"]
        BY <1>9, <2>4 DEF Kinds, Ids
      <3>2. /\ q.mpaErr = run.p.mpaErr /\ q.phase = run.p.phase
            /\ q.id["relationship"] = n
        BY DEF WithId, Params, Kinds
      <3> HIDE DEF n
      <3>3. HoldsIn(q, World') /\ q \in Params
        BY <2>1, <3>1, IdHolds, EditedParams DEF Kinds
      <3>4. Set(q, "relationship")
        BY <3>1, <3>2 DEF Set
      <3> HIDE DEF q
      <3> QED BY <1>10, <2>1, <2>2, <2>4, <3>2, <3>3, <3>4 DEF q, n
    <2> QED BY <1>27, <2>3, <2>4 DEF ConfigureAPNProgram
  <1>28. CASE CreateChannelHandshake
    <2>1. /\ run.mode = "run" /\ run.at = "createHandshake"
          /\ run.p.phase = "createChannelHandshake"
      BY <1>28, AtPhase DEF CreateChannelHandshake, PhaseOf
    <2>2. CASE run.p.id["handshake"] # 0 /\ Then("save", run.p)
      <3>1. /\ run.p.mpa # NoMpa /\ Set(run.p, "transfer") /\ Set(run.p, "group")
            /\ World'.account[run.p.id["transfer"]] = run.p.mpa
            /\ AcceptedIn(run.p, World') /\ Set(run.p, "relationship")
        BY <2>1 DEF HoldsIn, InvitationIn, ResourcesIn, Related, Transferred, Invited, Phases
      <3>2. HoldsIn(Posted(run.at, run.p), World')
        BY <1>10, <2>1, <2>2, <3>1, PhaseHolds
        DEF Posted, PhaseAfter, Invited, Transferred, Related, HandshakeDue, Sold, Phases, Set
      <3> QED BY <1>3, <1>10, <2>1, <2>2, <3>2
    <2>3. CASE /\ run.p.id["handshake"] = 0 /\ CanMake("handshake")
               /\ made' = Made("handshake")
               /\ Then("save", WithId(run.p, "handshake", made["handshake"] + 1))
      <3> DEFINE n == made["handshake"] + 1
                 q == WithId(run.p, "handshake", n)
      <3>1. n \in Ids /\ n <= World'.made["handshake"]
        BY <1>9, <2>3 DEF Kinds, Ids
      <3>2. ~q.mpaErr
        BY <1>10, <2>1 DEF WithId, Params
      <3> HIDE DEF n
      <3>3. HoldsIn(Posted(run.at, q), World')
        BY <2>1, <2>3, <3>1, HandshakeHolds DEF Posted, PhaseAfter
      <3> HIDE DEF q
      <3> QED BY <1>3, <2>1, <2>3, <3>2, <3>3 DEF q, n
    <2> QED BY <1>28, <2>2, <2>3 DEF CreateChannelHandshake
  <1>29. CASE CheckChannelHandshakeStatus
    <2>1. /\ run.mode = "run" /\ run.at = "checkHandshake"
          /\ run.p.phase = "checkChannelHandshakeStatus"
      BY <1>29, AtPhase DEF CheckChannelHandshakeStatus, PhaseOf
    <2>2. ASSUME NEW q \in Params, HoldsIn(q, World'), q.phase = run.p.phase, ~q.mpaErr,
                 Then("save", q)
          PROVE  Goal
      <3>1. HoldsIn(Posted(run.at, q), World')
        BY <2>1, <2>2, LaterPhaseHolds DEF Posted, PhaseAfter, HandshakeDue, Related,
           Transferred, Invited, Phases, Sold
      <3> QED BY <1>3, <2>1, <2>2, <3>1
    <2>3. \A v \in {"no", "yes"} :
             /\ [run.p EXCEPT !.approved = v] \in Params
             /\ [run.p EXCEPT !.approved = v].phase = run.p.phase
             /\ ~[run.p EXCEPT !.approved = v].mpaErr
      BY <1>10, <2>1 DEF Params
    <2>4. HoldsIn([run.p EXCEPT !.approved = "no"], World')
      BY <2>1, QueriedHolds
    <2>5. CASE /\ run.p.id["handshake"] # 0
               /\ handshakeStatus[run.p.id["handshake"]] = "ACCEPTED"
               /\ Then("save", [run.p EXCEPT !.approved = "yes"]) /\ WorldSame
      <3>1. /\ Set(run.p, "handshake")
            /\ World'.handshake[run.p.id["handshake"]] = "ACCEPTED"
        BY <2>5 DEF Set, World, WorldSame, awsVars
      <3>2. HoldsIn([run.p EXCEPT !.approved = "yes"], World')
        BY <2>1, <3>1, QueriedHolds
      <3> QED BY <2>2, <2>3, <2>5, <3>2
    <2>6. CASE Then("save", [run.p EXCEPT !.approved = "no"])
      BY <2>2, <2>3, <2>4, <2>6
    <2> QED BY <1>7, <1>29, <2>5, <2>6 DEF CheckChannelHandshakeStatus, QueryOrder
  <1>30. CASE CheckCustomerRoles
    <2>1. run.mode = "run" /\ run.at = "checkRoles" /\ run.p.phase = "checkCustomerRoles"
      BY <1>30, AtPhase DEF CheckCustomerRoles, PhaseOf
    <2>2. CASE rolesUp /\ Then("save", [run.p EXCEPT !.roles = "yes"]) /\ WorldSame
      <3> DEFINE q == [run.p EXCEPT !.roles = "yes"]
      <3>1. World'.roles
        BY <2>2 DEF World, WorldSame, awsVars
      <3>2. HoldsIn(q, World')
        BY <2>1, <3>1, QueriedHolds
      <3>3. q \in Params /\ q.phase = "checkCustomerRoles" /\ ~q.mpaErr
        BY <1>10, <2>1 DEF Params
      <3> HIDE DEF q
      <3>4. HoldsIn(Posted(run.at, q), World')
        BY <2>1, <3>2, <3>3, LaterPhaseHolds DEF Posted, PhaseAfter, HandshakeDue, Related,
           Transferred, Invited, Phases, Sold
      <3> QED BY <1>3, <2>1, <2>2, <3>3, <3>4 DEF q
    <2> QED BY <1>7, <1>30, <2>2 DEF CheckCustomerRoles, QueryOrder
  <1>31. CASE OnboardServices
    <2>1. run.mode = "run" /\ run.at = "onboard" /\ run.p.phase = "onboardServices"
      BY <1>31, AtPhase DEF OnboardServices, PhaseOf
    <2>2. CASE /\ CanMake("execution") /\ made' = Made("execution")
               /\ Then("record", WithId(run.p, "execution", made["execution"] + 1))
      <3> DEFINE n == made["execution"] + 1
                 q == WithId(run.p, "execution", n)
      <3>1. n \in 0..MaxMade /\ n <= World'.made["execution"]
        BY <1>9, <2>2 DEF Kinds
      <3>2. ~q.mpaErr /\ q.phase = "onboardServices"
        BY <1>10, <2>1 DEF WithId, Params
      <3> HIDE DEF n
      <3>3. HoldsIn(q, World')
        BY <2>1, <3>1, IdHolds DEF Kinds
      <3> HIDE DEF q
      <3> QED BY <1>4, <2>1, <2>2, <3>2, <3>3 DEF q, n
    <2>3. CASE HandleError
      BY <1>10, <1>11, <2>1, <2>3
    <2> QED BY <1>31, <2>2, <2>3 DEF OnboardServices
  <1>32. CASE CheckOnboardStatus
    <2>1. /\ run.mode = "run" /\ run.at = "checkOnboard"
          /\ run.p.phase = "checkOnboardStatus"
      BY <1>32, AtPhase DEF CheckOnboardStatus, PhaseOf
    <2>2. CASE Then("save", run.p)
      <3>1. HoldsIn(Posted(run.at, run.p), World')
        BY <2>1, LaterPhaseHolds DEF Posted, PhaseAfter, HandshakeDue, Related,
           Transferred, Invited, Phases, Sold
      <3> QED BY <1>3, <1>10, <2>1, <2>2, <3>1
    <2>3. CASE HandleError
      BY <1>10, <1>11, <2>1, <2>3
    <2>4. CASE Advance(run.p, run.fresh)
      BY <1>2, <1>10, <2>1, <2>4
    <2> QED BY <1>32, <2>2, <2>3, <2>4 DEF CheckOnboardStatus
  <1>33. CASE CreateSubscription
    <2>1. /\ run.mode = "run" /\ run.at = "createSubscription"
          /\ run.p.phase = "createSubscription" /\ Then("save", run.p)
      BY <1>33, AtPhase DEF CreateSubscription, PhaseOf
    <2>2. World'.made["subscription"] > 0
      <3>1. "subscription" \in Resources /\ World'.made = made'
        BY DEF Resources, World
      <3> QED BY <1>0, <1>33, <3>1 DEF CreateSubscription, NotSubscribed, Made, TypeOK
    <2>3. HoldsIn(Posted(run.at, run.p), World')
      BY <2>1, <2>2, LaterPhaseHolds DEF Posted, PhaseAfter, HandshakeDue, Related,
         Transferred, Invited, Phases, Sold
    <2> QED BY <1>3, <1>10, <2>1, <2>3
  <1>34. CASE ContractCardStep
    <2>1. run.mode = "run" /\ run.at = "contract"
      BY <1>34, AtPhase DEF ContractCardStep
    <2>2. ASSUME NEW q \in Params, HoldsIn(q, World'), ~q.mpaErr, Then("save", q)
          PROVE  Goal
      <3>1. Posted(run.at, q) = q
        BY <1>8, <2>1 DEF PhaseAfter
      <3> QED BY <1>3, <2>1, <2>2, <3>1
    <2>3. CASE Then("save", run.p)
      BY <1>10, <2>1, <2>2, <2>3
    <2>4. CASE /\ Then("save", WithId(run.p, "contract", 1))
               /\ \/ made["contract"] # 0 /\ UNCHANGED made
                  \/ CanMake("contract") /\ made' = Made("contract")
      <3>1. "contract" \in Kinds /\ "contract" \in Resources
        BY DEF Kinds, Resources
      <3>2. made'["contract"] \in Nat /\ made'["contract"] # 0
        BY <1>0, <1>9, <2>4, <3>1
      <3>3. 1 \in 0..MaxMade
        BY <1>0, <2>4, <3>1, BoundAssumption DEF CanMake
      <3>4. 1 <= World'.made["contract"]
        BY <3>2 DEF World
      <3>5. /\ HoldsIn(WithId(run.p, "contract", 1), World')
            /\ WithId(run.p, "contract", 1) \in Params
        BY <2>1, <3>1, <3>3, <3>4, IdHolds, EditedParams
      <3>6. ~WithId(run.p, "contract", 1).mpaErr
        BY <1>10, <2>1 DEF WithId, Params
      <3> QED BY <2>2, <2>4, <3>5, <3>6
    <2> QED BY <1>34, <2>3, <2>4 DEF ContractCardStep
  <1>35. CASE SWOJobStep
    <2>1. run.mode = "run" /\ run.at = "project" /\ run.p.phase = "projectCreation"
      BY <1>35, AtPhase DEF SWOJobStep, PhaseOf
    <2>2. ASSUME NEW q \in Params, HoldsIn(q, World'), ~q.mpaErr,
                 q.phase = "projectCreation", Then("save", q)
          PROVE  Goal
      <3>1. World'.made["subscription"] > 0
        BY <2>2 DEF HoldsIn, ResourcesIn, Sold
      <3>2. HoldsIn(Posted(run.at, q), World')
        BY <2>1, <2>2, <3>1, LaterPhaseHolds DEF Posted, PhaseAfter, HandshakeDue, Related,
           Transferred, Invited, Phases
      <3> QED BY <1>3, <2>1, <2>2, <3>2
    <2>3. CASE Then("save", run.p)
      BY <1>10, <2>1, <2>2, <2>3
    <2>4. CASE /\ CanMake("project") /\ made' = Made("project")
               /\ Then("save", WithId(run.p, "project", made["project"] + 1))
      <3> DEFINE n == made["project"] + 1
                 q == WithId(run.p, "project", n)
      <3>1. n \in 0..MaxMade /\ n <= World'.made["project"]
        BY <1>9, <2>4 DEF Kinds
      <3>2. ~q.mpaErr /\ q.phase = "projectCreation"
        BY <1>10, <2>1 DEF WithId, Params
      <3> HIDE DEF n
      <3>3. HoldsIn(q, World') /\ q \in Params
        BY <2>1, <3>1, IdHolds, EditedParams DEF Kinds
      <3> HIDE DEF q
      <3> QED BY <2>2, <2>4, <3>2, <3>3 DEF q, n
    <2> QED BY <1>35, <2>3, <2>4 DEF SWOJobStep
  <1>36. CASE UpdateAgreement
    <2>1. /\ run.mode = "run" /\ run.at = "complete" /\ run.p.phase = "completed"
          /\ vendor' = run.p.mpa
      BY <1>36, AtPhase DEF UpdateAgreement, PhaseOf
    <2>2. run'.at = "complete" /\ run'.mode = "save" /\ run'.p = run.p
      BY <1>36, <2>1 DEF UpdateAgreement, Then, RunType
    <2>3. Posted("complete", run.p) = run.p
      BY <1>8 DEF PhaseAfter
    <2>4. RunClaims' = run.p
      BY <2>2, <2>3 DEF RunClaims, Posted, PhaseAfter, WithPhase
    <2> QED BY <1>10, <2>1, <2>2, <2>4 DEF RunOrigin
  <1>37. CASE CompleteOrder
    BY <1>7, <1>37 DEF CompleteOrder
  <1>38. CASE PostStep
    <2>1. CASE Advance(Posted(run.at, run.p), TRUE)
      <3>1. RunClaims = Posted(run.at, run.p)
        BY <1>38 DEF PostStep, RunClaims
      <3>2. ~Posted(run.at, run.p).mpaErr
        BY <1>10, <1>38 DEF PostStep, Posted, WithPhase, Params
      <3> QED BY <1>2, <2>1, <3>1, <3>2
    <2> QED BY <1>1, <1>38, <2>1 DEF PostStep
  <1>39. CASE SaveInProcess
    <2>1. CASE Editable
      <3>1. /\ run'.at = run.at /\ run'.p = run.p
            /\ run'.mode = (IF run.mode = "record" THEN "save" ELSE "email")
            /\ run.mode \in {"record", "alert"}
        BY <1>39, <2>1 DEF SaveInProcess, RunType
      <3>2. \/ run.at = "onboard" /\ run.p.phase = "onboardServices"
            \/ run.at = "checkOnboard" /\ run.p.phase = "checkOnboardStatus"
        BY <1>0, <3>1 DEF RunOrigin
      <3>3. HoldsIn(Posted(run.at, run.p), World')
        BY <3>1, <3>2, LaterPhaseHolds DEF Posted, PhaseAfter, HandshakeDue, Related,
           Transferred, Invited, Phases, Sold
      <3>4. RunClaims' = IF run.mode = "record" THEN Posted(run.at, run.p) ELSE run.p
        BY <3>1 DEF RunClaims, Posted, PhaseAfter, WithPhase
      <3>5. HoldsIn(RunClaims', World')
        BY <3>1, <3>3, <3>4
      <3> QED BY <1>10, <3>1, <3>2, <3>5 DEF RunOrigin
    <2> QED BY <1>1, <1>39, <2>1 DEF SaveInProcess
  <1>40. CASE SendErrorEmail
    <2>1. CASE Then("save", run.p)
      <3>1. /\ run.mode = "email" /\ ~run.p.mpaErr
            /\ \/ run.at = "onboard" /\ run.p.phase = "onboardServices"
               \/ run.at = "checkOnboard" /\ run.p.phase = "checkOnboardStatus"
        BY <1>0, <1>10, <1>40 DEF SendErrorEmail, RunOrigin
      <3>2. HoldsIn(Posted(run.at, run.p), World')
        BY <3>1, LaterPhaseHolds DEF Posted, PhaseAfter, HandshakeDue, Related,
           Transferred, Invited, Phases, Sold
      <3> QED BY <1>3, <2>1, <3>1, <3>2
    <2> QED BY <1>1, <1>40, <2>1 DEF SendErrorEmail
  <1>41. CASE StepFails \/ SaveFails \/ Restart
    BY <1>1, <1>41 DEF StepFails, SaveFails, Restart
  <1>42. CASE JobSaves \/ ProcessOrder
    BY <1>5, <1>6, <1>42 DEF JobSaves, ProcessOrder
  <1>43. CASE \/ FetchOrder \/ ProcessTransfer \/ ProcessHandshake \/ ProcessRoles
              \/ NothingToDo \/ JobFails
    BY <1>5, <1>43 DEF FetchOrder, ProcessTransfer, ProcessHandshake, ProcessRoles,
       NothingToDo, JobFails
  <1>44. CASE CustomerResubmits
    BY <1>6, <1>44 DEF CustomerResubmits
  <1>45. CASE \/ TransferSettles \/ HandshakeSettles \/ RolesDeployed \/ OnboardingEnds
              \/ TicketResolved \/ OperatorFails \/ DayPasses
    BY <1>5, <1>45 DEF TransferSettles, HandshakeSettles, RolesDeployed, OnboardingEnds,
       TicketResolved, OperatorFails, DayPasses
  <1> QED
    BY <1>20, <1>21, <1>22, <1>23, <1>24, <1>25, <1>26, <1>27, <1>28, <1>29, <1>30,
       <1>31, <1>32, <1>33, <1>34, <1>35, <1>36, <1>37, <1>38, <1>39, <1>40, <1>41,
       <1>42, <1>43, <1>44, <1>45
    DEF Next, WorkerNext, WorkerStep, JobNext, JobStep, Environment

-----------------------------------------------------------------------------
(* The steps a reader of OrderLifecycle sees, and all the others.           *)

Quiet ==
    /\ UNCHANGED <<status, vendor, rolesUp, transferStatus>>
    /\ made'["subscription"] = made["subscription"]

StatusMoves ==
    /\ UNCHANGED <<vendor, rolesUp, transferStatus, made>>
    /\ \/ status = "Processing" /\ status' \in {"Querying", "Failed"}
       \/ status = "Querying" /\ status' = "Processing"

Completes == CompleteOrder /\ status = "Processing" /\ status' = "Completed"

(* Every step is one of these.                                              *)
LEMMA VisibleSteps ==
    ASSUME TypeOK, Next
    PROVE  \/ Quiet \/ StatusMoves \/ Completes
           \/ InviteOrganization \/ CreateSubscription \/ UpdateAgreement
           \/ TransferSettles \/ RolesDeployed
  <1> USE DEF Keep, OrderSame, WorldSame, orderVars, awsVars, crmVars, JobSame, JobKeep,
          EnvKeep
  <1>1. ASSUME NEW kind \in Kinds,
               made' \in {made, Made(kind)}, UNCHANGED <<status, vendor, rolesUp, transferStatus>>
        PROVE  Quiet
    BY <1>1 DEF Quiet, Made, TypeOK, Resources, Kinds
  <1>2. ASSUME made' = made, UNCHANGED <<vendor, rolesUp, transferStatus>>,
               UNCHANGED status \/ StatusMoves
        PROVE  Quiet \/ StatusMoves
    BY <1>2 DEF Quiet
  <1>3. ASSUME NEW st \in {"Querying", "Failed"}, NEW p, Close(st, p),
               UNCHANGED <<made, rolesUp, transferStatus>>
        PROVE  Quiet \/ StatusMoves
    BY <1>3 DEF Close, Quiet, StatusMoves
  <1>4. CASE CreateTickets
    BY <1>1, <1>4 DEF CreateTickets, CreateTicket, TicketSteps, Kinds
  <1>5. CASE \/ CreateNewAWSEnvironment \/ CheckCustomerRoles \/ ValidateOrder
             \/ CheckChannelHandshakeStatus
    BY <1>2, <1>3, <1>5 DEF CreateNewAWSEnvironment, CheckCustomerRoles, ValidateOrder,
       CheckChannelHandshakeStatus, QueryOrder
  <1>6. CASE CreateBillingTransferInvitation
    BY <1>2, <1>3, <1>6 DEF CreateBillingTransferInvitation, QueryOrder
  <1>7. CASE CheckBillingTransferInvitation
    BY <1>1, <1>3, <1>7 DEF CheckBillingTransferInvitation, QueryOrder, Kinds
  <1>8. CASE ConfigureAPNProgram \/ CreateChannelHandshake \/ OnboardServices
             \/ ContractCardStep \/ SWOJobStep
    BY <1>1, <1>8 DEF ConfigureAPNProgram, CreateChannelHandshake, OnboardServices,
       ContractCardStep, SWOJobStep, Kinds
  <1>9. CASE \/ Poll \/ SetupContext \/ CheckOnboardStatus \/ PostStep \/ SaveInProcess
             \/ SendErrorEmail \/ StepFails \/ SaveFails \/ Restart
    BY <1>2, <1>9 DEF Poll, SetupContext, CheckOnboardStatus, PostStep, SaveInProcess,
       SendErrorEmail, StepFails, SaveFails, Restart
  <1>10. CASE CompleteOrder
    BY <1>2, <1>10 DEF CompleteOrder, Completes, Close
  <1>11. CASE ProcessRoles
    BY <1>1, <1>11 DEF ProcessRoles, Kinds
  <1>12. CASE \/ FetchOrder \/ ProcessTransfer \/ ProcessHandshake \/ JobSaves
              \/ NothingToDo \/ JobFails
    BY <1>2, <1>12 DEF FetchOrder, ProcessTransfer, ProcessHandshake, JobSaves,
       NothingToDo, JobFails
  <1>13. CASE ProcessOrder \/ CustomerResubmits
    BY <1>2, <1>13 DEF ProcessOrder, CustomerResubmits, StatusMoves
  <1>14. CASE HandshakeSettles \/ OnboardingEnds \/ TicketResolved \/ OperatorFails \/ DayPasses
    BY <1>2, <1>14 DEF HandshakeSettles, OnboardingEnds, TicketResolved, OperatorFails,
       DayPasses, StatusMoves
  <1> QED
    BY <1>4, <1>5, <1>6, <1>7, <1>8, <1>9, <1>10, <1>11, <1>12, <1>13, <1>14
    DEF Next, WorkerNext, WorkerStep, JobNext, JobStep, Environment

(* An order that is completed is left alone.                                *)
LEMMA CompletedStays ==
    ASSUME TypeOK, IInv, Next, status = "Completed"
    PROVE  UNCHANGED <<status, params, vendor>> /\ run'.at = "idle"
  <1> USE DEF Keep, OrderSame, WorldSame, orderVars, JobSame, JobKeep, EnvKeep
  <1>1. run.at = "idle" /\ run.mode = "run"
    BY DEF IInv, Closed, RunOrigin
  <1>2. ASSUME NEW s, At(s), s \in Steps PROVE FALSE
    BY <1>1, <1>2 DEF At, Steps
  <1>3. CASE WorkerStep
    BY <1>1, <1>2, <1>3 DEF WorkerStep, SetupContext, ValidateOrder, CreateTickets,
       CreateTicket, CreateNewAWSEnvironment, CreateBillingTransferInvitation,
       CheckBillingTransferInvitation, ConfigureAPNProgram, CreateChannelHandshake,
       CheckChannelHandshakeStatus, CheckCustomerRoles, OnboardServices,
       CheckOnboardStatus, CreateSubscription, ContractCardStep, SWOJobStep,
       UpdateAgreement, CompleteOrder, PostStep, SaveInProcess, SendErrorEmail, Steps,
       TicketSteps
  <1>4. CASE Poll \/ StepFails \/ SaveFails
    BY <1>1, <1>4 DEF Poll, StepFails, SaveFails
  <1>5. CASE Restart
    BY <1>5 DEF Restart, Stop, IdleRun
  <1>6. CASE JobNext
    BY <1>1, <1>6 DEF JobNext, JobStep, FetchOrder, ProcessTransfer, ProcessHandshake,
       ProcessRoles, JobSaves, ProcessOrder, NothingToDo, JobFails, Editable
  <1>7. CASE Environment
    BY <1>1, <1>7 DEF Environment, CustomerResubmits, TransferSettles, HandshakeSettles,
       RolesDeployed, OnboardingEnds, TicketResolved, OperatorFails, DayPasses
  <1> QED BY <1>3, <1>4, <1>5, <1>6, <1>7 DEF Next, WorkerNext

(* A completed order stays provisioned, and only a provisioned one is       *)
(* completed.                                                               *)
LEMMA CompletedHolds ==
    ASSUME TypeOK, IInv, Next
    PROVE  CompletedIsProvisioned' /\ Closed'
  <1>1. CASE status = "Completed"
    <2>1. UNCHANGED <<status, params, vendor>> /\ run'.at = "idle"
      BY <1>1, CompletedStays
    <2>2. AcceptedIn(params, World) /\ made["subscription"] > 0
      BY <1>1 DEF IInv, CompletedIsProvisioned, TransferAccepted, AcceptedIn, World
    <2>3. /\ params \in Params /\ params.id["transfer"] \in Ids
          /\ params.id["transfer"] <= made["transfer"]
      <3>1. params \in Params /\ Set(params, "transfer")
        BY <2>2 DEF TypeOK, AcceptedIn
      <3>2. HoldsIn(params, World)
        BY SameClaims DEF IInv
      <3>3. "transfer" \in Kinds
        BY DEF Kinds
      <3> QED BY <3>1, <3>2, <3>3, IdsKnown DEF HoldsIn, ResourcesIn, World
    <2>4. /\ transferStatus'[params.id["transfer"]] \in {"ACCEPTED", "WITHDRAWN"}
          /\ transferMpa'[params.id["transfer"]] = params.mpa
      BY <2>2, <2>3, WorldGrows DEF Grows, World, AcceptedIn
    <2>5. made'["subscription"] > 0
      <3>1. "subscription" \in Resources /\ made'["subscription"] \in Nat
            /\ made["subscription"] \in Nat /\ made["subscription"] <= made'["subscription"]
        BY WorldGrows, TypesKept DEF Grows, World, TypeOK, Resources
      <3> QED BY <2>2, <3>1
    <2>6. CompletedIsProvisioned'
      BY <1>1, <2>1, <2>2, <2>4, <2>5
      DEF IInv, CompletedIsProvisioned, TransferAccepted, AcceptedIn, Set
    <2> QED BY <2>1, <2>6 DEF Closed
  <1>2. CASE status # "Completed" /\ status' = "Completed"
    <2>1. CompleteOrder /\ status = "Processing"
      BY <1>2, VisibleSteps DEF Quiet, StatusMoves, Completes, InviteOrganization,
         CreateSubscription, UpdateAgreement, TransferSettles, RolesDeployed, OrderSame,
         orderVars
    <2>2. /\ run.p.phase = "completed" /\ vendor = run.p.mpa /\ params' = run.p
          /\ vendor' = vendor /\ run' = IdleRun
      BY <2>1 DEF CompleteOrder, IInv, RunOrigin, Close, Store, Stop
    <2>3. Posted("complete", run.p) = run.p
      BY RunFacts DEF Posted, PhaseAfter, WithPhase, Params
    <2>4. HoldsIn(run.p, World')
      BY <2>1, <2>3, RunFacts DEF CompleteOrder, RunClaims
    <2>5. /\ AcceptedIn(run.p, World') /\ Set(run.p, "group")
          /\ Set(run.p, "relationship") /\ Set(run.p, "handshake")
          /\ World'.made["subscription"] > 0
      BY <2>2, <2>4 DEF HoldsIn, ResourcesIn, Sold, HandshakeDue, Related, Transferred,
         Invited, Phases
    <2>6. CompletedIsProvisioned'
      BY <2>2, <2>5 DEF CompletedIsProvisioned, TransferAccepted, AcceptedIn, World, Set
    <2> QED BY <2>2, <2>6 DEF Closed, IdleRun
  <1>3. CASE status' # "Completed"
    BY <1>3 DEF CompletedIsProvisioned, Closed
  <1> QED BY <1>1, <1>2, <1>3

(* Who may be sold what: one subscription, after an accepted transfer, and  *)
(* for Partner-Led Support with the roles deployed.                         *)
LEMMA SaleFacts ==
    ASSUME TypeOK, IInv, CreateSubscription
    PROVE  /\ \E i \in Ids : transferStatus[i] \in {"ACCEPTED", "WITHDRAWN"}
           /\ PLS => rolesUp
           /\ made["subscription"] \in {0, 1} /\ made'["subscription"] = 1
           /\ UNCHANGED <<status, vendor, rolesUp, transferStatus>>
           /\ made'["transfer"] = made["transfer"]
  <1>1. run.mode = "run" /\ run.p.phase = "createSubscription"
    BY AtPhase DEF CreateSubscription, PhaseOf
  <1>2. HoldsIn(run.p, World) /\ run.p \in Params
    BY <1>1, SameClaims DEF IInv, RunClaims, TypeOK, RunType
  <1>3. AcceptedIn(run.p, World) /\ run.p.id["transfer"] \in Ids
    BY <1>1, <1>2, IdsKnown DEF HoldsIn, ResourcesIn, AcceptedIn, Transferred, Invited,
       Phases, Kinds
  <1>4. PLS => rolesUp
    BY <1>1, <1>2 DEF CreateSubscription, PlsWithoutRoles, HoldsIn, AnswersIn, Params, World
  <1>5. made["subscription"] \in {0, 1}
    BY DEF IInv, Sales, TypeOK, Resources
  <1>6. made'["subscription"] = 1 /\ made'["transfer"] = made["transfer"]
    BY <1>5 DEF CreateSubscription, NotSubscribed, Made, TypeOK, Resources, Kinds
  <1> QED BY <1>3, <1>4, <1>5, <1>6 DEF CreateSubscription, AcceptedIn, World, OrderSame,
      orderVars, awsVars

SomeAccepted == \E i \in Ids : transferStatus[i] \in {"ACCEPTED", "WITHDRAWN"}

(* An invitation is the next one, and has no answer yet.                    *)
LEMMA InviteFacts ==
    ASSUME TypeOK, IInv, InviteOrganization
    PROVE  /\ UNCHANGED <<status, vendor, rolesUp>>
           /\ made'["subscription"] = made["subscription"]
           /\ made["transfer"] + 1 \in Ids /\ made'["transfer"] = made["transfer"] + 1
           /\ transferStatus' = [transferStatus EXCEPT ![made["transfer"] + 1] = "REQUESTED"]
           /\ transferStatus[made["transfer"] + 1] = None
  <1>1. made["transfer"] + 1 \in Ids /\ made["transfer"] \in Nat
    BY BoundAssumption DEF InviteOrganization, CanMake, TypeOK, Ids, Resources, Kinds
  <1>2. transferStatus[made["transfer"] + 1] = None
    BY <1>1 DEF IInv, Sales
  <1>3. /\ made'["transfer"] = made["transfer"] + 1
        /\ made'["subscription"] = made["subscription"]
    BY DEF InviteOrganization, Made, TypeOK, Resources, Kinds
  <1> QED BY <1>1, <1>2, <1>3 DEF InviteOrganization, OrderSame, orderVars

(* Accepting a transfer is for good; inviting accepts nothing.              *)
LEMMA AcceptedSteps ==
    ASSUME TypeOK, IInv, Next
    PROVE  /\ SomeAccepted => SomeAccepted'
           /\ InviteOrganization => SomeAccepted' = SomeAccepted
  <1>1. \A i \in Ids : transferStatus[i] # None => i <= made["transfer"]
    BY DEF IInv, Sales
  <1>2. SomeAccepted => SomeAccepted'
    BY <1>1, WorldGrows DEF SomeAccepted, Grows, World, None
  <1>3. ASSUME InviteOrganization, SomeAccepted' PROVE SomeAccepted
    <2>1. PICK i \in Ids : transferStatus'[i] \in {"ACCEPTED", "WITHDRAWN"}
      BY <1>3 DEF SomeAccepted
    <2>2. transferStatus[i] \in {"ACCEPTED", "WITHDRAWN"}
      BY <1>3, <2>1, InviteFacts DEF TypeOK
    <2> QED BY <2>2 DEF SomeAccepted
  <1>4. SomeAccepted \in BOOLEAN /\ SomeAccepted' \in BOOLEAN
    BY DEF SomeAccepted
  <1> QED BY <1>2, <1>3, <1>4

(* What was sold, named and invited stays in order.                         *)
LEMMA SalesKept ==
    ASSUME TypeOK, IInv, Next
    PROVE  Sales' /\ PlsGate'
  <1>1. /\ made["subscription"] <= 1
        /\ made["subscription"] > 0 => SomeAccepted
        /\ vendor # NoMpa => made["subscription"] = 1
        /\ \A i \in Ids : transferStatus[i] # None => i <= made["transfer"]
        /\ PLS /\ made["subscription"] > 0 => rolesUp
    BY DEF IInv, Sales, PlsGate, SomeAccepted
  <1>2. /\ made["transfer"] \in Nat /\ made'["transfer"] \in Nat
        /\ made["transfer"] <= made'["transfer"]
    BY WorldGrows, TypesKept DEF Grows, World, TypeOK, Resources, Kinds
  <1>3. support' = support /\ (rolesUp => rolesUp') /\ (SomeAccepted => SomeAccepted')
    <2>1. support' = support
      BY DEF Next, WorkerNext, WorkerStep, JobNext, JobStep, Environment, Poll,
         SetupContext, ValidateOrder, CreateTickets, CreateTicket,
         CreateNewAWSEnvironment, CreateBillingTransferInvitation,
         CheckBillingTransferInvitation, ConfigureAPNProgram, CreateChannelHandshake,
         CheckChannelHandshakeStatus, CheckCustomerRoles, OnboardServices,
         CheckOnboardStatus, CreateSubscription, ContractCardStep, SWOJobStep,
         UpdateAgreement, CompleteOrder, PostStep, SaveInProcess, SendErrorEmail,
         StepFails, SaveFails, Restart, FetchOrder, ProcessTransfer, ProcessHandshake,
         ProcessRoles, JobSaves, ProcessOrder, NothingToDo, JobFails, CustomerResubmits,
         TransferSettles, HandshakeSettles, RolesDeployed, OnboardingEnds,
         TicketResolved, OperatorFails, DayPasses, Keep, JobKeep, EnvKeep
    <2> QED BY <2>1, WorldGrows, AcceptedSteps DEF Grows, World
  <1>4. ASSUME UNCHANGED vendor, made'["subscription"] = made["subscription"],
               \A i \in Ids : transferStatus'[i] # None => i <= made'["transfer"]
        PROVE  Sales' /\ PlsGate'
    BY <1>1, <1>3, <1>4 DEF Sales, PlsGate, SomeAccepted, PLS
  <1>5. ASSUME UNCHANGED <<vendor, transferStatus>>, made'["subscription"] = made["subscription"]
        PROVE  Sales' /\ PlsGate'
    <2>1. \A i \in Ids : transferStatus'[i] # None => i <= made'["transfer"]
      BY <1>1, <1>2, <1>5 DEF Ids
    <2> QED BY <1>4, <1>5, <2>1
  <1>6. CASE Quiet \/ StatusMoves \/ RolesDeployed
    BY <1>5, <1>6 DEF Quiet, StatusMoves, RolesDeployed, EnvKeep, crmVars
  <1>7. CASE Completes
    BY <1>5, <1>7 DEF Completes, CompleteOrder, Close, WorldSame, awsVars, crmVars
  <1>8. CASE InviteOrganization
    <2>1. \A i \in Ids : transferStatus'[i] # None => i <= made'["transfer"]
      <3>1. \A i \in Ids \ {made["transfer"] + 1} : transferStatus'[i] = transferStatus[i]
        BY <1>8, InviteFacts DEF TypeOK
      <3>2. made'["transfer"] = made["transfer"] + 1
        BY <1>8, InviteFacts
      <3> QED BY <1>1, <1>2, <3>1, <3>2 DEF Ids
    <2> QED BY <1>4, <1>8, <2>1, InviteFacts
  <1>9. CASE CreateSubscription
    <2>1. \A i \in Ids : transferStatus'[i] # None => i <= made'["transfer"]
      BY <1>1, <1>9, SaleFacts
    <2>2. SomeAccepted
      BY <1>9, SaleFacts DEF SomeAccepted
    <2> QED BY <1>1, <1>3, <1>9, <2>1, <2>2, SaleFacts DEF Sales, PlsGate, SomeAccepted, PLS
  <1>10. CASE UpdateAgreement
    <2>1. run.mode = "run" /\ run.p.phase = "completed"
      BY <1>10, AtPhase DEF UpdateAgreement, PhaseOf
    <2>2. made["subscription"] > 0
      BY <2>1, SameClaims DEF IInv, RunClaims, HoldsIn, ResourcesIn, Sold, World
    <2>3. made["subscription"] = 1 /\ UNCHANGED <<made, transferStatus, rolesUp>>
      BY <1>1, <1>10, <2>2 DEF UpdateAgreement, WorldSame, awsVars, crmVars, TypeOK, Resources
    <2> QED BY <1>1, <1>3, <2>3 DEF Sales, PlsGate, SomeAccepted, PLS
  <1>11. CASE TransferSettles
    <2>1. UNCHANGED <<vendor, made>>
      BY <1>11 DEF TransferSettles, EnvKeep, crmVars
    <2>2. \A i \in Ids : transferStatus'[i] # None => transferStatus[i] # None
      BY <1>11 DEF TransferSettles, TypeOK, None
    <2> QED BY <1>1, <1>4, <2>1, <2>2
  <1> QED BY <1>6, <1>7, <1>8, <1>9, <1>10, <1>11, VisibleSteps

-----------------------------------------------------------------------------
(* The invariant is inductive.                                              *)
LEMMA InitInvariant == Init => IInv
  <1> SUFFICES ASSUME Init PROVE IInv
    OBVIOUS
  <1>1. TypeOK /\ World \in Worlds
    BY InitTypes, WorldType
  <1>2. /\ run = IdleRun /\ job = IdleJob /\ \E mpa : params = FreshParams(mpa)
        /\ status = "Processing" /\ vendor = NoMpa
        /\ made["subscription"] = 0 /\ \A i \in Ids : transferStatus[i] = None
    BY DEF Init, Resources
  <1>3. HoldsIn(params, World) /\ HoldsIn(run.p, World) /\ HoldsIn(job.p, World)
    BY <1>1, <1>2, FreshHolds, IdleHolds
  <1>4. ParamsFollowPhase
    BY <1>2, <1>3, SameClaims DEF RunClaims, IdleRun
  <1>5. RunOrigin /\ JobOrigin /\ Closed
    BY <1>2 DEF RunOrigin, JobOrigin, Closed, IdleRun, IdleJob, FreshParams
  <1>6. Sales /\ PlsGate /\ CompletedIsProvisioned
    BY <1>2 DEF Sales, PlsGate, CompletedIsProvisioned
  <1> QED BY <1>4, <1>5, <1>6 DEF IInv

(* Every step of the system keeps the invariant.                            *)
LEMMA StepInvariant ==
    ASSUME TypeOK, IInv, Next
    PROVE  IInv'
  <1>1. ParamsFollowPhase'
    BY ParamsHolds, RunHolds, JobHolds, SameClaimsNext
  <1> QED BY <1>1, RunHolds, JobHolds, SalesKept, CompletedHolds DEF IInv

(* So does one that changes nothing.                                        *)
LEMMA StutterInvariant ==
    ASSUME IInv, UNCHANGED vars
    PROVE  IInv'
  <1>1. UNCHANGED <<World, params, run, job, vendor, status, support>>
    BY DEF vars, orderVars, awsVars, crmVars, World
  <1>2. RunClaims' = RunClaims
    BY <1>1 DEF RunClaims, Posted, PhaseAfter, WithPhase
  <1>3. ParamsFollowPhase'
    BY <1>1, <1>2, SameClaims, SameClaimsNext DEF IInv
  <1>4. RunOrigin' /\ JobOrigin' /\ Closed'
    BY <1>1 DEF IInv, RunOrigin, JobOrigin, Closed
  <1>5. Sales' /\ PlsGate' /\ CompletedIsProvisioned'
    BY DEF IInv, Sales, PlsGate, PLS, CompletedIsProvisioned, TransferAccepted, Set,
       vars, orderVars, awsVars, crmVars
  <1> QED BY <1>3, <1>4, <1>5 DEF IInv

(* The inductive invariant holds throughout.                                *)
THEOREM Invariant == Spec => [](TypeOK /\ IInv)
  <1>1. Init => TypeOK /\ IInv
    BY InitTypes, InitInvariant
  <1>2. TypeOK /\ IInv /\ [Next]_vars => (TypeOK /\ IInv)'
    BY TypesKept, StutterTypes, StepInvariant, StutterInvariant
  <1> QED BY <1>1, <1>2, PTL DEF Spec

(* Whatever crashes, is lost, repeated or overwritten, the phase an order   *)
(* claims to be past is one the world is past, in the platform's copy, the  *)
(* worker's and the cron job's.                                             *)
THEOREM PhaseFollowsWorld == Spec => []ParamsFollowPhase
  <1>1. IInv => ParamsFollowPhase
    BY DEF IInv
  <1> QED BY <1>1, Invariant, PTL

(* An order is completed only with its account handed over and everything   *)
(* of the pipeline's provisioned.                                           *)
THEOREM CompletedProvisioned == Spec => []CompletedIsProvisioned
  <1>1. IInv => CompletedIsProvisioned
    BY DEF IInv
  <1> QED BY <1>1, Invariant, PTL

(* Partner-Led Support is never sold without the customer's roles, although *)
(* the cron job moves an order past the roles when they time out.           *)
THEOREM PlsGated == Spec => []PlsGate
  <1>1. IInv => PlsGate
    BY DEF IInv
  <1> QED BY <1>1, Invariant, PTL

-----------------------------------------------------------------------------
(* The purchase system implements OrderLifecycle: every step of the worker, *)
(* of the cron job, of the customer and of the services is a step of the    *)
(* order's life or changes nothing a reader of OrderLifecycle sees.         *)

OrderState ==
    [Processing |-> "open", Querying |-> "waiting",
     Completed |-> "completed", Failed |-> "failed"][status]

(* The abstract state of an order.                                          *)
LEMMA MappedState ==
    ASSUME TypeOK
    PROVE  /\ status = "Processing" <=> OrderState = "open"
           /\ status = "Querying" <=> OrderState = "waiting"
           /\ status = "Completed" <=> OrderState = "completed"
           /\ status = "Failed" <=> OrderState = "failed"
    BY DEF TypeOK, Statuses, OrderState

(* The same after a step.                                                   *)
LEMMA MappedStateNext ==
    ASSUME TypeOK'
    PROVE  /\ status' = "Processing" <=> OrderState' = "open"
           /\ status' = "Querying" <=> OrderState' = "waiting"
           /\ status' = "Completed" <=> OrderState' = "completed"
           /\ status' = "Failed" <=> OrderState' = "failed"
    BY DEF TypeOK, Statuses, OrderState

(* Orders start open, with nothing accepted, deployed or sold.              *)
LEMMA LifecycleInit ==
    ASSUME Init
    PROVE  Lifecycle!Init
  <1>1. OrderState = "open"
    BY DEF Init, OrderState
  <1>2. ~SomeAccepted /\ PLS \in BOOLEAN /\ rolesUp = FALSE /\ ~(vendor # NoMpa)
    BY DEF Init, SomeAccepted, PLS, None
  <1>3. made["subscription"] = 0
    BY DEF Init, Resources
  <1> QED BY <1>1, <1>2, <1>3 DEF Lifecycle!Init, OrderState, SomeAccepted

(* What never changes, and what is for good.                                *)
LEMMA ForGood ==
    ASSUME TypeOK, IInv, Next
    PROVE  /\ PLS' = PLS /\ (SomeAccepted => SomeAccepted') /\ (rolesUp => rolesUp')
           /\ made["subscription"] \in Nat /\ rolesUp \in BOOLEAN /\ rolesUp' \in BOOLEAN
           /\ SomeAccepted \in BOOLEAN /\ SomeAccepted' \in BOOLEAN
  <1>1. support' = support
    BY DEF Next, WorkerNext, WorkerStep, JobNext, JobStep, Environment, Poll,
       SetupContext, ValidateOrder, CreateTickets, CreateTicket,
       CreateNewAWSEnvironment, CreateBillingTransferInvitation,
       CheckBillingTransferInvitation, ConfigureAPNProgram, CreateChannelHandshake,
       CheckChannelHandshakeStatus, CheckCustomerRoles, OnboardServices,
       CheckOnboardStatus, CreateSubscription, ContractCardStep, SWOJobStep,
       UpdateAgreement, CompleteOrder, PostStep, SaveInProcess, SendErrorEmail,
       StepFails, SaveFails, Restart, FetchOrder, ProcessTransfer, ProcessHandshake,
       ProcessRoles, JobSaves, ProcessOrder, NothingToDo, JobFails, CustomerResubmits,
       TransferSettles, HandshakeSettles, RolesDeployed, OnboardingEnds,
       TicketResolved, OperatorFails, DayPasses, Keep, JobKeep, EnvKeep
  <1>2. rolesUp => rolesUp'
    BY WorldGrows DEF Grows, World
  <1>3. SomeAccepted \in BOOLEAN /\ SomeAccepted' \in BOOLEAN
    BY DEF SomeAccepted
  <1> QED BY <1>1, <1>2, <1>3, AcceptedSteps, TypesKept DEF PLS, TypeOK, Resources

(* Every step is a step of the life of the order, or shows nothing of it.   *)
LEMMA LifecycleStep ==
    ASSUME TypeOK, IInv, Next
    PROVE  [Lifecycle!Next]_(Lifecycle!vars)
  <1> DEFINE Named == vendor # NoMpa
             Sub == made["subscription"]
  <1>1. TypeOK'
    BY TypesKept
  <1>2. ASSUME UNCHANGED <<OrderState, SomeAccepted, rolesUp, Sub, Named>>
        PROVE  UNCHANGED Lifecycle!vars
    BY <1>2, ForGood DEF Lifecycle!vars, OrderState, SomeAccepted
  <1>3. CASE Quiet
    BY <1>2, <1>3 DEF Quiet, OrderState, SomeAccepted
  <1>4. CASE StatusMoves
    <2>1. UNCHANGED <<PLS, SomeAccepted, rolesUp, Sub, Named>>
      BY <1>4, ForGood DEF StatusMoves, SomeAccepted
    <2>2. CASE status = "Processing" /\ status' = "Querying"
      <3>1. OrderState = "open" /\ OrderState' = "waiting"
        BY <1>1, <2>2, MappedState, MappedStateNext
      <3> QED BY <2>1, <3>1 DEF Lifecycle!Next, Lifecycle!Wait, OrderState, SomeAccepted
    <2>3. CASE status = "Processing" /\ status' = "Failed"
      <3>1. OrderState = "open" /\ OrderState' = "failed"
        BY <1>1, <2>3, MappedState, MappedStateNext
      <3> QED BY <2>1, <3>1 DEF Lifecycle!Next, Lifecycle!Fail, OrderState, SomeAccepted
    <2>4. CASE status = "Querying" /\ status' = "Processing"
      <3>1. OrderState = "waiting" /\ OrderState' = "open"
        BY <1>1, <2>4, MappedState, MappedStateNext
      <3> QED BY <2>1, <3>1 DEF Lifecycle!Next, Lifecycle!Resume, OrderState, SomeAccepted
    <2> QED BY <1>4, <2>2, <2>3, <2>4 DEF StatusMoves
  <1>5. CASE Completes
    <2>1. OrderState = "open" /\ OrderState' = "completed"
      BY <1>1, <1>5, MappedState, MappedStateNext DEF Completes
    <2>2. UNCHANGED <<PLS, SomeAccepted, rolesUp, Sub, Named>>
      BY <1>5, ForGood DEF Completes, CompleteOrder, Close, WorldSame, awsVars, crmVars,
         SomeAccepted
    <2>3. run.p.phase = "completed" /\ vendor = run.p.mpa
      BY <1>5 DEF Completes, CompleteOrder, IInv, RunOrigin
    <2>4. Posted("complete", run.p) = run.p
      BY RunFacts DEF Posted, PhaseAfter, WithPhase, Params
    <2>5. HoldsIn(run.p, World)
      BY <1>5, <2>4, SameClaims DEF Completes, CompleteOrder, IInv, RunClaims
    <2>6. Named
      BY <2>3, <2>5 DEF HoldsIn, InvitationIn, Invited, Phases
    <2>7. Sub = 1
      BY <2>6 DEF IInv, Sales
    <2> HIDE DEF Sub, Named
    <2>8. Lifecycle!Complete
      BY <2>1, <2>2, <2>6, <2>7 DEF Lifecycle!Complete, OrderState, SomeAccepted, Sub, Named
    <2> QED BY <2>8 DEF Lifecycle!Next
  <1>6. CASE InviteOrganization
    BY <1>2, <1>6, InviteFacts, AcceptedSteps DEF OrderState
  <1>7. CASE CreateSubscription
    <2>1. /\ UNCHANGED <<OrderState, SomeAccepted, rolesUp, Named>>
          /\ SomeAccepted /\ (PLS => rolesUp) /\ Sub \in {0, 1} /\ Sub' = 1
      BY <1>7, SaleFacts DEF OrderState, SomeAccepted
    <2>2. CASE Sub = 1
      BY <1>2, <2>1, <2>2
    <2>3. CASE Sub = 0
      <3>1. OrderState \in {"open", "waiting"}
        BY <1>7, MappedState DEF CreateSubscription, Editable
      <3>2. Lifecycle!Sell
        BY <2>1, <2>3, <3>1, ForGood DEF Lifecycle!Sell, OrderState, SomeAccepted
      <3> QED BY <3>2 DEF Lifecycle!Next
    <2> QED BY <2>1, <2>2, <2>3
  <1>8. CASE UpdateAgreement
    <2>1. run.mode = "run" /\ run.p.phase = "completed"
      BY <1>8, AtPhase DEF UpdateAgreement, PhaseOf
    <2>2. HoldsIn(run.p, World)
      BY <2>1, SameClaims DEF IInv, RunClaims
    <2>3. run.p.mpa # NoMpa /\ made["subscription"] > 0
      BY <2>1, <2>2 DEF HoldsIn, InvitationIn, ResourcesIn, Sold, Invited, Phases, World
    <2>4. Sub = 1 /\ Named'
      BY <1>8, <2>3, ForGood DEF IInv, Sales, UpdateAgreement
    <2>5. UNCHANGED <<OrderState, SomeAccepted, rolesUp, Sub, PLS>>
      BY <1>8, ForGood DEF UpdateAgreement, WorldSame, awsVars, crmVars, OrderState, SomeAccepted
    <2>6. Lifecycle!Name
      BY <2>4, <2>5 DEF Lifecycle!Name, OrderState, SomeAccepted
    <2> QED BY <2>6 DEF Lifecycle!Next
  <1>9. CASE TransferSettles
    <2>1. UNCHANGED <<OrderState, rolesUp, Sub, Named>>
      BY <1>9 DEF TransferSettles, EnvKeep, orderVars, crmVars, OrderState
    <2>2. CASE SomeAccepted' = SomeAccepted
      BY <1>2, <2>1, <2>2
    <2>3. CASE SomeAccepted' = TRUE
      <3>1. Lifecycle!Accept
        BY <2>1, <2>3, ForGood DEF Lifecycle!Accept, OrderState, SomeAccepted
      <3> QED BY <3>1 DEF Lifecycle!Next
    <2> QED BY <2>2, <2>3, ForGood
  <1>10. CASE RolesDeployed
    <2>1. UNCHANGED <<OrderState, SomeAccepted, Sub, Named>> /\ rolesUp' = TRUE
      BY <1>10 DEF RolesDeployed, EnvKeep, orderVars, crmVars, OrderState, SomeAccepted
    <2>2. Lifecycle!Deploy
      BY <2>1, ForGood DEF Lifecycle!Deploy, OrderState, SomeAccepted
    <2> QED BY <2>2 DEF Lifecycle!Next
  <1> QED
    BY <1>3, <1>4, <1>5, <1>6, <1>7, <1>8, <1>9, <1>10, VisibleSteps

(* Nothing is sold to a customer who has not handed over the billing, Partner- *)
(* Led Support only with the roles deployed, one subscription at most, and  *)
(* only a sold order under a named account completes: in every run of the   *)
(* worker, the cron job and the customer, crashes and stale saves included. *)
THEOREM Refinement == Spec => ImplementsLifecycle
  <1>1. Init => Lifecycle!Init
    BY LifecycleInit
  <1>2. UNCHANGED vars => UNCHANGED Lifecycle!vars
    BY DEF vars, orderVars, awsVars, crmVars, Lifecycle!vars, PLS
  <1>3. TypeOK /\ IInv /\ [Next]_vars => [Lifecycle!Next]_(Lifecycle!vars)
    BY <1>2, LifecycleStep
  <1> QED BY <1>1, <1>3, Invariant, PTL DEF Spec, ImplementsLifecycle, Lifecycle!Spec
==============================================================================
