---------------------------- MODULE AdmissionSafety ----------------------------
(***************************************************************************)
(* Theorems about the admission of orders, for any number of orders of the *)
(* licensee.                                                               *)
(***************************************************************************)
EXTENDS OrderAdmission, TLAPS

-----------------------------------------------------------------------------
(* What an order's status says of its agreement, its phase and its run.    *)
CoupledAt(o) ==
    /\ order[o] = "Draft" <=> agreement[o] = "Draft"
    /\ order[o] = "Draft" => phase[o] = "" /\ run.o # o
    /\ order[o] \in {"Processing", "Querying"} => agreement[o] = "Provisioning"
    /\ run.o = o => phase[o] = "begun" \/ order[o] = "Processing"
    /\ At(o, "env") => phase[o] = "account"
    /\ At(o, "fail") \/ At(o, "invite") => phase[o] = "invite"
    /\ o \in duplicate => agreement[o] = "Failed"

Coupled == \A o \in Orders : CoupledAt(o)

(* Of two agreements in use one was placed after the other.                 *)
Apart ==
    \A o, p \in Orders :
        o # p /\ agreement[o] \in InUse /\ agreement[p] \in InUse => o \in late \/ p \in late

(* The order is invited, or about to be.                                    *)
Passed(o) == phase[o] = "begun" \/ At(o, "invite")

(* No other agreement was in use when an existing account's order passed.   *)
Checked ==
    \A o, p \in Orders :
        /\ o # p /\ Exists(o) /\ Passed(o)
        /\ agreement[o] \in InUse /\ agreement[p] \in InUse
        => p \in late /\ ~(Exists(p) /\ Passed(p))

(* LastIsKept, the order about to be failed included.                       *)
Out == duplicate \cup {o \in Orders : At(o, "fail")}
Kept == Out # {} => \E o \in Orders \ Out : order[o] # "Draft"

Inv == TypeOK /\ Coupled /\ Apart /\ Checked /\ Kept

-----------------------------------------------------------------------------
LEMMA InitInv == Init => Inv
  <1> SUFFICES ASSUME Init PROVE Inv
    OBVIOUS
  <1>1. TypeOK
    BY DEF Init, TypeOK, IdleRun, AccountTypes, InUse, Forms, Statuses, AgreementStatuses, Phases
  <1>2. Coupled
    BY OrdersAssumption DEF Init, Coupled, CoupledAt, IdleRun, At
  <1>3. Apart /\ Checked
    BY DEF Init, Apart, Checked, InUse
  <1>4. Kept
    BY DEF Init, Kept, Out, IdleRun, At
  <1> QED BY <1>1, <1>2, <1>3, <1>4 DEF Inv

-----------------------------------------------------------------------------
(* What a step does to an order: to one that is placed, to one it places,  *)
(* and to one that passes.                                                 *)
Effect(p) ==
    /\ order[p] # "Draft" => order'[p] # "Draft" /\ form'[p].type = form[p].type
    /\ p \in late => p \in late'
    /\ agreement'[p] \in InUse =>
          \/ agreement[p] \in InUse
          \/ /\ order[p] = "Draft" /\ phase'[p] = "" /\ run'.o # p
             /\ HasPrevious(p) => p \in late'
             /\ \A q \in Orders \ {p} : agreement'[q] = agreement[q]
    /\ Passed(p)' =>
          \/ Passed(p) \/ form'[p].type = "new"
          \/ \A q \in Orders \ {p} : agreement'[q] \notin InUse

(* The orders about to be failed: one more that has seen another's.         *)
OutGrows ==
    \/ Out' \subseteq Out
    \/ \E q \in Orders : HasPrevious(q) /\ Out' = duplicate \cup {q} /\ order' = order

Sound == TypeOK' /\ Coupled' /\ OutGrows /\ \A p \in Orders : Effect(p)


-----------------------------------------------------------------------------
(* The two ways the worker's steps share to end.                           *)

LEMMA RunTypes ==
    ASSUME NEW o \in Orders, NEW step \in Steps
    PROVE  /\ [at |-> step, o |-> o] \in [at : Steps, o : Orders]
           /\ \A p \in Orders, other \in Steps :
                 [at |-> step, o |-> o] = [at |-> other, o |-> p] <=> step = other /\ o = p
           /\ \A p \in Orders, other \in Steps : IdleRun # [at |-> other, o |-> p]
           /\ IdleRun.o \notin Orders
  BY OrdersAssumption DEF Steps, IdleRun

(* The run ends without a change, or with the order's.                      *)
LEMMA StopSound ==
    ASSUME TypeOK, Coupled, Stop, UNCHANGED <<form, order, agreement, phase, late, duplicate>>
    PROVE  Sound
  <1>1. TypeOK'
    BY DEF TypeOK, Stop, Exists
  <1>2. \A p \in Orders, step \in Steps : run' # [at |-> step, o |-> p] /\ run'.o # p
    BY RunTypes DEF Stop
  <1>3. Coupled'
    BY <1>2 DEF Coupled, CoupledAt, At, Steps
  <1>4. \A p \in Orders : Effect(p)
    BY <1>2 DEF Effect, Passed, At, Steps
  <1>5. Out' \subseteq Out
    BY <1>2 DEF Out, At, Steps
  <1> QED BY <1>1, <1>3, <1>4, <1>5 DEF Sound, OutGrows

(* How an order may end up, and its agreement.                              *)
Ends(o, status, a) ==
    \/ status = "Querying" /\ a = agreement[o]
    \/ status = "Completed" /\ a = "Active"
    \/ status = "Failed" /\ a = "Failed"

LEMMA CloseSound ==
    ASSUME TypeOK, Coupled, NEW o \in Orders, order[o] = "Processing",
           NEW status, NEW a, Ends(o, status, a), Close(o, status, a),
           UNCHANGED <<form, phase, late>>,
           \/ duplicate' = duplicate
           \/ duplicate' = duplicate \cup {o} /\ At(o, "fail") /\ a = "Failed"
    PROVE  Sound
  <1>1. agreement[o] = "Provisioning" /\ o \notin duplicate
    BY DEF Coupled, CoupledAt
  <1>2. status \in Statuses /\ a \in AgreementStatuses
    BY <1>1 DEF Ends, Statuses, AgreementStatuses, InUse
  <1>3. /\ order' \in [Orders -> Statuses] /\ agreement' \in [Orders -> AgreementStatuses]
        /\ order'[o] = status /\ agreement'[o] = a
        /\ \A p \in Orders \ {o} : order'[p] = order[p] /\ agreement'[p] = agreement[p]
    BY <1>2 DEF TypeOK, Close
  <1>4. run' = IdleRun
    BY DEF Close, Stop
  <1>5. TypeOK'
    BY <1>3, <1>4 DEF TypeOK, Exists
  <1>6. \A p \in Orders, step \in Steps : run' # [at |-> step, o |-> p] /\ run'.o # p
    BY <1>4, RunTypes
  <1>7. Coupled'
    <2>1. \A p \in Orders : run'.o # p /\ ~At(p, "env")' /\ ~At(p, "fail")' /\ ~At(p, "invite")'
      BY <1>6 DEF At, Steps
    <2>2. status # "Draft" /\ a # "Draft" /\ status # "Processing"
          /\ (status = "Querying" => a = "Provisioning")
      BY <1>1 DEF Ends
    <2>3. \A p \in Orders : p \in duplicate' => p \in duplicate \/ (p = o /\ a = "Failed")
      OBVIOUS
    <2> SUFFICES ASSUME NEW p \in Orders PROVE CoupledAt(p)'
      BY DEF Coupled
    <2>4. CASE p = o
      BY <1>1, <1>3, <2>1, <2>2, <2>3, <2>4 DEF Coupled, CoupledAt
    <2>5. CASE p # o
      <3>1. CoupledAt(p) /\ order'[p] = order[p] /\ agreement'[p] = agreement[p]
        BY <1>3, <2>5 DEF Coupled
      <3>2. p \in duplicate' => p \in duplicate
        BY <2>3, <2>5
      <3> QED BY <2>1, <3>1, <3>2 DEF CoupledAt
    <2> QED BY <2>4, <2>5
  <1>8. \A p \in Orders : Effect(p)
    BY <1>1, <1>3, <1>6 DEF Effect, Passed, At, Steps, Ends, InUse
  <1>9. Out' \subseteq Out
    BY <1>6 DEF Out, At, Steps
  <1> QED BY <1>5, <1>7, <1>8, <1>9 DEF Sound, OutGrows

(* The run goes on at another step; only the phase of its order may change. *)
LEMMA GotoSound ==
    ASSUME TypeOK, Coupled, NEW o \in Orders, NEW step \in Steps, NEW q \in Phases,
           Goto(o, step), phase' = [phase EXCEPT ![o] = q],
           OrderSame, Keep,
           q = "begun" \/ order[o] = "Processing",
           order[o] # "Draft", q # "" \/ phase[o] = "",
           step = "env" => q = "account",
           q = "account" => ~Exists(o),
           step \in {"fail", "invite"} => q = "invite",
           step = "invite" => \/ Passed(o) \/ ~Exists(o) \/ ~HasPrevious(o),
           q = "begun" => Passed(o),
           step = "fail" => HasPrevious(o) /\ Out \subseteq duplicate
    PROVE  Sound
  <1>1. /\ phase' \in [Orders -> Phases] /\ phase'[o] = q
        /\ \A p \in Orders \ {o} : phase'[p] = phase[p]
    BY DEF TypeOK
  <1>2. run' = [at |-> step, o |-> o] /\ run'.o = o
    BY DEF Goto
  <1>3. /\ \A p \in Orders, other \in Steps : At(p, other)' <=> step = other /\ o = p
        /\ \A p \in Orders : run'.o = p => p = o
    BY <1>2, RunTypes DEF At
  <1>4. TypeOK'
    BY <1>1, <1>2, RunTypes DEF TypeOK, Exists, OrderSame, Keep
  <1>5. Coupled'
    BY <1>1, <1>2, <1>3 DEF Coupled, CoupledAt, OrderSame, Keep, Steps
  <1>6. \A p \in Orders : Effect(p)
    <2> TAKE p \in Orders
    <2>1. Passed(p)' => Passed(p) \/ (p = o /\ ~Exists(o)) \/ (p = o /\ ~HasPrevious(o))
      BY <1>1, <1>3 DEF Passed, Steps
    <2>2. ~Exists(o) => form[o].type = "new"
      BY DEF TypeOK, Forms, AccountTypes, Exists
    <2> QED BY <2>1, <2>2 DEF Effect, OrderSame, Keep, HasPrevious
  <1>7. OutGrows
    <2>1. CASE step = "fail"
      BY <2>1, <1>3 DEF OutGrows, Out, OrderSame, Steps
    <2>2. CASE step # "fail"
      BY <2>2, <1>3 DEF OutGrows, Out, OrderSame, Steps
    <2> QED BY <2>1, <2>2
  <1> QED BY <1>4, <1>5, <1>6, <1>7 DEF Sound

-----------------------------------------------------------------------------
(* The worker's steps.                                                      *)
LEMMA WorkerSound ==
    ASSUME TypeOK, Coupled, NEW o \in Orders, Poll(o) \/ WorkerStep(o)
    PROVE  Sound
  <1>1. CASE Poll(o)
    <2>1. phase' = [phase EXCEPT ![o] = phase[o]] /\ phase[o] \in Phases
      BY <1>1 DEF Poll, TypeOK
    <2>2. phase[o] = "begun" => Passed(o)
      BY DEF Passed
    <2>3. "setup" \in Steps /\ order[o] = "Processing"
      BY <1>1 DEF Steps, Poll
    <2> QED BY <1>1, <2>1, <2>2, <2>3, GotoSound DEF Poll, TypeOK
  <1>2. CASE WorkerStep(o)
    <2>1. ASSUME NEW step \in Steps, At(o, step)
          PROVE  /\ run.o = o /\ phase[o] \in Phases /\ order[o] # "Draft"
                 /\ phase[o] = "begun" \/ order[o] = "Processing"
                 /\ phase' = phase => phase' = [phase EXCEPT ![o] = phase[o]]
                 /\ phase[o] = "account" => ~Exists(o)
                 /\ phase[o] = "begun" => Passed(o)
                 /\ step # "fail" => Out \subseteq duplicate
      <3>1. run.o = o
        BY <2>1 DEF At
      <3>2. step # "fail" => Out \subseteq duplicate
        BY <2>1, RunTypes DEF Out, At, Steps
      <3> QED BY <3>1, <3>2 DEF TypeOK, Coupled, CoupledAt, Passed
    <2>2. CASE SetupContext(o)
      <3>1. /\ "setup" \in Steps /\ "validate" \in Steps
            /\ "invite" \in Phases /\ "account" \in Phases
        BY DEF Steps, Phases
      <3>2. CASE phase[o] = ""
        <4>1. phase' = [phase EXCEPT ![o] = FirstPhase(o)]
          BY <2>2, <3>2 DEF SetupContext, SetPhase
        <4>2. FirstPhase(o) \in {"invite", "account"} /\ (FirstPhase(o) = "account" => ~Exists(o))
          BY DEF FirstPhase
        <4> QED BY <2>1, <2>2, <3>1, <3>2, <4>1, <4>2, GotoSound DEF SetupContext
      <3>3. CASE phase[o] # ""
        BY <2>1, <2>2, <3>1, <3>3, GotoSound DEF SetupContext
      <3> QED BY <3>2, <3>3
    <2>3. CASE ValidateOrder(o)
      <3>1. \A step \in {"validate", "fail", "env", "invite", "later"} : step \in Steps
        BY DEF Steps
      <3>2. CASE phase[o] = "invite" /\ HasPrevious(o)
        BY <2>1, <2>3, <3>1, <3>2, GotoSound DEF ValidateOrder
      <3>3. CASE ~(phase[o] = "invite" /\ HasPrevious(o))
        <4>1. /\ AfterValidation(o) \in {"env", "invite", "later"}
              /\ AfterValidation(o) = "env" => phase[o] = "account"
              /\ AfterValidation(o) = "invite" => phase[o] = "invite"
          BY DEF AfterValidation
        <4> QED BY <2>1, <2>3, <3>1, <3>3, <4>1, GotoSound DEF ValidateOrder
      <3> QED BY <3>2, <3>3
    <2>4. CASE FailDuplicate(o)
      <3>1. order[o] = "Processing"
        BY <2>4, <2>1 DEF FailDuplicate, Steps, Coupled, CoupledAt
      <3> QED BY <2>4, <3>1, CloseSound DEF FailDuplicate, Ends, Keep
    <2>5. CASE CreateNewAWSEnvironment(o)
      <3>1. phase[o] = "account" /\ order[o] = "Processing"
        BY <2>5, <2>1 DEF CreateNewAWSEnvironment, Steps, Coupled, CoupledAt
      <3>2. CASE Query(o)
        BY <2>5, <3>1, <3>2, CloseSound DEF CreateNewAWSEnvironment, Query, Ends, Keep
      <3>3. CASE ~Query(o)
        <4>1. "env" \in Steps /\ "invite" \in Steps /\ "invite" \in Phases
          BY DEF Steps, Phases
        <4> QED BY <2>1, <2>5, <3>1, <3>3, <4>1, GotoSound DEF CreateNewAWSEnvironment, SetPhase
      <3> QED BY <3>2, <3>3
    <2>6. CASE CreateBillingTransferInvitation(o)
      <3>1. phase[o] = "invite" /\ order[o] = "Processing" /\ Passed(o)
        BY <2>6, <2>1 DEF CreateBillingTransferInvitation, Steps, Coupled, CoupledAt, Passed
      <3>2. CASE Query(o)
        BY <2>6, <3>1, <3>2, CloseSound DEF CreateBillingTransferInvitation, Query, Ends, Keep
      <3>3. CASE ~Query(o)
        <4>1. "invite" \in Steps /\ "later" \in Steps /\ "begun" \in Phases
          BY DEF Steps, Phases
        <4> QED BY <2>1, <2>6, <3>1, <3>3, <4>1, GotoSound
                DEF CreateBillingTransferInvitation, SetPhase
      <3> QED BY <3>2, <3>3
    <2>7. CASE LaterSteps(o)
      BY <2>7, CloseSound DEF LaterSteps, Ends, Keep
    <2> QED BY <1>2, <2>2, <2>3, <2>4, <2>5, <2>6, <2>7 DEF WorkerStep
  <1> QED BY <1>1, <1>2

-----------------------------------------------------------------------------
(* Forms, orders and agreements outside the worker.                        *)
LEMMA OutSame ==
    ASSUME UNCHANGED <<run, duplicate>>
    PROVE  OutGrows
  BY DEF OutGrows, Out, At

LEMMA FormSound ==
    ASSUME TypeOK, Coupled, NEW o \in Orders, NEW f \in Forms,
           form' = [form EXCEPT ![o] = f], order[o] = "Draft", FormOnly
    PROVE  Sound
  <1>1. /\ form' \in [Orders -> Forms]
        /\ \A p \in Orders \ {o} : form'[p] = form[p]
    BY DEF TypeOK
  <1>2. phase[o] = ""
    BY DEF Coupled, CoupledAt
  <1>3. TypeOK'
    BY <1>1, <1>2 DEF TypeOK, FormOnly, Exists
  <1>4. Coupled'
    BY DEF Coupled, CoupledAt, FormOnly, At
  <1>5. \A p \in Orders : Effect(p)
    BY <1>1 DEF Effect, FormOnly, Passed, At
  <1> QED BY <1>3, <1>4, <1>5, OutSame DEF Sound, FormOnly

LEMMA DraftingSound ==
    ASSUME TypeOK, Coupled, NEW o \in Orders, Drafting(o)
    PROVE  Sound
  <1>1. form[o] \in Forms
    BY DEF TypeOK
  <1>2. CASE EditForm(o)
    <2>1. PICK t \in AccountTypes, n \in BOOLEAN :
             form' = [form EXCEPT ![o] = [@ EXCEPT !.type = t, !.named = n, !.valid = FALSE]]
      BY <1>2 DEF EditForm
    <2>2. [form[o] EXCEPT !.type = t, !.named = n, !.valid = FALSE] \in Forms
      BY <1>1 DEF Forms
    <2> QED BY <1>2, <2>1, <2>2, FormSound DEF EditForm, TypeOK
  <1>3. CASE ValidateForm(o)
    <2> DEFINE refused == [form[o] EXCEPT !.valid = FALSE]
               answer == [form[o] EXCEPT !.valid = TRUE, !.shown = ~Exists(o),
                                         !.named = form[o].named /\ Exists(o)]
               f == IF HasPrevious(o) \/ Instructed(o) THEN refused ELSE answer
    <2>1. refused \in Forms
      BY <1>1 DEF Forms
    <2>2. answer \in Forms
      BY <1>1, Zenon DEF Forms, Exists
    <2>3. form' = [form EXCEPT ![o] = f]
      BY <1>3 DEF ValidateForm
    <2> HIDE DEF refused, answer
    <2> QED BY <1>3, <2>1, <2>2, <2>3, FormSound DEF ValidateForm
  <1>4. CASE Place(o)
    <2>1. /\ order[o] = "Draft" /\ phase[o] = "" /\ run.o # o /\ agreement[o] = "Draft"
      BY <1>4 DEF Place, Coupled, CoupledAt
    <2>2. /\ order' \in [Orders -> Statuses] /\ agreement' \in [Orders -> AgreementStatuses]
          /\ order'[o] = "Processing" /\ agreement'[o] = "Provisioning"
          /\ \A p \in Orders \ {o} : order'[p] = order[p] /\ agreement'[p] = agreement[p]
      BY <1>4 DEF Place, TypeOK, Statuses, AgreementStatuses, InUse
    <2>3. TypeOK'
      BY <1>4, <2>2 DEF Place, TypeOK, Exists
    <2>4. Coupled'
      BY <1>4, <2>1, <2>2 DEF Place, Coupled, CoupledAt, At
    <2>5. \A p \in Orders : Effect(p)
      BY <1>4, <2>1, <2>2 DEF Place, Effect, Passed, At
    <2> QED BY <1>4, <2>3, <2>4, <2>5, OutSame DEF Sound, Place
  <1> QED BY <1>2, <1>3, <1>4 DEF Drafting

LEMMA EnvironmentSound ==
    ASSUME TypeOK, Coupled, NEW o \in Orders, Environment(o)
    PROVE  Sound
  <1>1. CASE Resubmit(o)
    <2>1. PICK n \in {TRUE, form[o].named} : form' = [form EXCEPT ![o].named = n]
      BY <1>1 DEF Resubmit
    <2>2. form' \in [Orders -> Forms] /\ \A p \in Orders : form'[p].type = form[p].type
      BY <2>1 DEF TypeOK, Forms
    <2>3. /\ order' \in [Orders -> Statuses] /\ order[o] = "Querying" /\ order'[o] = "Processing"
          /\ \A p \in Orders \ {o} : order'[p] = order[p]
      BY <1>1 DEF Resubmit, TypeOK, Statuses
    <2>4. TypeOK'
      BY <1>1, <2>2, <2>3 DEF Resubmit, Around, TypeOK, Exists
    <2>5. Coupled'
      BY <1>1, <2>3 DEF Resubmit, Around, Coupled, CoupledAt, At
    <2>6. \A p \in Orders : Effect(p)
      BY <1>1, <2>2, <2>3 DEF Resubmit, Around, Effect, Passed, At
    <2> QED BY <1>1, <2>4, <2>5, <2>6, OutSame DEF Sound, Resubmit, Around
  <1>2. CASE OperatorFails(o)
    <2>1. /\ order' \in [Orders -> Statuses] /\ agreement' \in [Orders -> AgreementStatuses]
          /\ order'[o] = "Failed" /\ agreement'[o] = "Failed" /\ phase[o] = "begun"
          /\ order[o] = "Processing"
          /\ \A p \in Orders \ {o} : order'[p] = order[p] /\ agreement'[p] = agreement[p]
      BY <1>2 DEF OperatorFails, TypeOK, Statuses, AgreementStatuses
    <2>2. TypeOK'
      BY <1>2, <2>1 DEF OperatorFails, Around, TypeOK, Exists
    <2>3. Coupled'
      BY <1>2, <2>1 DEF OperatorFails, Around, Coupled, CoupledAt, At
    <2>4. \A p \in Orders : Effect(p)
      BY <1>2, <2>1 DEF OperatorFails, Around, Effect, Passed, At, InUse
    <2> QED BY <1>2, <2>2, <2>3, <2>4, OutSame DEF Sound, OperatorFails, Around
  <1>3. CASE AgreementMoves(o)
    <2>1. /\ agreement' \in [Orders -> AgreementStatuses]
          /\ agreement[o] \in {"Active", "Updating"}
          /\ agreement'[o] \in {"Active", "Updating", "Terminated"}
          /\ \A p \in Orders \ {o} : agreement'[p] = agreement[p]
      BY <1>3 DEF AgreementMoves, TypeOK, AgreementStatuses, InUse
    <2>2. TypeOK'
      BY <1>3, <2>1 DEF AgreementMoves, Around, TypeOK, Exists
    <2>3. Coupled'
      BY <1>3, <2>1 DEF AgreementMoves, Around, Coupled, CoupledAt, At
    <2>4. \A p \in Orders : Effect(p)
      BY <1>3, <2>1 DEF AgreementMoves, Around, Effect, Passed, At, InUse
    <2> QED BY <1>3, <2>2, <2>3, <2>4, OutSame DEF Sound, AgreementMoves, Around
  <1> QED BY <1>1, <1>2, <1>3 DEF Environment

LEMMA StepSound == TypeOK /\ Coupled /\ [Next]_vars => Sound
  <1> SUFFICES ASSUME TypeOK, Coupled, [Next]_vars PROVE Sound
    OBVIOUS
  <1>1. CASE RunStops
    BY <1>1, StopSound DEF RunStops, OrderSame, Keep
  <1>2. CASE UNCHANGED vars
    BY <1>2, OutSame DEF vars, Sound, TypeOK, Coupled, CoupledAt, Exists, At, Effect, Passed
  <1> QED BY <1>1, <1>2, DraftingSound, WorkerSound, EnvironmentSound DEF Next

-----------------------------------------------------------------------------
(* The invariant.                                                           *)
LEMMA ApartStep == Inv /\ Sound => Apart'
  <1> SUFFICES ASSUME Inv, Sound, NEW o \in Orders, NEW p \in Orders, o # p,
                      agreement'[o] \in InUse, agreement'[p] \in InUse
               PROVE  o \in late' \/ p \in late'
    BY DEF Apart
  <1>1. Effect(o) /\ Effect(p)
    BY DEF Sound
  <1>2. CASE agreement[o] \in InUse /\ agreement[p] \in InUse
    BY <1>1, <1>2 DEF Inv, Apart, Effect
  <1>3. CASE agreement[p] \notin InUse
    <2>1. agreement[o] \in InUse
      BY <1>1, <1>3 DEF Effect
    <2>2. HasPrevious(p)
      BY <2>1 DEF HasPrevious
    <2> QED BY <1>1, <1>3, <2>2 DEF Effect
  <1>4. CASE agreement[o] \notin InUse
    <2>1. agreement[p] \in InUse
      BY <1>1, <1>4 DEF Effect
    <2>2. HasPrevious(o)
      BY <2>1 DEF HasPrevious
    <2> QED BY <1>1, <1>4, <2>2 DEF Effect
  <1> QED BY <1>2, <1>3, <1>4

LEMMA CheckedStep == Inv /\ Sound => Checked'
  <1> SUFFICES ASSUME Inv, Sound, NEW o \in Orders, NEW p \in Orders, o # p,
                      Exists(o)', Passed(o)', agreement'[o] \in InUse, agreement'[p] \in InUse
               PROVE  p \in late' /\ ~(Exists(p)' /\ Passed(p)')
    BY DEF Checked
  <1>1. Effect(o) /\ Effect(p)
    BY DEF Sound
  <1>2. form'[o].type # "new"
    BY DEF Exists
  <1>3. Passed(o)
    BY <1>1, <1>2 DEF Effect
  <1>4. order[o] # "Draft"
    BY <1>3 DEF Inv, Coupled, CoupledAt, Passed, At
  <1>5. Exists(o) /\ agreement[o] \in InUse
    BY <1>1, <1>4 DEF Effect, Exists
  <1>6. CASE agreement[p] \in InUse
    <2>1. p \in late /\ ~(Exists(p) /\ Passed(p))
      BY <1>3, <1>5, <1>6 DEF Inv, Checked
    <2>2. order[p] # "Draft"
      BY <1>6 DEF Inv, Coupled, CoupledAt, InUse
    <2> QED BY <1>1, <2>1, <2>2 DEF Effect, Exists
  <1>7. CASE agreement[p] \notin InUse
    <2>1. HasPrevious(p)
      BY <1>5 DEF HasPrevious
    <2>2. p \in late' /\ phase'[p] = "" /\ run'.o # p
      BY <1>1, <1>7, <2>1 DEF Effect
    <2>3. ~At(p, "invite")'
      <3>1. [at |-> "invite", o |-> p].o = p
        OBVIOUS
      <3> QED BY <2>2, <3>1 DEF At
    <2>4. ~Passed(p)'
      BY <2>2, <2>3 DEF Passed
    <2> QED BY <2>2, <2>4
  <1> QED BY <1>6, <1>7

LEMMA KeptStep == Inv /\ Sound => Kept'
  <1> SUFFICES ASSUME Inv, Sound, Out' # {} PROVE \E p \in Orders \ Out' : order'[p] # "Draft"
    BY DEF Kept
  <1>1. CASE Out' \subseteq Out
    <2>1. PICK p \in Orders \ Out : order[p] # "Draft"
      BY <1>1 DEF Inv, Kept
    <2> QED BY <1>1, <2>1 DEF Sound, Effect
  <1>2. CASE \E q \in Orders : HasPrevious(q) /\ Out' = duplicate \cup {q} /\ order' = order
    <2>1. PICK q \in Orders : HasPrevious(q) /\ Out' = duplicate \cup {q} /\ order' = order
      BY <1>2
    <2>2. PICK p \in Orders \ {q} : agreement[p] \in InUse
      BY <2>1 DEF HasPrevious
    <2>3. p \notin duplicate /\ order[p] # "Draft"
      BY <2>2 DEF Inv, Coupled, CoupledAt, InUse
    <2> QED BY <2>1, <2>2, <2>3
  <1> QED BY <1>1, <1>2 DEF Sound, OutGrows

(* Every state of the admission satisfies the inductive invariant.          *)
THEOREM Invariant == Spec => []Inv
  <1>1. Init => Inv
    BY InitInv
  <1>2. Inv /\ [Next]_vars => Inv'
    BY StepSound, ApartStep, CheckedStep, KeptStep DEF Inv, Sound
  <1> QED BY <1>1, <1>2, PTL DEF Spec

(* Forms, orders, agreements and the run have their types in every state.   *)
THEOREM TypeCorrect == Spec => []TypeOK
  <1>1. Inv => TypeOK
    BY DEF Inv
  <1> QED BY <1>1, Invariant, PTL

(* Of two agreements of the licensee in use one is a new environment's that *)
(* was placed after the other, whose look-up ValidateOrder skips; orders of *)
(* existing accounts are alone, however drafts, runs and stops interleave.  *)
THEOREM Alone == Spec => []OneAgreement
  <1>1. Inv => OneAgreement
    <2> SUFFICES ASSUME Inv, NEW o \in Admitted, NEW p \in Admitted, o # p
                 PROVE  \E q \in {o, p} : ~Exists(q) /\ q \in late
      BY DEF OneAgreement
    <2>1. Passed(o) /\ Passed(p)
      BY DEF Passed, Admitted
    <2>2. o \in Orders /\ p \in Orders /\ agreement[o] \in InUse /\ agreement[p] \in InUse
      BY DEF Admitted
    <2>3. o \in late \/ p \in late
      BY <2>2 DEF Inv, Apart
    <2>4. Exists(o) => p \in late /\ ~Exists(p)
      BY <2>1, <2>2 DEF Inv, Checked
    <2>5. Exists(p) => o \in late /\ ~Exists(o)
      BY <2>1, <2>2 DEF Inv, Checked
    <2> QED BY <2>3, <2>4, <2>5
  <1> QED BY <1>1, Invariant, PTL

(* With one worker, orders that find each other are never all failed.       *)
THEOREM OneIsKept == Spec => []LastIsKept
  <1>1. Inv => LastIsKept
    BY DEF Inv, Kept, Out, LastIsKept
  <1> QED BY <1>1, Invariant, PTL
==============================================================================
