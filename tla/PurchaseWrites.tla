---------------------------- MODULE PurchaseWrites ----------------------------
(***************************************************************************)
(* What the writers of one order keep of each other's parameters, for      *)
(* every value of the constants.  The worker and the cron job each save    *)
(* the whole parameters of a copy they read earlier.  The proofs describe  *)
(* a step by what it reads, makes and stores (Polls, Works, Stores, ...),  *)
(* then show that as long as no stale copy has replaced newer parameters   *)
(* every copy differs from the stored ones only by what its holder has     *)
(* just done, and what follows: one resource of a kind, one error email,   *)
(* no phase lost, nothing sold to a failed order.                          *)
(***************************************************************************)
EXTENDS PurchaseSafety, FiniteSetTheorems

-----------------------------------------------------------------------------
(* The inductive invariant.                                                *)

(* The kinds of resources the worker makes, each in one step; the tickets,  *)
(* the contract and the project are made by the step of that name.          *)
Own == Kinds \ {"rolesTicket"}

Product(s) ==
    CASE s = "createTransfer"  -> "transfer"
      [] s = "checkTransfer"   -> "group"
      [] s = "configureApn"    -> "relationship"
      [] s = "createHandshake" -> "handshake"
      [] s = "onboard"         -> "execution"
      [] OTHER                 -> s

(* The worker holds something that is not recorded yet.                     *)
Saving == run.mode \in {"record", "save"}

(* The phases the cron job moves an order between, in one save or two.      *)
Moves(a, b) ==
    \/ a = "checkChannelHandshakeStatus" /\ b = "checkCustomerRoles"
    \/ a = "checkCustomerRoles" /\ b = "createSubscription"

Behind(a, b) ==
    \/ a = b
    \/ /\ a \in {"checkChannelHandshakeStatus", "checkCustomerRoles"}
       /\ b \in {"checkCustomerRoles", "createSubscription"}

(* The worker's copy is behind only in what the cron job writes, and ahead  *)
(* only by what its own step has done.                                      *)
RunView ==
    run.at # "idle" =>
        /\ \A kind \in Own : run.p.id[kind] # params.id[kind]
              => Saving /\ kind = Product(run.at) /\ run.p.id[kind] # 0
        /\ run.p.errSent # params.errSent => run.mode = "alert"
        /\ run.p.roles # params.roles => run.at = "checkRoles" /\ run.mode = "save"
        /\ Behind(run.p.phase, params.phase)
        /\ run.fresh => /\ run.p.phase = params.phase
                        /\ run.p.id["rolesTicket"] = params.id["rolesTicket"]

(* The cron job's copy is ahead by a ticket or a phase; a stale one still   *)
(* has the ticket, which nobody else writes.                                *)
JobView ==
    job.at # "idle" =>
        /\ job.p.id["rolesTicket"] # params.id["rolesTicket"] => job.at = "saveTicket"
        /\ job.fresh =>
              /\ \A kind \in Own : job.p.id[kind] = params.id[kind]
              /\ job.p.errSent = params.errSent /\ job.p.roles = params.roles
              /\ IF job.at = "savePhase" THEN Moves(params.phase, job.p.phase)
                 ELSE job.p.phase = params.phase

(* The error email is sent after the flag is stored.                        *)
Mail ==
    /\ emails <= 1
    /\ emails > 0 => params.errSent
    /\ run.mode \in {"alert", "email"} => run.p.errSent /\ emails = 0
    /\ run.mode = "alert" => ~params.errSent

(* An order with a subscription is past the steps that can fail it.         *)
SoldIsPast ==
    made["subscription"] > 0 =>
        /\ params.phase \in {"createSubscription"} \cup Sold
        /\ PLS => params.roles = "yes"
        /\ status # "Failed"

Onboarded == {"checkOnboardStatus", "createSubscription"} \cup Sold

(* A copy p of the parameters says that a resource need not be made.        *)
Kept(kind, p) ==
    CASE kind = "group"     -> p.phase \in Transferred
      [] kind = "execution" -> p.phase \in Onboarded
      [] OTHER              -> Set(p, kind)

Owned(kind) == Kept(kind, params) \/ (Saving /\ Kept(kind, Posted(run.at, run.p)))

(* A resource nobody knows of was lost to a fault.                          *)
Spending ==
    \A kind \in Own :
        /\ made[kind] <= 1 + faults
        /\ (Editable \/ run.at # "idle") /\ ~Owned(kind) => made[kind] <= faults

Ticket ==
    IF job.at = "saveTicket" THEN job.p.id["rolesTicket"] ELSE params.id["rolesTicket"]

(* So was an open ticket nobody knows of.                                   *)
Tickets ==
    /\ Cardinality(openTickets) <= 1 + faults
    /\ Editable \/ job.at # "idle" => Cardinality(openTickets \ {Ticket}) <= faults

(* The worker has let go of an order that waits.                            *)
Waiting == status = "Querying" => run.at = "idle"

(* Without the customer the worker and the cron job take turns.             *)
TakeTurns ==
    resubmits = 0 =>
        /\ ~lost /\ run.fresh /\ job.fresh
        /\ job.at # "idle" => status = "Querying"

RunInPhase == InPhase(run.at, run.p)

(* As long as no stale copy has replaced newer parameters.                  *)
InStep == RunView /\ JobView /\ Mail /\ SoldIsPast /\ Spending /\ Tickets

WInv ==
    /\ Waiting /\ RunInPhase /\ TakeTurns /\ QueryingIsWatched
    /\ ~lost => InStep

-----------------------------------------------------------------------------
(* The steps by what they read, make and store.                            *)

NotStored == UNCHANGED <<status, params, job, lost>>

(* The run is over or goes on, with the copy p, with a step of p's phase.   *)
Runs(p, fresh) ==
    \/ run' = IdleRun
    \/ /\ run'.at \in Steps /\ run'.mode = "run" /\ run'.p = p /\ run'.fresh = fresh
       /\ InPhase(run'.at, p)

(* Same parameters, of those the invariant speaks of.                       *)
Alike(p, q) ==
    p.id = q.id /\ p.errSent = q.errSent /\ p.roles = q.roles /\ p.phase = q.phase

(* A step has worked: it has made what it is for, or it has the answer it   *)
(* waits for, or it is about to flag an error.                              *)
Works ==
    /\ run.at \in Steps /\ run.mode = "run" /\ NotStored
    /\ UNCHANGED <<emails, openTickets>> /\ faults' \in {faults, faults + 1}
    /\ run'.at = run.at /\ run'.fresh = run.fresh /\ run'.mode \in {"save", "record", "alert"}
    /\ run'.p.phase = run.p.phase
    /\ \A kind \in Kinds : run'.p.id[kind] # run.p.id[kind] =>
          kind = Product(run.at) /\ run'.mode # "alert" /\ run'.p.id[kind] # 0
    /\ IF run'.mode = "alert" THEN ~run.p.errSent /\ run'.p.errSent
       ELSE run'.p.errSent = run.p.errSent
    /\ run'.p.roles # run.p.roles => run.at = "checkRoles" /\ run'.mode = "save"
    /\ \A kind \in Own : made'[kind] # made[kind] =>
          /\ made'[kind] = made[kind] + 1 /\ kind = Product(run.at)
          /\ made[kind] = 0 \/ ~Kept(kind, run.p)
          /\ \/ faults' = faults + 1
             \/ run'.mode # "alert" /\ Kept(kind, Posted(run.at, run'.p))
    /\ made'["subscription"] # made["subscription"] =>
          /\ run.p.phase = "createSubscription" /\ (PLS => run.p.roles = "yes")
          /\ Editable

(* The run stores parameters p, its own with the edit of its step.          *)
StoresParams(p) ==
    /\ Store(p, run) /\ job' = Overtaken(job, p)
    /\ p.id = run.p.id /\ p.errSent = run.p.errSent
    /\ p.roles # run.p.roles => run.p.phase \in {"", "checkCustomerRoles"}
    /\ Rank[run.p.phase] <= Rank[p.phase]

Stores ==
    /\ run.at \in Steps /\ Editable
    /\ UNCHANGED <<emails, openTickets, made, faults>>
    /\ \E p \in Params :
          /\ StoresParams(p)
          /\ \/ /\ run.mode = "save" /\ p = Posted(run.at, run.p) /\ status' = status
                /\ Runs(p, TRUE)
             \/ /\ run.mode \in {"record", "alert"} /\ p = run.p /\ status' = status
                /\ run' = [run EXCEPT !.mode = IF @ = "record" THEN "save" ELSE "email",
                                      !.fresh = TRUE]
             \/ /\ run.mode = "run" /\ status' = status
                /\ \E q \in Params : Alike(p, q) /\ Runs(q, TRUE)
             \/ /\ run.mode = "run" \/ p = Posted(run.at, run.p)
                /\ status = "Processing" /\ run' = IdleRun
                /\ \/ status' = "Completed"
                   \/ /\ status' = "Failed" /\ p.phase = run.p.phase
                      /\ Rank[p.phase] < Rank["createSubscription"]
                   \/ /\ status' = "Querying" /\ p.phase = run.p.phase
                      /\ p.phase \in JobPhases \/ p.mpaErr

(* The run ends, without a save of what it holds only if that failed.       *)
Stops ==
    /\ run' = IdleRun /\ NotStored /\ UNCHANGED <<emails, openTickets, made>>
    /\ \/ faults' = faults + 1
       \/ faults' = faults /\ (~Saving \/ ~Editable)

(* The run goes on to another step without a save.                          *)
Goes ==
    /\ run.at \in Steps /\ run.mode = "run" /\ NotStored
    /\ UNCHANGED <<emails, openTickets, made, faults>>
    /\ \E q \in Params : Alike(run.p, q) /\ Runs(q, run.fresh)

Mails ==
    /\ run.mode = "email" /\ NotStored /\ emails' = emails + 1
    /\ UNCHANGED <<openTickets, made, faults>>
    /\ run' = IdleRun \/ run' = [run EXCEPT !.mode = "save"]

(* The cron job has looked at its copy and found something to do: to move   *)
(* the order on, to store another phase, to store a ticket it has made.     *)
Looks ==
    /\ job.at = "look" /\ UNCHANGED <<status, params, run, lost, emails>>
    /\ \A kind \in Resources \ {"rolesTicket"} : made'[kind] = made[kind]
    /\ job'.fresh = job.fresh
    /\ \/ /\ job'.at = "process" /\ job'.p = job.p
          /\ UNCHANGED <<openTickets, faults>>
       \/ /\ job'.at = "savePhase" /\ UNCHANGED <<openTickets, faults>>
          /\ \E ph \in Phases : Moves(job.p.phase, ph) /\ job'.p = WithPhase(job.p, ph)
       \/ /\ job'.at = "saveTicket" /\ job.p.id["rolesTicket"] \notin openTickets
          /\ \E n \in Ids, m \in 0..MaxMade :
                /\ openTickets' = openTickets \cup {n}
                /\ job'.p = WithId(job.p, "rolesTicket", m)
                /\ (m = n /\ faults' = faults) \/ faults' = faults + 1

(* The cron job stores its copy, or moves the order on with it.             *)
JobStores ==
    /\ Editable /\ Store(job.p, job) /\ run' = Overtaken(run, job.p)
    /\ UNCHANGED <<emails, openTickets, made, faults>>
    /\ \/ /\ job.at = "saveTicket" /\ status' = status
          /\ \/ job' = IdleJob
             \/ /\ job'.at = "savePhase" /\ job'.fresh
                /\ job'.p = WithPhase(job.p, "createSubscription")
       \/ /\ job.at = "savePhase" /\ status' = status
          /\ job'.at = "process" /\ job'.fresh /\ job'.p = job.p
       \/ /\ job.at = "process" /\ job' = IdleJob
          /\ status = "Querying" /\ status' = "Processing"

(* The cron job is done with the order.                                     *)
JobStops ==
    /\ job' = IdleJob /\ UNCHANGED <<status, params, run, lost, emails, openTickets, made>>
    /\ \/ faults' = faults + 1
       \/ faults' = faults /\ job.at = "look"
       \/ /\ faults' = faults /\ status # "Querying"
          /\ job.at = "saveTicket" => ~Editable

(* What the rest of the world does to the order and its copies.             *)
Elsewhere ==
    /\ UNCHANGED <<params, run, lost, emails, made, faults>>
    /\ job'.at = job.at /\ job'.p = job.p /\ job'.fresh = job.fresh
    /\ openTickets' \subseteq openTickets
    /\ status' = status \/ OperatorFails

-----------------------------------------------------------------------------
(* Going on with the next step that applies.                                *)
LEMMA AdvanceRuns ==
    ASSUME NEW p, NEW fresh, Advance(p, fresh)
    PROVE  Runs(p, fresh)
    BY DEF Advance, Runs, Later, Applies

(* What the record edits of the steps leave alone.                          *)
LEMMA Edits ==
    ASSUME NEW p \in Params
    PROVE  /\ \A n : \A kind \in Kinds :
                 /\ WithId(p, kind, n).phase = p.phase
                 /\ WithId(p, kind, n).errSent = p.errSent
                 /\ WithId(p, kind, n).roles = p.roles
                 /\ WithId(p, kind, n).id[kind] = n
                 /\ \A k \in Kinds \ {kind} : WithId(p, kind, n).id[k] = p.id[k]
           /\ \A b : Alike(p, [p EXCEPT !.mpaErr = b]) /\ Alike([p EXCEPT !.mpaErr = b], p)
           /\ \A v : Alike(p, [p EXCEPT !.approved = v]) /\ Alike([p EXCEPT !.approved = v], p)
           /\ \A ph : /\ WithPhase(p, ph).phase = ph /\ WithPhase(p, ph).id = p.id
                       /\ WithPhase(p, ph).errSent = p.errSent
                       /\ WithPhase(p, ph).roles = p.roles
    BY DEF Params, WithId, WithPhase, Alike

(* The ranks of the phases.                                                 *)
LEMMA RankType == Rank \in [Phases -> Nat]
    BY DEF Rank, Phases

LEMMA Ranks ==
    /\ Rank["createAccount"] = 1
    /\ Rank["createBillingTransferInvitation"] = 2
    /\ Rank["checkBillingTransferInvitation"] = 3
    /\ Rank["configureApnProgram"] = 4 /\ Rank["createChannelHandshake"] = 5
    /\ Rank["checkChannelHandshakeStatus"] = 6 /\ Rank["checkCustomerRoles"] = 7
    /\ Rank["onboardServices"] = 8 /\ Rank["checkOnboardStatus"] = 9
    /\ Rank["createSubscription"] = 10 /\ Rank["projectCreation"] = 11
    /\ Rank["completed"] = 12
  <1>1. /\ Rank["createAccount"] = 1
        /\ Rank["createBillingTransferInvitation"] = 2
        /\ Rank["checkBillingTransferInvitation"] = 3
    BY DEF Rank, Phases
  <1>2. /\ Rank["configureApnProgram"] = 4 /\ Rank["createChannelHandshake"] = 5
        /\ Rank["checkChannelHandshakeStatus"] = 6 /\ Rank["checkCustomerRoles"] = 7
    BY DEF Rank, Phases
  <1>3. /\ Rank["onboardServices"] = 8 /\ Rank["checkOnboardStatus"] = 9
        /\ Rank["createSubscription"] = 10 /\ Rank["projectCreation"] = 11
        /\ Rank["completed"] = 12
    BY DEF Rank, Phases
  <1> QED BY <1>1, <1>2, <1>3

LEMMA RankSame == ASSUME NEW a \in Phases PROVE Rank[a] <= Rank[a]
    BY RankType

LEMMA RankStart ==
    ASSUME NEW a \in Phases, NEW b \in Phases
    PROVE  a = "" => Rank[a] <= Rank[b]
  <1>1. a = "" => Rank[a] = 0
    BY DEF Rank, Phases
  <1>2. Rank[a] = 0 => Rank[a] <= Rank[b]
    BY RankType
  <1> QED BY <1>1, <1>2

(* A step leaves the phase in which it is executed, or moves it forward.    *)
LEMMA PhaseAfterRank ==
    ASSUME NEW s \in Steps, NEW p \in Params, InPhase(s, p)
    PROVE  Rank[p.phase] <= Rank[PhaseAfter(s, p.phase)]
  <1>1. p.phase \in Phases /\ Rank \in [Phases -> Nat]
    BY RankType DEF Params
  <1> DEFINE before == p.phase
             after == PhaseAfter(s, before)
  <1>2. \/ after = before
        \/ before = "createAccount" /\ after = "createBillingTransferInvitation"
        \/ before = "createBillingTransferInvitation" /\ after = "checkBillingTransferInvitation"
        \/ before = "checkBillingTransferInvitation" /\ after = "configureApnProgram"
        \/ before = "configureApnProgram" /\ after = "createChannelHandshake"
        \/ before = "createChannelHandshake" /\ after = "checkChannelHandshakeStatus"
        \/ before = "checkChannelHandshakeStatus" /\ after = "checkCustomerRoles"
        \/ before = "checkCustomerRoles" /\ after = "onboardServices"
        \/ before = "onboardServices" /\ after = "checkOnboardStatus"
        \/ before = "checkOnboardStatus" /\ after = "createSubscription"
        \/ before = "createSubscription" /\ after = "projectCreation"
        \/ before = "projectCreation" /\ after = "completed"
    BY DEF Steps, InPhase, PhaseOf, PhaseAfter
  <1> HIDE DEF after, before
  <1>3. before \in Phases /\ Rank \in [Phases -> Nat]
    BY <1>1 DEF before
  <1>4. Rank[before] <= Rank[after]
    BY <1>2, <1>3, Ranks
  <1> QED BY <1>4 DEF after, before

(* A step of the worker that moves an order by closing or querying it       *)
(* stores, or is refused: the order is closed, as no order waits while the  *)
(* worker runs it.                                                          *)
LEMMA CloseWrites ==
    ASSUME TypeOK, Waiting, run.at \in Steps,
           NEW st, NEW p \in Params, Close(st, p),
           p.id = run.p.id, p.errSent = run.p.errSent,
           p.roles # run.p.roles => run.p.phase \in {"", "checkCustomerRoles"},
           p.phase = run.p.phase,
           run.mode = "run" \/ p = Posted(run.at, run.p),
           \/ st = "Completed"
           \/ st = "Failed" /\ Rank[p.phase] < Rank["createSubscription"]
           \/ st = "Querying" /\ (p.phase \in JobPhases \/ p.mpaErr),
           UNCHANGED <<emails, openTickets, made, faults>>
    PROVE  Stores \/ Stops
  <1>1. CASE status = "Processing"
    <2>1. /\ Store(p, run) /\ job' = Overtaken(job, p) /\ status' = st /\ run' = IdleRun
      BY <1>1 DEF Close, Stop
    <2>2. Rank[run.p.phase] <= Rank[p.phase]
      <3>1. p.phase \in Phases
        BY DEF Params
      <3> QED BY <3>1, RankSame
    <2>3. StoresParams(p)
      BY <2>1, <2>2 DEF StoresParams
    <2>4. Editable
      BY <1>1 DEF Editable
    <2> QED BY <1>1, <2>1, <2>3, <2>4 DEF Stores
  <1>2. CASE status # "Processing"
    <2>1. ~Editable
      BY <1>2 DEF Waiting, Editable, Steps
    <2>2. run' = IdleRun /\ NotStored
      BY <1>2 DEF Close, Stop, NotStored
    <2> QED BY <2>1, <2>2 DEF Stops
  <1> QED BY <1>1, <1>2

(* A step that has nothing to make, or has made it already.                 *)
LEMMA WorksNothing ==
    ASSUME run.at \in Steps, run.mode = "run", NEW q, Then("save", q), run \in RunType,
           OrderSame, UNCHANGED <<emails, openTickets, made, faults>>,
           q.id = run.p.id, q.errSent = run.p.errSent, q.phase = run.p.phase,
           q.roles # run.p.roles => run.at = "checkRoles"
    PROVE  Works
  <1>1. run'.at = run.at /\ run'.fresh = run.fresh /\ run'.mode = "save" /\ run'.p = q
    BY DEF Then, RunType
  <1>2. NotStored
    BY DEF NotStored, OrderSame, orderVars
  <1> QED BY <1>1, <1>2 DEF Works

(* A step that makes a resource and holds its number.                       *)
LEMMA WorksProduct ==
    ASSUME TypeOK, run.at \in Steps, run.mode = "run", NEW kind \in Own, kind = Product(run.at),
           CanMake(kind), made' = Made(kind), NEW n \in Nat \ {0},
           NEW mode \in {"save", "record"}, Then(mode, WithId(run.p, kind, n)),
           OrderSame, UNCHANGED <<emails, openTickets, faults>>,
           made[kind] = 0 \/ ~Kept(kind, run.p),
           kind \in {"group", "execution"} =>
               Kept(kind, WithPhase(run.p, PhaseAfter(run.at, run.p.phase)))
    PROVE  Works
  <1> DEFINE q == WithId(run.p, kind, n)
  <1>1. run.p \in Params /\ run \in RunType /\ kind \in Kinds /\ kind \in Resources
    BY DEF TypeOK, RunType, Own, Resources
  <1>2. /\ q.phase = run.p.phase /\ q.errSent = run.p.errSent /\ q.roles = run.p.roles
        /\ q.id[kind] = n /\ \A k \in Kinds \ {kind} : q.id[k] = run.p.id[k]
    BY <1>1, Edits
  <1>3. run'.at = run.at /\ run'.fresh = run.fresh /\ run'.mode = mode /\ run'.p = q
    BY <1>1 DEF Then, RunType
  <1>4. /\ made'[kind] = made[kind] + 1
        /\ \A k \in Resources \ {kind} : made'[k] = made[k]
    BY <1>1 DEF Made, TypeOK
  <1>5. NotStored
    BY DEF NotStored, OrderSame, orderVars
  <1>6. /\ Posted(run.at, q).id[kind] = n
        /\ Posted(run.at, q).phase = PhaseAfter(run.at, q.phase)
    BY <1>1 DEF Posted, WithPhase, WithId, Params
  <1> HIDE DEF q
  <1>7. Kept(kind, Posted(run.at, q))
    <2>1. /\ Posted(run.at, q).id[kind] = n
          /\ Posted(run.at, q).phase = PhaseAfter(run.at, run.p.phase)
      BY <1>2, <1>6
    <2>2. WithPhase(run.p, PhaseAfter(run.at, run.p.phase)).phase = PhaseAfter(run.at, run.p.phase)
      BY <1>1, Edits
    <2> QED BY <2>1, <2>2 DEF Kept, Set
  <1>8. \A k \in Kinds : run'.p.id[k] # run.p.id[k] =>
          k = Product(run.at) /\ run'.mode # "alert" /\ run'.p.id[k] # 0
    BY <1>2, <1>3
  <1>9. \A k \in Own : made'[k] # made[k] =>
          /\ made'[k] = made[k] + 1 /\ k = Product(run.at)
          /\ made[k] = 0 \/ ~Kept(k, run.p)
          /\ \/ faults' = faults + 1
             \/ run'.mode # "alert" /\ Kept(k, Posted(run.at, run'.p))
    BY <1>3, <1>4, <1>7 DEF Own, Resources
  <1>10. made'["subscription"] = made["subscription"]
    BY <1>1, <1>4 DEF Resources, Kinds
  <1> QED BY <1>2, <1>3, <1>5, <1>8, <1>9, <1>10 DEF Works

(* A step whose call does not tell the number of what it made.              *)
LEMMA WorksUnknown ==
    ASSUME TypeOK, run.at \in Steps, run.mode = "run", NEW kind \in Own, kind = Product(run.at),
           CanMake(kind), made' = Made(kind), Then("save", run.p),
           OrderSame, UNCHANGED <<emails, openTickets>>, faults' = faults + 1,
           ~Kept(kind, run.p)
    PROVE  Works
  <1>1. run.p \in Params /\ run \in RunType /\ kind \in Kinds /\ kind \in Resources
    BY DEF TypeOK, RunType, Own, Resources
  <1>3. run'.at = run.at /\ run'.fresh = run.fresh /\ run'.mode = "save" /\ run'.p = run.p
    BY <1>1 DEF Then, RunType
  <1>4. /\ made'[kind] = made[kind] + 1
        /\ \A k \in Resources \ {kind} : made'[k] = made[k]
    BY <1>1 DEF Made, TypeOK
  <1>5. NotStored
    BY DEF NotStored, OrderSame, orderVars
  <1>9. \A k \in Own : made'[k] # made[k] =>
          /\ made'[k] = made[k] + 1 /\ k = Product(run.at) /\ ~Kept(k, run.p)
    BY <1>4 DEF Own, Resources
  <1>10. made'["subscription"] = made["subscription"]
    BY <1>1, <1>4 DEF Resources, Kinds
  <1> QED BY <1>3, <1>5, <1>9, <1>10 DEF Works

(* The error handling of a deployment step.                                 *)
LEMMA WorksError ==
    ASSUME TypeOK, run.at \in Steps, run.mode = "run", HandleError,
           OrderSame, UNCHANGED <<emails, openTickets, made, faults>>
    PROVE  Works \/ Stops
  <1>1. run.p \in Params /\ run \in RunType /\ NotStored
    BY DEF TypeOK, RunType, NotStored, OrderSame, orderVars
  <1>2. CASE ~run.p.errSent /\ Then("alert", [run.p EXCEPT !.errSent = TRUE])
    <2>1. /\ run'.at = run.at /\ run'.fresh = run.fresh /\ run'.mode = "alert"
          /\ run'.p = [run.p EXCEPT !.errSent = TRUE]
      BY <1>1, <1>2 DEF Then, RunType
    <2>2. /\ run'.p.phase = run.p.phase /\ run'.p.id = run.p.id /\ run'.p.errSent
          /\ run'.p.roles = run.p.roles
      BY <1>1, <2>1 DEF Params
    <2> QED BY <1>1, <1>2, <2>1, <2>2 DEF Works
  <1>3. CASE Stop
    BY <1>1, <1>3 DEF Stops, Stop, Saving
  <1>4. CASE Then("save", run.p)
    BY <1>1, <1>4, WorksNothing
  <1> QED BY <1>2, <1>3, <1>4 DEF HandleError, NotNotified

(* The first run of an order, and every run of one whose template is not    *)
(* the expected one, stores.                                                *)
LEMMA SetupWrites ==
    ASSUME TypeOK, IInv, RunInPhase, SetupContext
    PROVE  Stores \/ Goes
  <1> DEFINE clean == [run.p EXCEPT !.mpaErr = FALSE]
             first == IF account = "new" THEN "createAccount"
                      ELSE "createBillingTransferInvitation"
             begun == [clean EXCEPT !.phase = first, !.roles = "no", !.approved = "no"]
  <1>1. /\ run.at \in Steps /\ run.mode = "run" /\ run.p \in Params
        /\ UNCHANGED <<status, emails, openTickets, made, faults>>
    BY DEF SetupContext, At, TypeOK, RunType, WorldSame, alertVars, crmVars, Steps
  <1>2. clean \in Params /\ begun \in Params /\ Alike(clean, clean)
        /\ Alike(run.p, clean) /\ begun.id = run.p.id /\ begun.errSent = run.p.errSent
    BY <1>1 DEF Params, Phases, Alike
  <1>3. run.p.phase \in Phases /\ begun.phase \in Phases
    BY <1>1, <1>2 DEF Params
  <1> HIDE DEF clean, begun
  <1>4. CASE /\ run.p.phase = "" /\ Editable
             /\ Store(begun, run) /\ job' = Overtaken(job, begun)
             /\ Advance(begun, TRUE)
    <2>1. Rank[run.p.phase] <= Rank[begun.phase]
      BY <1>3, <1>4, RankStart
    <2>2. StoresParams(begun)
      BY <1>2, <1>4, <2>1 DEF StoresParams
    <2>3. Runs(begun, TRUE) /\ Alike(begun, begun)
      BY <1>4, AdvanceRuns DEF Alike
    <2> QED BY <1>1, <1>2, <1>4, <2>2, <2>3 DEF Stores
  <1>5. CASE UNCHANGED <<params, lost, job>> /\ Advance(clean, run.fresh)
    <2>1. Runs(clean, run.fresh) /\ NotStored
      BY <1>1, <1>5, AdvanceRuns DEF NotStored
    <2> QED BY <1>1, <1>2, <2>1 DEF Goes
  <1>6. CASE /\ Editable /\ Store(run.p, run) /\ job' = Overtaken(job, run.p)
             /\ Advance(clean, TRUE) \/ Stop
    <2>1. Rank[run.p.phase] <= Rank[run.p.phase]
      BY <1>3, RankSame
    <2>2. StoresParams(run.p)
      BY <1>6, <2>1 DEF StoresParams
    <2>3. Runs(clean, TRUE)
      BY <1>6, AdvanceRuns DEF Stop, Runs
    <2> QED BY <1>1, <1>2, <1>6, <2>2, <2>3 DEF Stores
  <1> QED BY <1>4, <1>5, <1>6 DEF SetupContext, clean, begun

(* Every step of the worker is one of these.                                *)
LEMMA WorkerWrites ==
    ASSUME TypeOK, IInv, Waiting, RunInPhase, WorkerNext
    PROVE  Poll \/ Works \/ Stores \/ Stops \/ Goes \/ Mails
  <1> DEFINE Goal == Works \/ Stores \/ Stops \/ Goes \/ Mails
  <1> USE DEF Keep, WorldSame, awsVars, crmVars, alertVars
  <1>1. /\ run \in RunType /\ run.p \in Params /\ RunOrigin
        /\ run.p.phase \in Phases
    BY DEF TypeOK, RunType, Params, IInv
  <1>2. \A s : At(s) => /\ run.at = s /\ run.mode = "run"
                        /\ PhaseOf(s) # "any" => run.p.phase = PhaseOf(s)
    BY AtPhase
  <1>3. ASSUME Stop, OrderSame, UNCHANGED <<emails, openTickets, made>>,
               faults' = faults + 1 \/ (UNCHANGED faults /\ ~Saving)
        PROVE  Stops
    BY <1>3 DEF Stop, Stops, NotStored, OrderSame, orderVars
  <1>4. CASE SetupContext
    BY <1>4, SetupWrites
  <1>5. CASE ValidateOrder
    <2>1. /\ run.at = "validate" /\ run.at \in Steps /\ run.mode = "run"
          /\ run.p.phase = "createBillingTransferInvitation"
          /\ UNCHANGED <<emails, openTickets, made, faults>>
      BY <1>2, <1>5 DEF ValidateOrder, PhaseOf, Steps
    <2>2. Rank[run.p.phase] < Rank["createSubscription"]
      BY <2>1, Ranks
    <2>3. CASE Close("Failed", run.p)
      BY <1>1, <2>1, <2>2, <2>3, CloseWrites
    <2>4. CASE Advance(run.p, run.fresh) /\ OrderSame
      <3>1. Runs(run.p, run.fresh) /\ Alike(run.p, run.p) /\ NotStored
        BY <2>4, AdvanceRuns DEF Alike, NotStored, OrderSame, orderVars
      <3> QED BY <1>1, <2>1, <3>1 DEF Goes
    <2> QED BY <1>5, <2>3, <2>4 DEF ValidateOrder
  <1>6. CASE CreateTickets
    <2>1. PICK s \in TicketSteps : CreateTicket(s)
      BY <1>6 DEF CreateTickets
    <2>2. /\ run.at = s /\ run.at \in Steps /\ run.mode = "run" /\ s \in Own /\ s = Product(s)
          /\ CanMake(s) /\ made' = Made(s) /\ OrderSame /\ UNCHANGED <<emails, openTickets>>
      BY <1>2, <2>1 DEF CreateTicket, TicketSteps, Steps, Own, Kinds, Product
    <2>3. ~Kept(s, run.p) /\ s \notin {"group", "execution"}
      BY <2>1 DEF CreateTicket, At, Applies, NotRecorded, TicketSteps, Kept, Set
    <2>4. made[s] + 1 \in Nat \ {0} /\ faults \in Nat
      BY <2>2, BoundAssumption DEF TypeOK, Own, Resources
    <2>5. CASE Then("save", WithId(run.p, s, made[s] + 1)) /\ UNCHANGED faults
      <3> DEFINE n == made[s] + 1
      <3>1. Then("save", WithId(run.p, s, n)) /\ n \in Nat \ {0}
        BY <2>4, <2>5
      <3> HIDE DEF n
      <3> QED BY <2>2, <2>3, <2>5, <3>1, WorksProduct
    <2>6. CASE Then("save", run.p) /\ Fault
      BY <2>2, <2>3, <2>6, WorksUnknown DEF Fault
    <2> QED BY <2>1, <2>5, <2>6 DEF CreateTicket
  <1>7. CASE CreateNewAWSEnvironment
    <2>1. /\ run.at = "createEnv" /\ run.at \in Steps /\ run.mode = "run"
          /\ run.p.phase = "createAccount"
          /\ UNCHANGED <<emails, faults>>
      BY <1>2, <1>7 DEF CreateNewAWSEnvironment, PhaseOf, Steps
    <2>2. CASE QueryOrder([run.p EXCEPT !.mpaErr = TRUE])
      <3> DEFINE q == [run.p EXCEPT !.mpaErr = TRUE]
      <3>1. q \in Params /\ Alike(q, run.p)
        BY <1>1, Edits, EditedParams
      <3>2. q.mpaErr
        BY <1>1 DEF Params
      <3>3. Close("Querying", q) /\ UNCHANGED <<openTickets, made>>
        BY <2>2 DEF QueryOrder
      <3> HIDE DEF q
      <3> QED BY <2>1, <3>1, <3>2, <3>3, CloseWrites DEF Alike
    <2>3. CASE Then("save", run.p) /\ OrderSame /\ UNCHANGED <<made, openTickets>>
      BY <1>1, <2>1, <2>3, WorksNothing
    <2> QED BY <1>7, <2>2, <2>3 DEF CreateNewAWSEnvironment
  <1>8. CASE CreateBillingTransferInvitation
    <2>1. /\ run.at = "createTransfer" /\ run.at \in Steps /\ run.mode = "run"
          /\ run.p.phase = "createBillingTransferInvitation"
          /\ UNCHANGED <<emails, faults>>
      BY <1>2, <1>8 DEF CreateBillingTransferInvitation, PhaseOf, Steps
    <2>2. CASE QueryOrder([run.p EXCEPT !.mpaErr = TRUE])
      <3> DEFINE q == [run.p EXCEPT !.mpaErr = TRUE]
      <3>1. q \in Params /\ Alike(q, run.p)
        BY <1>1, Edits, EditedParams
      <3>2. q.mpaErr
        BY <1>1 DEF Params
      <3>3. Close("Querying", q) /\ UNCHANGED <<openTickets, made>>
        BY <2>2 DEF QueryOrder
      <3> HIDE DEF q
      <3> QED BY <2>1, <3>1, <3>2, <3>3, CloseWrites DEF Alike
    <2>3. CASE Then("save", run.p) /\ OrderSame /\ UNCHANGED <<made, openTickets>>
      BY <1>1, <2>1, <2>3, WorksNothing
    <2>4. CASE InviteOrganization
      <3> DEFINE n == made["transfer"] + 1
      <3>1. /\ Then("save", WithId(run.p, "transfer", n)) /\ OrderSame
            /\ made' = Made("transfer") /\ CanMake("transfer")
            /\ UNCHANGED openTickets /\ ~Kept("transfer", run.p)
        BY <2>4 DEF InviteOrganization, Kept, Set
      <3>2. n \in Nat \ {0} /\ "transfer" \in Own /\ "transfer" = Product("createTransfer")
        BY BoundAssumption DEF TypeOK, Resources, Kinds, Own, Product
      <3> HIDE DEF n
      <3> QED BY <2>1, <3>1, <3>2, WorksProduct
    <2> QED BY <1>8, <2>2, <2>3, <2>4 DEF CreateBillingTransferInvitation
  <1>9. CASE CheckBillingTransferInvitation
    <2>1. /\ run.at = "checkTransfer" /\ run.at \in Steps /\ run.mode = "run"
          /\ run.p.phase = "checkBillingTransferInvitation"
          /\ UNCHANGED <<emails, faults>>
      BY <1>2, <1>9 DEF CheckBillingTransferInvitation, PhaseOf, Steps
    <2>2. CASE QueryOrder(run.p)
      <3>1. Close("Querying", run.p) /\ UNCHANGED <<openTickets, made>>
        BY <2>2 DEF QueryOrder
      <3> QED BY <1>1, <2>1, <3>1, CloseWrites DEF JobPhases
    <2>3. CASE Close("Failed", run.p) /\ WorldSame
      <3>1. Rank[run.p.phase] < Rank["createSubscription"]
        BY <2>1, Ranks
      <3> QED BY <1>1, <2>1, <2>3, <3>1, CloseWrites
    <2>4. CASE /\ CanMake("group") /\ made' = Made("group")
               /\ Then("save", WithId(run.p, "group", made["group"] + 1))
               /\ OrderSame /\ UNCHANGED openTickets
      <3> DEFINE n == made["group"] + 1
      <3>1. Then("save", WithId(run.p, "group", n))
        BY <2>4
      <3>2. n \in Nat \ {0} /\ "group" \in Own /\ "group" = Product("checkTransfer")
        BY BoundAssumption DEF TypeOK, Resources, Kinds, Own, Product
      <3>3. ~Kept("group", run.p)
        BY <2>1 DEF Kept, Transferred
      <3>4. Kept("group", WithPhase(run.p, PhaseAfter(run.at, run.p.phase)))
        BY <1>1, <2>1 DEF Kept, WithPhase, PhaseAfter, Params, Transferred, Invited, Phases
      <3> HIDE DEF n
      <3> QED BY <2>1, <2>4, <3>1, <3>2, <3>3, <3>4, WorksProduct
    <2> QED BY <1>9, <2>2, <2>3, <2>4 DEF CheckBillingTransferInvitation
  <1>10. CASE ConfigureAPNProgram
    <2>1. /\ run.at = "configureApn" /\ run.at \in Steps /\ run.mode = "run"
          /\ UNCHANGED <<emails, faults, openTickets>> /\ OrderSame
      BY <1>2, <1>10 DEF ConfigureAPNProgram, PhaseOf, Steps
    <2>2. CASE Then("save", run.p) /\ UNCHANGED made
      BY <1>1, <2>1, <2>2, WorksNothing
    <2>3. CASE /\ run.p.id["relationship"] = 0 /\ CanMake("relationship")
               /\ Then("save", WithId(run.p, "relationship", made["relationship"] + 1))
               /\ made' = Made("relationship")
      <3> DEFINE n == made["relationship"] + 1
      <3>1. Then("save", WithId(run.p, "relationship", n)) /\ ~Kept("relationship", run.p)
        BY <2>3 DEF Kept, Set
      <3>2. /\ n \in Nat \ {0} /\ "relationship" \in Own
            /\ "relationship" = Product("configureApn")
        BY BoundAssumption DEF TypeOK, Resources, Kinds, Own, Product
      <3> HIDE DEF n
      <3> QED BY <2>1, <2>3, <3>1, <3>2, WorksProduct
    <2> QED BY <1>10, <2>2, <2>3 DEF ConfigureAPNProgram
  <1>11. CASE CreateChannelHandshake
    <2>1. /\ run.at = "createHandshake" /\ run.at \in Steps /\ run.mode = "run"
          /\ UNCHANGED <<emails, faults, openTickets>> /\ OrderSame
      BY <1>2, <1>11 DEF CreateChannelHandshake, PhaseOf, Steps
    <2>2. CASE Then("save", run.p) /\ UNCHANGED made
      BY <1>1, <2>1, <2>2, WorksNothing
    <2>3. CASE /\ run.p.id["handshake"] = 0 /\ CanMake("handshake")
               /\ Then("save", WithId(run.p, "handshake", made["handshake"] + 1))
               /\ made' = Made("handshake")
      <3> DEFINE n == made["handshake"] + 1
      <3>1. Then("save", WithId(run.p, "handshake", n)) /\ ~Kept("handshake", run.p)
        BY <2>3 DEF Kept, Set
      <3>2. n \in Nat \ {0} /\ "handshake" \in Own /\ "handshake" = Product("createHandshake")
        BY BoundAssumption DEF TypeOK, Resources, Kinds, Own, Product
      <3> HIDE DEF n
      <3> QED BY <2>1, <2>3, <3>1, <3>2, WorksProduct
    <2> QED BY <1>11, <2>2, <2>3 DEF CreateChannelHandshake
  <1>12. CASE CheckChannelHandshakeStatus
    <2>1. /\ run.at = "checkHandshake" /\ run.at \in Steps /\ run.mode = "run"
          /\ run.p.phase = "checkChannelHandshakeStatus"
          /\ UNCHANGED <<emails, faults>>
      BY <1>2, <1>12 DEF CheckChannelHandshakeStatus, PhaseOf, Steps
    <2>2. PICK v \in {"no", "yes"} :
            \/ QueryOrder([run.p EXCEPT !.approved = v])
            \/ /\ Then("save", [run.p EXCEPT !.approved = v]) /\ OrderSame
               /\ UNCHANGED <<made, openTickets>>
      BY <1>12 DEF CheckChannelHandshakeStatus
    <2> DEFINE q == [run.p EXCEPT !.approved = v]
    <2>3. q \in Params /\ Alike(q, run.p)
      BY <1>1, Edits, EditedParams
    <2> HIDE DEF q
    <2>4. CASE QueryOrder(q)
      <3>1. Close("Querying", q) /\ UNCHANGED <<openTickets, made>>
        BY <2>4 DEF QueryOrder
      <3> QED BY <2>1, <2>3, <3>1, CloseWrites DEF Alike, JobPhases
    <2>5. CASE Then("save", q) /\ OrderSame /\ UNCHANGED <<made, openTickets>>
      BY <1>1, <2>1, <2>3, <2>5, WorksNothing DEF Alike
    <2> QED BY <2>2, <2>4, <2>5 DEF q
  <1>13. CASE CheckCustomerRoles
    <2>1. /\ run.at = "checkRoles" /\ run.at \in Steps /\ run.mode = "run"
          /\ run.p.phase = "checkCustomerRoles"
          /\ UNCHANGED <<emails, faults>>
      BY <1>2, <1>13 DEF CheckCustomerRoles, PhaseOf, Steps
    <2>2. PICK v \in {"no", "yes"} :
            \/ QueryOrder([run.p EXCEPT !.roles = v])
            \/ /\ Then("save", [run.p EXCEPT !.roles = v]) /\ OrderSame
               /\ UNCHANGED <<made, openTickets>>
      BY <1>13 DEF CheckCustomerRoles
    <2> DEFINE q == [run.p EXCEPT !.roles = v]
    <2>3. q \in Params
      BY <1>1, EditedParams
    <2>6. q.id = run.p.id /\ q.errSent = run.p.errSent /\ q.phase = run.p.phase
      BY <1>1 DEF Params
    <2> HIDE DEF q
    <2>4. CASE QueryOrder(q)
      <3>1. Close("Querying", q) /\ UNCHANGED <<openTickets, made>>
        BY <2>4 DEF QueryOrder
      <3> QED BY <2>1, <2>3, <2>6, <3>1, CloseWrites DEF JobPhases
    <2>5. CASE Then("save", q) /\ OrderSame /\ UNCHANGED <<made, openTickets>>
      BY <1>1, <2>1, <2>5, <2>6, WorksNothing
    <2> QED BY <2>2, <2>4, <2>5 DEF q
  <1>14. CASE OnboardServices
    <2>1. /\ run.at = "onboard" /\ run.at \in Steps /\ run.mode = "run"
          /\ run.p.phase = "onboardServices"
          /\ UNCHANGED <<emails, faults, openTickets>> /\ OrderSame
      BY <1>2, <1>14 DEF OnboardServices, PhaseOf, Steps
    <2>2. CASE HandleError /\ UNCHANGED made
      BY <2>1, <2>2, WorksError
    <2>3. CASE /\ CanMake("execution") /\ made' = Made("execution")
               /\ Then("record", WithId(run.p, "execution", made["execution"] + 1))
      <3> DEFINE n == made["execution"] + 1
      <3>1. Then("record", WithId(run.p, "execution", n))
        BY <2>3
      <3>2. n \in Nat \ {0} /\ "execution" \in Own /\ "execution" = Product("onboard")
        BY BoundAssumption DEF TypeOK, Resources, Kinds, Own, Product
      <3>3. ~Kept("execution", run.p)
        BY <2>1 DEF Kept, Onboarded, Sold
      <3>4. Kept("execution", WithPhase(run.p, PhaseAfter(run.at, run.p.phase)))
        BY <1>1, <2>1 DEF Kept, Onboarded, WithPhase, PhaseAfter, Params
      <3> HIDE DEF n
      <3> QED BY <2>1, <2>3, <3>1, <3>2, <3>3, <3>4, WorksProduct
    <2> QED BY <1>14, <2>2, <2>3 DEF OnboardServices
  <1>15. CASE CheckOnboardStatus
    <2>1. /\ run.at = "checkOnboard" /\ run.at \in Steps /\ run.mode = "run"
          /\ UNCHANGED <<emails, faults, openTickets, made>> /\ OrderSame
      BY <1>2, <1>15 DEF CheckOnboardStatus, Steps
    <2>2. CASE HandleError
      BY <2>1, <2>2, WorksError
    <2>3. CASE Advance(run.p, run.fresh)
      <3>1. Runs(run.p, run.fresh) /\ Alike(run.p, run.p) /\ NotStored
        BY <2>1, <2>3, AdvanceRuns DEF Alike, NotStored, OrderSame, orderVars
      <3> QED BY <1>1, <2>1, <3>1 DEF Goes
    <2>4. CASE Then("save", run.p)
      BY <1>1, <2>1, <2>4, WorksNothing
    <2> QED BY <1>15, <2>2, <2>3, <2>4 DEF CheckOnboardStatus
  <1>16. CASE CreateSubscription
    <2>1. /\ run.at = "createSubscription" /\ run.at \in Steps /\ run.mode = "run"
          /\ run.p.phase = "createSubscription" /\ Editable
          /\ UNCHANGED <<emails, faults, openTickets>> /\ OrderSame /\ Then("save", run.p)
      BY <1>2, <1>16 DEF CreateSubscription, PhaseOf, Steps
    <2>2. PLS => run.p.roles = "yes"
      <3>1. HoldsIn(run.p, World)
        BY <2>1, SameClaims DEF IInv, RunClaims
      <3>2. run.p.roles # ""
        BY <2>1, <3>1 DEF HoldsIn, AnswersIn
      <3> QED BY <1>1, <1>16, <3>2 DEF CreateSubscription, PlsWithoutRoles, Params
    <2>3. \A kind \in Own : made'[kind] = made[kind]
      BY <1>16 DEF CreateSubscription, Made, TypeOK, Own, Resources, Kinds
    <2>4. run'.at = run.at /\ run'.fresh = run.fresh /\ run'.mode = "save" /\ run'.p = run.p
      BY <1>1, <2>1 DEF Then, RunType
    <2>5. NotStored
      BY <2>1 DEF NotStored, OrderSame, orderVars
    <2> QED BY <2>1, <2>2, <2>3, <2>4, <2>5 DEF Works
  <1>17. CASE ContractCardStep
    <2>1. /\ run.at = "contract" /\ run.at \in Steps /\ run.mode = "run"
          /\ UNCHANGED <<emails, faults, openTickets>> /\ OrderSame
      BY <1>2, <1>17 DEF ContractCardStep, Steps
    <2>2. CASE Then("save", run.p) /\ UNCHANGED made
      BY <1>1, <2>1, <2>2, WorksNothing
    <2>3. "contract" \in Own /\ "contract" = Product("contract") /\ 1 \in Nat \ {0}
      BY DEF Own, Kinds, Product
    <2>4. CASE /\ made["contract"] = 0 /\ CanMake("contract")
               /\ Then("save", WithId(run.p, "contract", 1)) /\ made' = Made("contract")
      BY <2>1, <2>3, <2>4, WorksProduct
    <2>5. CASE Then("save", WithId(run.p, "contract", 1)) /\ UNCHANGED made
      <3> DEFINE q == WithId(run.p, "contract", 1)
      <3>1. /\ q.phase = run.p.phase /\ q.errSent = run.p.errSent /\ q.roles = run.p.roles
            /\ q.id["contract"] = 1 /\ \A k \in Kinds \ {"contract"} : q.id[k] = run.p.id[k]
        BY <1>1, <2>3, Edits DEF Own
      <3>2. run'.at = run.at /\ run'.fresh = run.fresh /\ run'.mode = "save" /\ run'.p = q
        BY <1>1, <2>5 DEF Then, RunType
      <3> HIDE DEF q
      <3>3. NotStored
        BY <2>1 DEF NotStored, OrderSame, orderVars
      <3>4. \A k \in Kinds : run'.p.id[k] # run.p.id[k] =>
              k = Product(run.at) /\ run'.mode # "alert" /\ run'.p.id[k] # 0
        BY <2>1, <2>3, <3>1, <3>2
      <3> QED BY <2>1, <2>5, <3>1, <3>2, <3>3, <3>4 DEF Works
    <2> QED BY <1>17, <2>2, <2>4, <2>5 DEF ContractCardStep
  <1>18. CASE SWOJobStep
    <2>1. /\ run.at = "project" /\ run.at \in Steps /\ run.mode = "run"
          /\ UNCHANGED <<emails, faults, openTickets>> /\ OrderSame
      BY <1>2, <1>18 DEF SWOJobStep, Steps
    <2>2. CASE Then("save", run.p) /\ UNCHANGED made
      BY <1>1, <2>1, <2>2, WorksNothing
    <2>3. CASE /\ run.p.id["project"] = 0 /\ CanMake("project")
               /\ Then("save", WithId(run.p, "project", made["project"] + 1))
               /\ made' = Made("project")
      <3> DEFINE n == made["project"] + 1
      <3>1. Then("save", WithId(run.p, "project", n)) /\ ~Kept("project", run.p)
        BY <2>3 DEF Kept, Set
      <3>2. n \in Nat \ {0} /\ "project" \in Own /\ "project" = Product("project")
        BY BoundAssumption DEF TypeOK, Resources, Kinds, Own, Product
      <3> HIDE DEF n
      <3> QED BY <2>1, <2>3, <3>1, <3>2, WorksProduct
    <2> QED BY <1>18, <2>2, <2>3 DEF SWOJobStep
  <1>19. CASE UpdateAgreement
    <2>1. /\ run.at = "complete" /\ run.at \in Steps /\ run.mode = "run"
          /\ UNCHANGED <<emails, faults, openTickets, made>> /\ Then("save", run.p)
      BY <1>2, <1>19 DEF UpdateAgreement, Steps
    <2>2. run'.at = run.at /\ run'.fresh = run.fresh /\ run'.mode = "save" /\ run'.p = run.p
      BY <1>1, <2>1 DEF Then, RunType
    <2>3. NotStored
      BY <1>19 DEF UpdateAgreement, NotStored
    <2> QED BY <2>1, <2>2, <2>3 DEF Works
  <1>20. CASE CompleteOrder
    <2>1. /\ run.at = "complete" /\ run.at \in Steps /\ Close("Completed", run.p)
          /\ UNCHANGED <<emails, faults, openTickets, made>>
      BY <1>20 DEF CompleteOrder, Steps
    <2>2. Posted(run.at, run.p) = run.p
      BY <1>1, <2>1 DEF Posted, PhaseAfter, WithPhase, Params
    <2> QED BY <1>1, <2>1, <2>2, CloseWrites
  <1>21. CASE PostStep
    <2> DEFINE p == Posted(run.at, run.p)
    <2>1. /\ run.mode = "save" /\ run.at \in Steps
          /\ UNCHANGED <<status, emails, faults, openTickets, made>>
      BY <1>1, <1>21 DEF PostStep, RunOrigin, RunType
    <2>2. CASE Editable
      <3>1. p \in Params
        BY <1>1, PostedParams
      <3>2. p.id = run.p.id /\ p.errSent = run.p.errSent /\ p.roles = run.p.roles
            /\ p.phase = PhaseAfter(run.at, run.p.phase)
        BY <1>1, Edits DEF Posted
      <3>3. Rank[run.p.phase] <= Rank[PhaseAfter(run.at, run.p.phase)]
        BY <1>1, <2>1, PhaseAfterRank DEF RunInPhase
      <3>4. Store(p, run) /\ job' = Overtaken(job, p) /\ Runs(p, TRUE)
        BY <1>21, <2>2, AdvanceRuns DEF PostStep
      <3>5. StoresParams(p)
        BY <3>2, <3>3, <3>4 DEF StoresParams
      <3> QED BY <2>1, <2>2, <3>1, <3>4, <3>5 DEF Stores
    <2>3. CASE ~Editable
      BY <1>21, <2>1, <2>3 DEF PostStep, Stop, Stops, NotStored
    <2> QED BY <2>2, <2>3
  <1>22. CASE SaveInProcess
    <2>1. /\ run.mode \in {"record", "alert"} /\ run.at \in Steps
          /\ UNCHANGED <<status, emails, faults, openTickets, made>>
      BY <1>1, <1>22 DEF SaveInProcess, RunOrigin, RunType
    <2>2. CASE Editable
      <3>1. StoresParams(run.p)
        BY <1>1, <1>22, <2>2, RankSame DEF SaveInProcess, StoresParams
      <3> QED BY <1>1, <1>22, <2>1, <2>2, <3>1 DEF Stores, SaveInProcess
    <2>3. CASE ~Editable
      BY <1>22, <2>1, <2>3 DEF SaveInProcess, Stop, Stops, NotStored
    <2> QED BY <2>2, <2>3
  <1>23. CASE SendErrorEmail
    <2>1. Then("save", run.p) => run' = [run EXCEPT !.mode = "save"]
      BY <1>1 DEF Then, RunType
    <2> QED BY <1>23, <2>1 DEF SendErrorEmail, Mails, Stop, NotStored, OrderSame, orderVars
  <1>24. CASE StepFails
    BY <1>3, <1>24 DEF StepFails, Saving
  <1>25. CASE SaveFails \/ Restart
    BY <1>3, <1>25 DEF SaveFails, Restart, Fault
  <1> QED
    BY <1>4, <1>5, <1>6, <1>7, <1>8, <1>9, <1>10, <1>11, <1>12, <1>13, <1>14, <1>15,
       <1>16, <1>17, <1>18, <1>19, <1>20, <1>21, <1>22, <1>23, <1>24, <1>25
    DEF WorkerNext, WorkerStep

(* The cron job's context after a step, of what it holds.                   *)
LEMMA JobEdits ==
    ASSUME NEW c \in JobType
    PROVE  /\ c.p \in Params
           /\ \A point, p : /\ [c EXCEPT !.at = point, !.p = p].at = point
                            /\ [c EXCEPT !.at = point, !.p = p].p = p
                            /\ [c EXCEPT !.at = point, !.p = p].fresh = c.fresh
           /\ \A point, ph : /\ [c EXCEPT !.at = point, !.p.phase = ph].at = point
                             /\ [c EXCEPT !.at = point, !.p.phase = ph].p = WithPhase(c.p, ph)
                             /\ [c EXCEPT !.at = point, !.p.phase = ph].fresh = c.fresh
    BY DEF JobType, Params, WithPhase

(* Every step of the cron job is one of these.                              *)
LEMMA JobWrites ==
    ASSUME TypeOK, IInv, JobNext
    PROVE  FetchOrder \/ Looks \/ JobStores \/ JobStops
  <1> USE DEF JobKeep, JobSame, orderVars, awsVars, crmVars, alertVars, JobAt
  <1>1. job \in JobType /\ job.p \in Params /\ job.p.phase \in Phases
    BY DEF TypeOK, JobType, Params
  <1>2. ASSUME NEW point, NEW p, JobGoes(point, p)
        PROVE  job'.at = point /\ job'.p = p /\ job'.fresh = job.fresh
    BY <1>1, <1>2, JobEdits DEF JobGoes
  <1>3. CASE ProcessTransfer
    BY <1>2, <1>3 DEF ProcessTransfer, Looks
  <1>4. CASE ProcessHandshake
    <2>1. CASE JobGoes("process", job.p)
      BY <1>2, <1>4, <2>1 DEF ProcessHandshake, Looks
    <2>2. CASE JobGoes("savePhase", [job.p EXCEPT !.phase = "checkCustomerRoles"])
      <3>1. Moves(job.p.phase, "checkCustomerRoles") /\ "checkCustomerRoles" \in Phases
        BY <1>4 DEF ProcessHandshake, Moves, Phases
      <3>2. job'.p = WithPhase(job.p, "checkCustomerRoles")
        BY <1>2, <2>2 DEF WithPhase
      <3> QED BY <1>2, <1>4, <2>2, <3>1, <3>2 DEF ProcessHandshake, Looks
    <2> QED BY <1>4, <2>1, <2>2 DEF ProcessHandshake
  <1>5. CASE ProcessRoles
    <2>1. /\ job.at = "look" /\ job.p.phase = "checkCustomerRoles"
          /\ UNCHANGED <<status, params, run, lost, emails>>
      BY <1>5 DEF ProcessRoles
    <2>2. CASE JobGoes("process", job.p) /\ UNCHANGED <<crmVars, faults>>
      BY <1>2, <2>1, <2>2 DEF Looks
    <2>3. CASE RolesDeadline(job) /\ UNCHANGED <<crmVars, faults>>
      <3>1. CASE JobDone
        BY <2>1, <2>3, <3>1 DEF JobDone, JobStops
      <3>2. CASE job' = [job EXCEPT !.at = "savePhase", !.p.phase = "createSubscription"]
        <4>1. Moves(job.p.phase, "createSubscription") /\ "createSubscription" \in Phases
          BY <2>1 DEF Moves, Phases
        <4>2. /\ job'.p = WithPhase(job.p, "createSubscription") /\ job'.at = "savePhase"
              /\ job'.fresh = job.fresh
          BY <1>1, <3>2, JobEdits
        <4> QED BY <2>1, <2>3, <4>1, <4>2 DEF Looks
      <3> QED BY <2>3, <3>1, <3>2 DEF RolesDeadline
    <2>4. CASE /\ TicketDue /\ CanMake("rolesTicket") /\ made' = Made("rolesTicket")
               /\ LET n == made["rolesTicket"] + 1
                  IN  /\ openTickets' = openTickets \cup {n}
                      /\ \/ JobGoes("saveTicket", WithId(job.p, "rolesTicket", n))
                            /\ UNCHANGED faults
                         \/ JobGoes("saveTicket", WithId(job.p, "rolesTicket", 0)) /\ Fault
      <3> DEFINE n == made["rolesTicket"] + 1
      <3>1. n \in Ids /\ n \in 0..MaxMade /\ 0 \in 0..MaxMade
        BY <2>4, BoundAssumption DEF CanMake, Made, TypeOK, Ids, Resources, Kinds
      <3>2. \A kind \in Resources \ {"rolesTicket"} : made'[kind] = made[kind]
        BY <2>4 DEF Made, TypeOK
      <3>3. openTickets' = openTickets \cup {n} /\ job.p.id["rolesTicket"] \notin openTickets
        BY <2>4 DEF TicketDue
      <3>4. \/ JobGoes("saveTicket", WithId(job.p, "rolesTicket", n)) /\ faults' = faults
            \/ JobGoes("saveTicket", WithId(job.p, "rolesTicket", 0)) /\ faults' = faults + 1
        BY <2>4 DEF Fault
      <3> HIDE DEF n
      <3> QED BY <1>2, <2>1, <3>1, <3>2, <3>3, <3>4 DEF Looks
    <2> QED BY <1>5, <2>2, <2>3, <2>4 DEF ProcessRoles
  <1>6. CASE JobSaves
    <2>1. job.at \in {"saveTicket", "savePhase"}
          /\ UNCHANGED <<status, emails, openTickets, made, faults>>
      BY <1>6 DEF JobSaves
    <2>2. CASE ~Editable
      BY <1>6, <2>1, <2>2 DEF JobSaves, JobStops, JobDone, Editable
    <2>3. CASE Editable
      <3>1. Store(job.p, job) /\ run' = Overtaken(run, job.p) /\ AfterSave
        BY <1>6, <2>3 DEF JobSaves
      <3>2. /\ Refreshed \in JobType /\ Refreshed.p = job.p /\ Refreshed.fresh
        BY <1>1 DEF Refreshed, JobType, TypeOK
      <3>3. CASE job.at = "savePhase"
        <4>1. job' = [Refreshed EXCEPT !.at = "process"]
          BY <3>1, <3>3 DEF AfterSave
        <4>2. job'.at = "process" /\ job'.fresh /\ job'.p = job.p
          BY <3>2, <4>1 DEF JobType
        <4> QED BY <2>1, <2>3, <3>1, <3>3, <4>2 DEF JobStores
      <3>4. CASE job.at = "saveTicket" /\ job' = IdleJob
        BY <2>1, <2>3, <3>1, <3>4 DEF JobStores
      <3>5. CASE /\ job.at = "saveTicket"
                 /\ job' = [Refreshed EXCEPT !.at = "savePhase", !.p.phase = "createSubscription"]
        <4>1. /\ job'.at = "savePhase" /\ job'.fresh
              /\ job'.p = WithPhase(job.p, "createSubscription")
          BY <3>2, <3>5, JobEdits
        <4> QED BY <2>1, <2>3, <3>1, <3>5, <4>1 DEF JobStores
      <3> QED BY <2>1, <3>1, <3>3, <3>4, <3>5 DEF AfterSave, RolesDeadline, JobDone
    <2> QED BY <2>2, <2>3
  <1>7. CASE ProcessOrder
    BY <1>7 DEF ProcessOrder, JobDone, JobStores, JobStops, Editable
  <1>8. CASE NothingToDo
    BY <1>8 DEF NothingToDo, JobDone, JobStops
  <1>9. CASE JobFails
    BY <1>9 DEF JobFails, JobDone, JobStops, Fault
  <1> QED BY <1>3, <1>4, <1>5, <1>6, <1>7, <1>8, <1>9 DEF JobNext, JobStep

(* The customer resubmits, and the rest of the world stores nothing.        *)
LEMMA EnvironmentWrites ==
    ASSUME TypeOK, Environment
    PROVE  CustomerResubmits \/ (Elsewhere /\ UNCHANGED resubmits)
  <1> USE DEF EnvKeep, orderVars, awsVars, crmVars, alertVars
  <1>1. CASE DayPasses
    <2>1. job'.at = job.at /\ job'.p = job.p /\ job'.fresh = job.fresh
      BY <1>1 DEF DayPasses, TypeOK, JobType
    <2> QED BY <1>1, <2>1 DEF DayPasses, Elsewhere
  <1>2. CASE \/ TransferSettles \/ HandshakeSettles \/ RolesDeployed \/ OnboardingEnds
             \/ TicketResolved \/ OperatorFails
    BY <1>2 DEF TransferSettles, HandshakeSettles, RolesDeployed, OnboardingEnds,
        TicketResolved, OperatorFails, Elsewhere
  <1> QED BY <1>1, <1>2 DEF Environment

-----------------------------------------------------------------------------
(* What the steps keep, whatever they are.                                  *)

Writes == \/ Poll \/ Works \/ Stores \/ Stops \/ Goes \/ Mails
          \/ FetchOrder \/ Looks \/ JobStores \/ JobStops
          \/ CustomerResubmits \/ Elsewhere

LEMMA NextWrites ==
    ASSUME TypeOK, IInv, WInv, Next
    PROVE  Writes
    BY WorkerWrites, JobWrites, EnvironmentWrites DEF Next, WInv, Writes

(* Only the customer resubmits, and nobody changes what was ordered.        *)
LEMMA OrderKept ==
    ASSUME TypeOK, Next
    PROVE  /\ support' = support
           /\ resubmits' = resubmits \/ (CustomerResubmits /\ resubmits' = resubmits + 1)
  <1>1. CASE WorkerNext
    BY <1>1 DEF WorkerNext, WorkerStep, Poll, SetupContext, ValidateOrder, CreateTickets,
        CreateTicket, CreateNewAWSEnvironment, CreateBillingTransferInvitation,
        CheckBillingTransferInvitation, ConfigureAPNProgram, CreateChannelHandshake,
        CheckChannelHandshakeStatus, CheckCustomerRoles, OnboardServices, CheckOnboardStatus,
        CreateSubscription, ContractCardStep, SWOJobStep, UpdateAgreement, CompleteOrder,
        PostStep, SaveInProcess, SendErrorEmail, StepFails, SaveFails, Restart, Keep
  <1>2. CASE JobNext
    BY <1>2 DEF JobNext, JobStep, FetchOrder, ProcessTransfer, ProcessHandshake,
        ProcessRoles, JobSaves, ProcessOrder, NothingToDo, JobFails, JobKeep
  <1>3. CASE Environment
    BY <1>3, EnvironmentWrites DEF Environment, CustomerResubmits, TransferSettles,
        HandshakeSettles, RolesDeployed, OnboardingEnds, TicketResolved, OperatorFails,
        DayPasses, EnvKeep
  <1> QED BY <1>1, <1>2, <1>3 DEF Next

(* A stale write and a fault are never undone.                              *)
LEMMA WritesGrow ==
    ASSUME TypeOK, Writes
    PROVE  (lost => lost') /\ faults' \in {faults, faults + 1}
  <1>1. Poll => lost' = lost /\ faults' = faults
    BY DEF Poll, OrderSame
  <1>2. Works \/ Stops \/ Goes \/ Mails => lost' = lost /\ faults' \in {faults, faults + 1}
    BY DEF Works, Stops, Goes, Mails, NotStored
  <1>3. Stores => (lost => lost') /\ faults' = faults
    BY DEF Stores, StoresParams, Store
  <1>4. FetchOrder => lost' = lost /\ faults' = faults
    BY DEF FetchOrder, JobSame
  <1>5. Looks \/ JobStops => lost' = lost /\ faults' \in {faults, faults + 1}
    BY DEF Looks, JobStops
  <1>6. JobStores => (lost => lost') /\ faults' = faults
    BY DEF JobStores, Store
  <1>7. CustomerResubmits \/ Elsewhere => lost' = lost /\ faults' = faults
    BY DEF CustomerResubmits, Elsewhere, EnvKeep
  <1> QED BY <1>1, <1>2, <1>3, <1>4, <1>5, <1>6, <1>7 DEF Writes

(* A write that is not lost is of a fresh copy, or changes nothing.         *)
LEMMA StoreFresh ==
    ASSUME NEW p, NEW c, Store(p, c), ~lost'
    PROVE  params' = p /\ (c.fresh \/ p = params)
    BY DEF Store

(* A context that is overtaken is no longer fresh.                          *)
LEMMA OvertakenFresh ==
    ASSUME TypeOK, NEW p
    PROVE  /\ Overtaken(run, p).fresh => run.fresh /\ (run.at = "idle" \/ p = params)
           /\ Overtaken(job, p).fresh => job.fresh /\ (job.at = "idle" \/ p = params)
           /\ p = params => Overtaken(run, p) = run /\ Overtaken(job, p) = job
    BY DEF Overtaken, TypeOK, RunType, JobType

(* What the worker stores, and the copy it goes on with.                    *)
LEMMA StoresCopy ==
    ASSUME TypeOK, Stores
    PROVE  \E p \in Params :
              /\ StoresParams(p) /\ params' = p
              /\ \/ run' = IdleRun
                 \/ /\ run'.at \in Steps /\ run'.mode = "run" /\ run'.fresh
                    /\ Alike(p, run'.p) /\ InPhase(run'.at, run'.p)
                 \/ /\ run.mode \in {"record", "alert"} /\ p = run.p /\ run'.fresh
                    /\ run'.at = run.at /\ run'.p = run.p
                    /\ run'.mode = IF run.mode = "record" THEN "save" ELSE "email"
              /\ Saving => \/ p = Posted(run.at, run.p)
                           \/ run.mode = "record" /\ run'.at = run.at /\ run'.p = run.p
                              /\ run'.mode = "save"
  <1>1. run \in RunType /\ \A p : StoresParams(p) => params' = p
    BY DEF TypeOK, StoresParams, Store
  <1>2. ASSUME run' = [run EXCEPT !.mode = IF @ = "record" THEN "save" ELSE "email",
                                  !.fresh = TRUE]
        PROVE  /\ run'.at = run.at /\ run'.p = run.p /\ run'.fresh
               /\ run'.mode = IF run.mode = "record" THEN "save" ELSE "email"
    BY <1>1, <1>2 DEF RunType
  <1>3. PICK p \in Params :
          /\ StoresParams(p)
          /\ \/ run.mode = "save" /\ p = Posted(run.at, run.p) /\ Runs(p, TRUE)
             \/ /\ run.mode \in {"record", "alert"} /\ p = run.p
                /\ run' = [run EXCEPT !.mode = IF @ = "record" THEN "save" ELSE "email",
                                      !.fresh = TRUE]
             \/ run.mode = "run" /\ \E q \in Params : Alike(p, q) /\ Runs(q, TRUE)
             \/ (run.mode = "run" \/ p = Posted(run.at, run.p)) /\ run' = IdleRun
    BY DEF Stores
  <1>4. CASE run.mode = "save" /\ p = Posted(run.at, run.p) /\ Runs(p, TRUE)
    BY <1>1, <1>3, <1>4 DEF Runs, Alike
  <1>5. CASE /\ run.mode \in {"record", "alert"} /\ p = run.p
             /\ run' = [run EXCEPT !.mode = IF @ = "record" THEN "save" ELSE "email",
                                   !.fresh = TRUE]
    BY <1>1, <1>2, <1>3, <1>5 DEF Saving
  <1>6. CASE run.mode = "run" /\ \E q \in Params : Alike(p, q) /\ Runs(q, TRUE)
    BY <1>1, <1>3, <1>6 DEF Runs, Saving
  <1>7. CASE (run.mode = "run" \/ p = Posted(run.at, run.p)) /\ run' = IdleRun
    BY <1>1, <1>3, <1>7 DEF Saving
  <1> QED BY <1>3, <1>4, <1>5, <1>6, <1>7

(* The steps that leave the order and the cron job as they are.             *)
LEMMA OrderRests ==
    ASSUME Poll \/ Works \/ Stops \/ Goes \/ Mails
    PROVE  NotStored
    BY DEF Poll, Works, Stops, Goes, Mails, NotStored, OrderSame, orderVars

(* The steps that leave the order and the worker as they are.               *)
LEMMA RunRests ==
    ASSUME FetchOrder \/ Looks \/ JobStops \/ Elsewhere
    PROVE  UNCHANGED <<params, run, lost, emails>>
    BY DEF FetchOrder, Looks, JobStops, Elsewhere, JobSame, JobKeep, orderVars, alertVars

(* The cron job stores a copy that differs by what it has just done.        *)
LEMMA JobStoresCopy ==
    ASSUME TypeOK, JobView, JobStores, ~lost'
    PROVE  /\ params' = job.p /\ run' = Overtaken(run, job.p)
           /\ \A kind \in Own : params'.id[kind] = params.id[kind]
           /\ params'.errSent = params.errSent /\ params'.roles = params.roles
           /\ params'.phase = params.phase \/ Moves(params.phase, params'.phase)
           /\ job.at \in {"saveTicket", "savePhase", "process"}
  <1>1. /\ params' = job.p /\ run' = Overtaken(run, job.p)
        /\ job.fresh \/ job.p = params
        /\ job.at \in {"saveTicket", "savePhase", "process"}
    BY StoreFresh DEF JobStores
  <1> QED BY <1>1 DEF JobView

(* The customer's answer changes the account only.                          *)
LEMMA CustomerEdits ==
    ASSUME TypeOK, CustomerResubmits
    PROVE  /\ Alike(params', params) /\ status = "Querying" /\ status' = "Processing"
           /\ run' = Overtaken(run, params') /\ job' = Overtaken(job, params')
           /\ UNCHANGED <<lost, made, openTickets, emails, faults>>
    BY DEF CustomerResubmits, EnvKeep, crmVars, alertVars, TypeOK, Params, Alike

(* No product of a step is a ticket of the customer's roles.                *)
LEMMA ProductOwn ==
    ASSUME NEW s \in Steps
    PROVE  Product(s) # "rolesTicket"
    BY DEF Steps, Product

-----------------------------------------------------------------------------
(* What the worker's copy keeps.                                            *)
LEMMA RunViewKept ==
    ASSUME TypeOK, IInv, RunView, JobView, Writes, ~lost'
    PROVE  RunView'
  <1> USE DEF RunView
  <1>1. CASE Poll
    BY <1>1 DEF Poll, OrderSame, orderVars, Behind
  <1>2. CASE Works
    <2>1. UNCHANGED params /\ run.at # "idle" /\ ~Saving /\ run.mode # "alert"
      BY <1>2 DEF Works, NotStored, Steps, Saving
    <2>2. run'.at = run.at /\ run'.fresh = run.fresh /\ run'.p.phase = run.p.phase
      BY <1>2 DEF Works
    <2>3. \A kind \in Own : run'.p.id[kind] # params'.id[kind]
              => Saving' /\ kind = Product(run'.at) /\ run'.p.id[kind] # 0
      BY <1>2, <2>1, <2>2 DEF Works, Own, Saving
    <2>4. /\ run'.p.errSent # params'.errSent => run'.mode = "alert"
          /\ run'.p.roles # params'.roles => run'.at = "checkRoles" /\ run'.mode = "save"
      BY <1>2, <2>1, <2>2 DEF Works
    <2>5. run'.p.id["rolesTicket"] = run.p.id["rolesTicket"]
      BY <1>2, ProductOwn DEF Works, Kinds
    <2> QED BY <2>1, <2>2, <2>3, <2>4, <2>5
  <1>3. CASE Stores
    <2>1. PICK p \in Params :
            /\ params' = p
            /\ \/ run' = IdleRun
               \/ Alike(p, run'.p)
               \/ p = run.p /\ run'.p = run.p
      BY <1>3, StoresCopy
    <2>2. CASE run' = IdleRun
      BY <2>2 DEF IdleRun
    <2>3. CASE Alike(params', run'.p)
      BY <2>3 DEF Alike, Behind
    <2> QED BY <2>1, <2>2, <2>3 DEF Alike
  <1>4. CASE Stops
    BY <1>4 DEF Stops, IdleRun
  <1>5. CASE Goes
    <2>1. UNCHANGED params /\ run.at # "idle" /\ run.mode = "run"
      BY <1>5 DEF Goes, NotStored, Steps
    <2>2. run' = IdleRun \/ (Alike(run.p, run'.p) /\ run'.fresh = run.fresh)
      BY <1>5 DEF Goes, Runs
    <2> QED BY <2>1, <2>2 DEF Saving, Alike, IdleRun
  <1>6. CASE Mails
    <2>1. UNCHANGED params /\ run.at # "idle" /\ run.mode = "email"
      BY <1>6 DEF Mails, NotStored, IInv, RunOrigin
    <2>2. run' = IdleRun \/ (run'.p = run.p /\ run'.fresh = run.fresh)
      BY <1>6 DEF Mails, TypeOK, RunType
    <2> QED BY <2>1, <2>2 DEF Saving, IdleRun
  <1>7. CASE FetchOrder \/ Looks \/ JobStops \/ Elsewhere
    BY <1>7, RunRests DEF Saving
  <1>8. ASSUME run'.at = run.at, run'.mode = run.mode, run'.p = run.p,
               run'.fresh => run.fresh /\ (run.at = "idle" \/ params' = params),
               \A kind \in Own : params'.id[kind] = params.id[kind],
               params'.errSent = params.errSent, params'.roles = params.roles,
               params'.phase = params.phase \/ Moves(params.phase, params'.phase)
        PROVE  RunView'
    <2>1. run.at # "idle" => Behind(run.p.phase, params'.phase)
      BY <1>8 DEF Behind, Moves
    <2> QED BY <1>8, <2>1 DEF Saving
  <1>9. CASE JobStores
    BY <1>8, <1>9, JobStoresCopy, OvertakenSame, OvertakenFresh DEF TypeOK
  <1>10. CASE CustomerResubmits
    BY <1>8, <1>10, CustomerEdits, OvertakenSame, OvertakenFresh DEF TypeOK, Alike
  <1> QED BY <1>1, <1>2, <1>3, <1>4, <1>5, <1>6, <1>7, <1>9, <1>10 DEF Writes

(* What the cron job's copy keeps.                                          *)
LEMMA JobViewKept ==
    ASSUME TypeOK, IInv, RunView, JobView, Writes, ~lost'
    PROVE  JobView'
  <1> USE DEF JobView
  <1>1. CASE Poll \/ Works \/ Stops \/ Goes \/ Mails
    BY <1>1, OrderRests DEF NotStored
  <1>2. ASSUME job' = Overtaken(job, params'),
               params' = params \/ params'.id["rolesTicket"] = params.id["rolesTicket"]
        PROVE  JobView'
    <2>1. CASE params' = params
      BY <1>2, <2>1, OvertakenFresh
    <2>2. CASE params' # params /\ job.at # "idle"
      <3>1. job'.p = job.p /\ job'.at = job.at /\ ~job'.fresh
        BY <1>2, <2>2, OvertakenSame, OvertakenFresh DEF TypeOK
      <3> QED BY <1>2, <2>2, <3>1
    <2>3. CASE job.at = "idle"
      BY <1>2, <2>3, OvertakenSame DEF TypeOK
    <2> QED BY <2>1, <2>2, <2>3
  <1>3. CASE Stores
    <2>1. PICK p \in Params : Store(p, run) /\ job' = Overtaken(job, p) /\ p.id = run.p.id
      BY <1>3 DEF Stores, StoresParams
    <2>2. params' = p /\ (run.fresh \/ p = params) /\ run.at # "idle"
      BY <1>3, <2>1, StoreFresh DEF Stores, Steps
    <2> QED BY <1>2, <2>1, <2>2 DEF RunView
  <1>4. CASE FetchOrder
    BY <1>4 DEF FetchOrder, JobSame, orderVars
  <1>5. CASE Looks
    <2>1. UNCHANGED params /\ job'.fresh = job.fresh /\ job.at = "look"
      BY <1>5 DEF Looks
    <2>2. CASE job'.at = "process" /\ job'.p = job.p
      BY <2>1, <2>2
    <2>3. CASE /\ job'.at = "savePhase"
               /\ \E ph \in Phases : Moves(job.p.phase, ph) /\ job'.p = WithPhase(job.p, ph)
      <3>1. job.p \in Params
        BY DEF TypeOK, JobType
      <3>2. /\ job'.p.id = job.p.id /\ job'.p.errSent = job.p.errSent
            /\ job'.p.roles = job.p.roles /\ Moves(job.p.phase, job'.p.phase)
        BY <2>3, <3>1, Edits
      <3> QED BY <2>1, <2>3, <3>2
    <2>4. CASE /\ job'.at = "saveTicket"
               /\ \E m \in 0..MaxMade : job'.p = WithId(job.p, "rolesTicket", m)
      <3>1. job.p \in Params /\ "rolesTicket" \in Kinds
        BY DEF TypeOK, JobType, Kinds
      <3>2. /\ \A kind \in Own : job'.p.id[kind] = job.p.id[kind]
            /\ job'.p.errSent = job.p.errSent /\ job'.p.phase = job.p.phase
            /\ job'.p.roles = job.p.roles
        BY <2>4, <3>1, Edits DEF Own
      <3> QED BY <2>1, <2>4, <3>2
    <2> QED BY <1>5, <2>2, <2>3, <2>4 DEF Looks
  <1>6. CASE JobStores
    <2>1. job.p \in Params /\ params' = job.p
      BY <1>6, JobStoresCopy DEF TypeOK, JobType
    <2>2. CASE job' = IdleJob
      BY <2>2 DEF IdleJob
    <2>3. CASE /\ job.at = "saveTicket" /\ job'.at = "savePhase"
               /\ job'.p = WithPhase(job.p, "createSubscription")
      <3>1. /\ job'.p.id = job.p.id /\ job'.p.errSent = job.p.errSent
            /\ job'.p.roles = job.p.roles /\ job'.p.phase = "createSubscription"
        BY <2>1, <2>3, Edits
      <3>2. job.p.phase = "checkCustomerRoles"
        BY <2>3 DEF IInv, JobOrigin
      <3> QED BY <2>1, <2>3, <3>1, <3>2 DEF Moves
    <2>4. CASE job'.at = "process" /\ job'.p = job.p
      BY <2>1, <2>4
    <2> QED BY <1>6, <2>2, <2>3, <2>4 DEF JobStores
  <1>7. CASE JobStops
    BY <1>7 DEF JobStops, IdleJob
  <1>8. CASE Elsewhere
    BY <1>8 DEF Elsewhere
  <1>9. CASE CustomerResubmits
    BY <1>2, <1>9, CustomerEdits DEF Alike
  <1> QED BY <1>1, <1>3, <1>4, <1>5, <1>6, <1>7, <1>8, <1>9 DEF Writes

(* The error email and the flag that keeps it from being sent again.        *)
LEMMA MailKept ==
    ASSUME TypeOK, IInv, RunView, JobView, Mail, Writes, ~lost'
    PROVE  Mail'
  <1> USE DEF Mail
  <1>1. run.at = "idle" => run.mode = "run"
    BY DEF IInv, RunOrigin
  <1>2. CASE Poll
    BY <1>2 DEF Poll, OrderSame, orderVars, alertVars
  <1>3. CASE Works
    <2>1. UNCHANGED <<params, emails>> /\ run.at # "idle" /\ run.mode = "run"
      BY <1>3 DEF Works, NotStored, Steps
    <2>2. run.p.errSent = params.errSent
      BY <2>1 DEF RunView
    <2>3. run'.mode # "email"
          /\ (run'.mode = "alert" => ~run.p.errSent /\ run'.p.errSent)
      BY <1>3 DEF Works
    <2> QED BY <2>1, <2>2, <2>3 DEF TypeOK
  <1>4. CASE Stores
    <2>1. PICK p \in Params :
            /\ StoresParams(p) /\ params' = p
            /\ \/ run' = IdleRun
               \/ run'.mode = "run"
               \/ /\ run.mode \in {"record", "alert"} /\ p = run.p
                  /\ run'.at = run.at /\ run'.p = run.p
                  /\ run'.mode = IF run.mode = "record" THEN "save" ELSE "email"
      BY <1>4, StoresCopy
    <2>2. params'.errSent = run.p.errSent /\ emails' = emails /\ run.at # "idle"
      BY <1>4, <2>1 DEF StoresParams, Stores, Steps
    <2>3. emails > 0 => params'.errSent
      BY <2>2 DEF RunView
    <2>4. run'.mode # "alert"
      BY <2>1 DEF IdleRun
    <2>5. run'.mode = "email" => run.mode = "alert" /\ run'.p = run.p
      BY <2>1 DEF IdleRun
    <2> QED BY <2>2, <2>3, <2>4, <2>5
  <1>5. CASE Stops \/ Goes
    <2>1. UNCHANGED <<params, emails>>
      BY <1>5 DEF Stops, Goes, NotStored
    <2>2. run'.mode = "run"
      BY <1>5 DEF Stops, Goes, Runs, IdleRun
    <2> QED BY <2>1, <2>2
  <1>6. CASE Mails
    <2>1. /\ UNCHANGED params /\ emails' = emails + 1 /\ run.at # "idle"
          /\ emails = 0 /\ run.p.errSent /\ run.mode = "email"
      BY <1>1, <1>6 DEF Mails, NotStored
    <2>2. params.errSent
      BY <2>1 DEF RunView
    <2>3. run'.mode \in {"run", "save"}
      BY <1>6 DEF Mails, IdleRun, TypeOK, RunType
    <2> QED BY <2>1, <2>2, <2>3
  <1>7. CASE FetchOrder \/ Looks \/ JobStops \/ Elsewhere
    BY <1>7, RunRests
  <1>8. ASSUME run'.at = run.at, run'.mode = run.mode, run'.p = run.p,
               params'.errSent = params.errSent, UNCHANGED emails
        PROVE  Mail'
    BY <1>8
  <1>9. CASE JobStores
    <2>1. UNCHANGED emails
      BY <1>9 DEF JobStores
    <2> QED BY <1>8, <1>9, <2>1, JobStoresCopy, OvertakenSame DEF TypeOK
  <1>10. CASE CustomerResubmits
    BY <1>8, <1>10, CustomerEdits, OvertakenSame DEF TypeOK, Alike
  <1> QED BY <1>2, <1>3, <1>4, <1>5, <1>6, <1>7, <1>9, <1>10 DEF Writes

(* The sets of late phases are those of a rank.                             *)
LEMMA LatePhases ==
    ASSUME NEW a \in Phases
    PROVE  /\ a \in Transferred <=> Rank[a] >= 4
           /\ a \in Onboarded <=> Rank[a] >= 9
           /\ a \in {"createSubscription"} \cup Sold <=> Rank[a] >= 10
  <1> DEFINE Named == {"createAccount", "createBillingTransferInvitation",
                       "checkBillingTransferInvitation", "configureApnProgram",
                       "createChannelHandshake", "checkChannelHandshakeStatus",
                       "checkCustomerRoles", "onboardServices", "checkOnboardStatus",
                       "createSubscription", "projectCreation", "completed"}
  <1>1. a \in Named \/ (a \notin Transferred \cup Onboarded \cup Sold /\ Rank[a] = 0)
    <2>1. a = "" => Rank[a] = 0
      BY DEF Rank, Phases
    <2>2. a = "" => a \notin Transferred \cup Onboarded \cup Sold
      BY DEF Transferred, Invited, Onboarded, Sold
    <2>3. a = "" \/ a \in Named
      BY DEF Phases
    <2> QED BY <2>1, <2>2, <2>3
  <1>2. CASE a \notin Transferred \cup Onboarded \cup Sold /\ Rank[a] = 0
    BY <1>2 DEF Onboarded
  <1>3. CASE a \in Named
    <2>1. Transferred = Named \ {"createAccount", "createBillingTransferInvitation",
                                 "checkBillingTransferInvitation"}
      BY DEF Transferred, Invited, Phases
    <2> QED BY <1>3, <2>1, Ranks DEF Onboarded, Sold
  <1> QED BY <1>1, <1>2, <1>3

(* A subscription and what the order says since.                            *)
LEMMA SoldKept ==
    ASSUME TypeOK, TypeOK', IInv, RunInPhase, RunView, JobView, SoldIsPast, Writes,
           support' = support, ~lost'
    PROVE  SoldIsPast'
  <1> DEFINE Late == {"createSubscription"} \cup Sold
  <1>1. PLS' = PLS
    BY DEF PLS
  <1>2. SUFFICES ASSUME made'["subscription"] > 0
                 PROVE  params'.phase \in Late /\ (PLS => params'.roles = "yes")
                        /\ status' # "Failed"
    BY <1>1 DEF SoldIsPast
  <1>3. ASSUME made' = made, params' = params, status' = status
        PROVE  params'.phase \in Late /\ (PLS => params'.roles = "yes") /\ status' # "Failed"
    BY <1>2, <1>3 DEF SoldIsPast
  <1>4. CASE Poll \/ Stops \/ Goes \/ Mails
    BY <1>3, <1>4 DEF Poll, Stops, Goes, Mails, NotStored, OrderSame, WorldSame, orderVars,
        crmVars
  <1>5. CASE Works
    <2>1. UNCHANGED <<status, params>> /\ run.at # "idle" /\ run.mode = "run"
      BY <1>5 DEF Works, NotStored, Steps
    <2>2. CASE made'["subscription"] = made["subscription"]
      BY <1>2, <2>1, <2>2 DEF SoldIsPast
    <2>3. CASE made'["subscription"] # made["subscription"]
      <3>1. run.p.phase = "createSubscription" /\ (PLS => run.p.roles = "yes") /\ Editable
        BY <1>5, <2>3 DEF Works
      <3>2. params.phase = "createSubscription" /\ run.p.roles = params.roles
        BY <2>1, <3>1 DEF RunView, Behind
      <3> QED BY <2>1, <3>1, <3>2 DEF Editable
    <2> QED BY <2>2, <2>3
  <1>6. CASE Stores
    <2>1. PICK p \in Params :
            /\ StoresParams(p) /\ p = params'
            /\ status' = "Failed" =>
                  status = "Failed" \/ Rank[p.phase] < Rank["createSubscription"]
      BY <1>6 DEF Stores, StoresParams, Store
    <2>2. made' = made /\ run.at # "idle" /\ (run.fresh \/ p = params)
      BY <1>6, <2>1, StoreFresh DEF Stores, StoresParams, Steps
    <2>3. /\ params.phase \in Late /\ (PLS => params.roles = "yes") /\ status # "Failed"
          /\ params.phase \in Phases /\ p.phase \in Phases
      BY <1>2, <2>2 DEF SoldIsPast, TypeOK, Params
    <2>4. p.phase \in Late /\ (PLS => p.roles = "yes")
      <3>1. CASE p = params
        BY <2>3, <3>1
      <3>2. CASE run.fresh
        <4>1. run.p.phase = params.phase
          BY <2>2, <3>2 DEF RunView
        <4>2. p.phase \in Late
          <5>1. /\ Rank[params.phase] \in Nat /\ Rank[p.phase] \in Nat
                /\ Rank[params.phase] <= Rank[p.phase]
            BY <2>1, <2>3, <4>1, RankType DEF StoresParams
          <5>2. Rank[params.phase] >= 10
            BY <2>3, LatePhases
          <5> QED BY <2>3, <5>1, <5>2, LatePhases
        <4>3. p.roles = run.p.roles
          BY <2>1, <2>3, <4>1 DEF StoresParams, Sold
        <4>4. run.p.roles = params.roles
          <5>1. run.at # "checkRoles"
            BY <2>3, <4>1 DEF RunInPhase, InPhase, PhaseOf, Sold
          <5> QED BY <2>2, <5>1 DEF RunView
        <4> QED BY <2>3, <4>2, <4>3, <4>4
      <3> QED BY <2>2, <3>1, <3>2
    <2>5. status' # "Failed"
      <3>1. Rank[p.phase] >= 10
        BY <2>3, <2>4, LatePhases
      <3>2. Rank[p.phase] \in Nat /\ Rank["createSubscription"] = 10
        BY <2>3, RankType, Ranks
      <3> QED BY <2>1, <2>3, <3>1, <3>2
    <2> QED BY <2>1, <2>4, <2>5
  <1>7. CASE FetchOrder \/ JobStops
    BY <1>3, <1>7 DEF FetchOrder, JobStops, JobSame, orderVars, crmVars
  <1>8. CASE Looks
    <2>1. made'["subscription"] = made["subscription"]
      BY <1>8 DEF Looks, Resources
    <2> QED BY <1>2, <1>8, <2>1 DEF SoldIsPast, Looks
  <1>9. CASE JobStores
    <2>1. made' = made /\ status' \in {status, "Processing"}
      BY <1>9 DEF JobStores
    <2>2. params.phase \in Late
      BY <1>2, <2>1 DEF SoldIsPast
    <2> QED BY <1>2, <1>9, <2>1, <2>2, JobStoresCopy DEF SoldIsPast, Moves, Sold
  <1>10. CASE CustomerResubmits
    BY <1>2, <1>10, CustomerEdits DEF SoldIsPast, Alike
  <1>11. CASE Elsewhere
    <2>1. UNCHANGED <<made, params>> /\ (status' = status \/ OperatorFails)
      BY <1>11 DEF Elsewhere
    <2>2. ~OperatorFails
      BY <1>2, <2>1 DEF OperatorFails, PlsWithoutRoles, SoldIsPast
    <2> QED BY <1>3, <2>1, <2>2
  <1> QED BY <1>4, <1>5, <1>6, <1>7, <1>8, <1>9, <1>10, <1>11 DEF Writes

(* A copy that is further on keeps what is made.                            *)
LEMMA KeptOn ==
    ASSUME NEW p, NEW q, NEW kind \in Own,
           kind \notin {"group", "execution"} => (p.id[kind] # 0 => q.id[kind] # 0),
           kind = "group" => (p.phase \in Transferred => q.phase \in Transferred),
           kind = "execution" => (p.phase \in Onboarded => q.phase \in Onboarded),
           Kept(kind, p)
    PROVE  Kept(kind, q)
    BY DEF Kept, Set

(* Every resource is made once, and once more for each fault.               *)
LEMMA SpendingKept ==
    ASSUME TypeOK, TypeOK', IInv, RunInPhase, RunView, JobView, Spending, Writes, ~lost'
    PROVE  Spending'
  <1>1. /\ faults \in Nat /\ faults' \in Nat /\ faults' \in {faults, faults + 1}
        /\ \A kind \in Own : made[kind] \in Nat /\ made'[kind] \in Nat
    BY WritesGrow DEF TypeOK, Own, Resources
  <1>2. run.at = "idle" => run.mode = "run"
    BY DEF IInv, RunOrigin
  <1>3. ASSUME \A kind \in Own : /\ made'[kind] = made[kind]
                                 /\ Owned(kind) => Owned(kind)',
               Editable' \/ run'.at # "idle" => Editable \/ run.at # "idle"
        PROVE  Spending'
    BY <1>1, <1>3 DEF Spending
  <1>4. CASE Poll
    <2>1. /\ status = "Processing" /\ run.at = "idle" /\ UNCHANGED <<params, made>>
      BY <1>4 DEF Poll, OrderSame, orderVars, WorldSame, crmVars
    <2>2. \A kind \in Own : Owned(kind) => Owned(kind)'
      BY <1>2, <2>1 DEF Owned, Saving
    <2> QED BY <1>3, <2>1, <2>2 DEF Editable
  <1>5. CASE Works
    <2>1. /\ UNCHANGED params /\ run.at # "idle" /\ run.at \in Steps /\ run.mode = "run"
          /\ run'.at = run.at
      BY <1>5 DEF Works, NotStored, Steps
    <2>2. \A kind \in Own : Owned(kind) => Kept(kind, params)
      BY <2>1 DEF Owned, Saving
    <2> SUFFICES ASSUME NEW kind \in Own
                 PROVE  made'[kind] <= 1 + faults' /\ (~Owned(kind)' => made'[kind] <= faults')
      BY DEF Spending
    <2>3. CASE made'[kind] = made[kind]
      BY <1>1, <2>1, <2>2, <2>3 DEF Spending, Owned
    <2>4. CASE made'[kind] # made[kind]
      <3>1. /\ made'[kind] = made[kind] + 1 /\ kind = Product(run.at)
            /\ made[kind] = 0 \/ ~Kept(kind, run.p)
            /\ \/ faults' = faults + 1
               \/ run'.mode # "alert" /\ Kept(kind, Posted(run.at, run'.p))
        BY <1>5, <2>4 DEF Works
      <3>2. ~Kept(kind, run.p) => ~Kept(kind, params)
        <4>1. run.p.id[kind] = params.id[kind] /\ Behind(run.p.phase, params.phase)
          BY <2>1 DEF RunView, Saving
        <4>2. kind = "group" => (params.phase \in Transferred => run.p.phase \in Transferred)
          BY <4>1 DEF Behind, Transferred, Invited, Phases
        <4>3. kind = "execution" => params.phase = run.p.phase
          <5>1. kind = "execution" => run.at = "onboard"
            BY <2>1, <3>1 DEF Product, Steps
          <5>2. run.at = "onboard" => run.p.phase = "onboardServices"
            BY DEF RunInPhase, InPhase, PhaseOf
          <5> QED BY <4>1, <5>1, <5>2 DEF Behind
        <4> QED BY <4>1, <4>2, <4>3, KeptOn
      <3>3. made[kind] <= faults
        BY <1>1, <2>1, <2>2, <3>1, <3>2 DEF Spending
      <3>4. Owned(kind)' \/ faults' = faults + 1
        BY <1>5, <2>1, <3>1 DEF Works, Owned, Saving
      <3> QED BY <1>1, <3>1, <3>3, <3>4
    <2> QED BY <2>3, <2>4
  <1>6. CASE Stores
    <2>1. PICK p \in Params :
            /\ StoresParams(p) /\ params' = p
            /\ Saving => \/ p = Posted(run.at, run.p)
                         \/ run.mode = "record" /\ run'.at = run.at /\ run'.p = run.p
                            /\ run'.mode = "save"
      BY <1>6, StoresCopy
    <2>2. /\ Editable /\ made' = made /\ run.at # "idle"
          /\ run.fresh \/ p = params
          /\ p.phase \in Phases /\ params.phase \in Phases
      BY <1>6, <2>1, StoreFresh DEF Stores, StoresParams, Steps, TypeOK, Params
    <2> SUFFICES ASSUME NEW kind \in Own, Owned(kind)
                 PROVE  Owned(kind)'
      BY <1>3, <2>2
    <2>3. CASE Saving /\ Kept(kind, Posted(run.at, run.p))
      BY <2>1, <2>3 DEF Owned, Saving
    <2>4. CASE Kept(kind, params)
      <3>1. CASE p = params
        BY <2>1, <2>4, <3>1 DEF Owned
      <3>2. CASE run.fresh
        <4>1. /\ run.p.phase = params.phase
              /\ run.p.id[kind] = params.id[kind] \/ run.p.id[kind] # 0
              /\ p.id = run.p.id
          BY <2>1, <2>2, <3>2 DEF RunView, StoresParams
        <4>2. /\ Rank[params.phase] \in Nat /\ Rank[p.phase] \in Nat
              /\ Rank[params.phase] <= Rank[p.phase]
          BY <2>1, <2>2, <4>1, RankType DEF StoresParams
        <4>3. /\ params.phase \in Transferred => p.phase \in Transferred
              /\ params.phase \in Onboarded => p.phase \in Onboarded
          BY <2>2, <4>2, LatePhases
        <4> QED BY <2>1, <2>4, <4>1, <4>3, KeptOn DEF Owned
      <3> QED BY <2>2, <3>1, <3>2
    <2> QED BY <2>3, <2>4 DEF Owned
  <1>7. CASE Stops
    <2>1. /\ UNCHANGED <<status, params, made>> /\ run' = IdleRun
          /\ faults' = faults + 1 \/ ~Saving \/ ~Editable
      BY <1>7 DEF Stops, NotStored
    <2>2. run'.at = "idle" /\ Editable' = Editable
      BY <2>1 DEF IdleRun, Editable
    <2>3. CASE faults' = faults + 1
      BY <1>1, <2>1, <2>3 DEF Spending
    <2>4. CASE ~Saving \/ ~Editable
      BY <1>1, <2>1, <2>2, <2>4 DEF Spending, Owned
    <2> QED BY <2>1, <2>3, <2>4
  <1>8. CASE Goes \/ Mails
    <2>1. UNCHANGED <<params, made>> /\ run.at # "idle" /\ ~Saving
      BY <1>2, <1>8 DEF Goes, Mails, NotStored, Steps, Saving
    <2> QED BY <1>3, <2>1 DEF Owned
  <1>9. CASE FetchOrder \/ Looks \/ JobStops
    <2>1. UNCHANGED <<params, run, status>>
      BY <1>9, RunRests DEF FetchOrder, Looks, JobStops, JobSame, orderVars
    <2>2. \A kind \in Own : made'[kind] = made[kind]
      BY <1>9 DEF FetchOrder, Looks, JobStops, crmVars, Own, Resources
    <2>3. \A kind \in Own : Owned(kind) => Owned(kind)'
      BY <2>1 DEF Owned, Saving
    <2> QED BY <1>3, <2>1, <2>2, <2>3 DEF Editable
  <1>10. ASSUME Editable, made' = made,
                run'.at = run.at, run'.mode = run.mode, run'.p = run.p,
                \A kind \in Own : params'.id[kind] = params.id[kind],
                params'.phase = params.phase \/ Moves(params.phase, params'.phase)
         PROVE  Spending'
    <2>1. /\ params.phase \in Transferred => params'.phase \in Transferred
          /\ params.phase \in Onboarded => params'.phase \in Onboarded
      BY <1>10 DEF Moves, Transferred, Invited, Phases, Onboarded, Sold
    <2>2. \A kind \in Own : Kept(kind, params) => Kept(kind, params')
      BY <1>10, <2>1, KeptOn
    <2> QED BY <1>3, <1>10, <2>2 DEF Owned, Saving
  <1>11. CASE JobStores
    <2>1. Editable /\ made' = made
      BY <1>11 DEF JobStores
    <2> QED BY <1>10, <1>11, <2>1, JobStoresCopy, OvertakenSame DEF TypeOK
  <1>12. CASE CustomerResubmits
    <2>1. Editable /\ made' = made
      BY <1>12, CustomerEdits DEF Editable
    <2> QED BY <1>10, <1>12, <2>1, CustomerEdits, OvertakenSame DEF TypeOK, Alike
  <1>13. CASE Elsewhere
    <2>1. /\ UNCHANGED <<params, run, made>>
          /\ Editable' \/ run'.at # "idle" => Editable \/ run.at # "idle"
      BY <1>13 DEF Elsewhere, OperatorFails, Editable
    <2> QED BY <1>3, <2>1 DEF Owned, Saving
  <1> QED BY <1>4, <1>5, <1>6, <1>7, <1>8, <1>9, <1>11, <1>12, <1>13 DEF Writes

(* At most one ticket is open, and one more for each fault.                 *)
LEMMA TicketsKept ==
    ASSUME TypeOK, TypeOK', RunView, JobView, Tickets, Writes, ~lost'
    PROVE  Tickets'
  <1> DEFINE Count(S) == Cardinality(S)
  <1>1. /\ faults \in Nat /\ faults' \in Nat /\ faults' \in {faults, faults + 1}
        /\ openTickets \subseteq Ids /\ openTickets' \subseteq Ids
    BY WritesGrow DEF TypeOK
  <1>2. IsFiniteSet(Ids)
    BY BoundAssumption, FS_Interval DEF Ids
  <1>3. \A S \in SUBSET Ids, R \in SUBSET Ids :
            S \subseteq R => Count(S) \in Nat /\ Count(R) \in Nat /\ Count(S) <= Count(R)
    <2> TAKE S \in SUBSET Ids, R \in SUBSET Ids
    <2>1. IsFiniteSet(S) /\ IsFiniteSet(R)
      BY <1>2, FS_Subset
    <2> QED BY <2>1, FS_Subset, FS_CardinalityType
  <1>4. ASSUME openTickets' \subseteq openTickets,
               \/ faults' = faults + 1
               \/ Editable' \/ job'.at # "idle" =>
                     (Editable \/ job.at # "idle") /\ Ticket' = Ticket
        PROVE  Tickets'
    <2>1. Count(openTickets') <= Count(openTickets) /\ Count(openTickets') \in Nat
          /\ Count(openTickets) \in Nat
      BY <1>1, <1>3, <1>4
    <2>2. CASE faults' = faults + 1
      <3>1. Count(openTickets' \ {Ticket'}) <= Count(openTickets')
            /\ Count(openTickets' \ {Ticket'}) \in Nat
        BY <1>1, <1>3
      <3> QED BY <1>1, <2>1, <2>2, <3>1 DEF Tickets
    <2>3. CASE Editable' \/ job'.at # "idle" =>
                  (Editable \/ job.at # "idle") /\ Ticket' = Ticket
      <3>1. Count(openTickets' \ {Ticket}) <= Count(openTickets \ {Ticket})
            /\ Count(openTickets' \ {Ticket}) \in Nat /\ Count(openTickets \ {Ticket}) \in Nat
        BY <1>1, <1>3, <1>4
      <3>2. Count(openTickets') <= 1 + faults'
        BY <1>1, <2>1 DEF Tickets
      <3>3. ASSUME Editable' \/ job'.at # "idle"
            PROVE  Count(openTickets' \ {Ticket'}) <= faults'
        <4>1. Ticket' = Ticket /\ Count(openTickets \ {Ticket}) <= faults
          BY <2>3, <3>3 DEF Tickets
        <4> QED BY <1>1, <3>1, <4>1
      <3> QED BY <3>2, <3>3 DEF Tickets
    <2> QED BY <1>4, <2>2, <2>3
  <1>5. CASE Poll \/ Works \/ Stops \/ Goes \/ Mails
    <2>1. NotStored /\ openTickets' = openTickets
      BY <1>5, OrderRests DEF Poll, Works, Stops, Goes, Mails, WorldSame, crmVars
    <2> QED BY <1>4, <2>1 DEF NotStored, Editable, Ticket
  <1>6. CASE Stores
    <2>1. PICK p \in Params : Store(p, run) /\ job' = Overtaken(job, p) /\ p.id = run.p.id
      BY <1>6 DEF Stores, StoresParams
    <2>2. /\ params' = p /\ (run.fresh \/ p = params) /\ run.at # "idle"
          /\ Editable /\ openTickets' = openTickets
      BY <1>6, <2>1, StoreFresh DEF Stores, Steps
    <2>3. params'.id["rolesTicket"] = params.id["rolesTicket"]
      BY <2>1, <2>2 DEF RunView
    <2>4. job'.at = job.at /\ job'.p = job.p
      BY <2>1, OvertakenSame DEF TypeOK
    <2> QED BY <1>4, <2>2, <2>3, <2>4 DEF Ticket
  <1>7. CASE FetchOrder
    <2>1. /\ status = "Querying" /\ job.at = "idle" /\ job'.at = "look"
          /\ UNCHANGED <<params, openTickets>>
      BY <1>7 DEF FetchOrder, Fetched, JobAt, JobSame, orderVars, crmVars
    <2> QED BY <1>4, <2>1 DEF Ticket, Editable
  <1>8. CASE Looks
    <2>1. job.at = "look" /\ UNCHANGED <<status, params>>
      BY <1>8 DEF Looks
    <2>2. CASE job'.at \in {"process", "savePhase"} /\ openTickets' = openTickets
      BY <1>4, <2>1, <2>2 DEF Ticket
    <2>3. CASE job'.at = "saveTicket"
      <3>1. PICK n \in Ids, m \in 0..MaxMade :
              /\ openTickets' = openTickets \cup {n}
              /\ job'.p = WithId(job.p, "rolesTicket", m)
              /\ m = n \/ faults' = faults + 1
        BY <1>8, <2>3 DEF Looks
      <3>2. /\ job.p.id["rolesTicket"] \notin openTickets
            /\ job.p.id["rolesTicket"] = params.id["rolesTicket"]
        BY <1>8, <2>1, <2>3 DEF Looks, JobView
      <3>3. openTickets \ {Ticket} = openTickets
        BY <2>1, <3>2 DEF Ticket
      <3>4. Count(openTickets) <= faults
        BY <2>1, <3>3 DEF Tickets
      <3>5. Count(openTickets') <= Count(openTickets) + 1 /\ Count(openTickets) \in Nat
            /\ Count(openTickets') \in Nat
        <4>1. IsFiniteSet(openTickets)
          BY <1>1, <1>2, FS_Subset
        <4>2. /\ n \in openTickets => openTickets' = openTickets
              /\ n \notin openTickets => Count(openTickets') = Count(openTickets) + 1
          BY <3>1, <4>1, FS_AddElement
        <4> QED BY <1>1, <1>3, <4>2
      <3>6. Ticket' = m
        <4>1. job.p \in Params /\ "rolesTicket" \in Kinds
          BY DEF TypeOK, JobType, Kinds
        <4> QED BY <2>3, <3>1, <4>1, Edits DEF Ticket
      <3>7. Count(openTickets' \ {Ticket'}) <= faults'
        <4>1. CASE m = n
          <5>1. /\ Count(openTickets' \ {Ticket'}) <= Count(openTickets)
                /\ Count(openTickets' \ {Ticket'}) \in Nat
            BY <1>1, <1>3, <3>1, <3>6, <4>1
          <5> QED BY <1>1, <3>4, <3>5, <5>1
        <4>2. CASE faults' = faults + 1
          <5>1. /\ Count(openTickets' \ {Ticket'}) <= Count(openTickets')
                /\ Count(openTickets' \ {Ticket'}) \in Nat
            BY <1>1, <1>3
          <5> QED BY <1>1, <3>4, <3>5, <4>2, <5>1
        <4> QED BY <3>1, <4>1, <4>2
      <3> QED BY <1>1, <3>4, <3>5, <3>7 DEF Tickets
    <2> QED BY <1>8, <2>2, <2>3 DEF Looks
  <1>9. CASE JobStores
    <2>1. Editable /\ openTickets' = openTickets /\ params' = job.p
          /\ job.at \in {"saveTicket", "savePhase", "process"}
      BY <1>9, JobStoresCopy DEF JobStores
    <2>2. job'.at # "saveTicket"
      BY <1>9 DEF JobStores, IdleJob
    <2> QED BY <1>4, <2>1, <2>2 DEF Ticket, JobView
  <1>10. CASE JobStops
    <2>1. /\ job'.at = "idle" /\ UNCHANGED <<status, params, openTickets>>
          /\ \/ faults' = faults + 1
             \/ job.at # "saveTicket" \/ ~Editable
      BY <1>10 DEF JobStops, IdleJob
    <2> QED BY <1>4, <2>1 DEF Ticket, Editable
  <1>11. CASE CustomerResubmits
    <2>1. job'.at = job.at /\ job'.p = job.p /\ params'.id = params.id /\ Editable
          /\ openTickets' = openTickets
      BY <1>11, CustomerEdits, OvertakenSame DEF TypeOK, Alike, Editable
    <2> QED BY <1>4, <2>1 DEF Ticket
  <1>12. CASE Elsewhere
    <2>1. /\ job'.at = job.at /\ job'.p = job.p /\ params' = params
          /\ Editable' => Editable
      BY <1>12 DEF Elsewhere, OperatorFails, Editable
    <2> QED BY <1>4, <1>12, <2>1 DEF Ticket, Elsewhere
  <1> QED BY <1>5, <1>6, <1>7, <1>8, <1>9, <1>10, <1>11, <1>12 DEF Writes

(* The worker lets go of an order that is to wait.                          *)
LEMMA WaitingKept ==
    ASSUME TypeOK, IInv, Waiting, RunInPhase, Writes
    PROVE  Waiting' /\ RunInPhase'
  <1> USE DEF Waiting, RunInPhase
  <1>1. /\ InPhase(IdleRun.at, IdleRun.p) /\ IdleRun.at = "idle"
        /\ run.at = "idle" => run.mode = "run"
    BY DEF IInv, RunOrigin, IdleRun, InPhase, PhaseOf
  <1>2. CASE Poll
    BY <1>2 DEF Poll, OrderSame, orderVars, InPhase, PhaseOf
  <1>3. CASE Works
    BY <1>3 DEF Works, NotStored, Steps, InPhase
  <1>4. CASE Stores
    <2>1. run.at # "idle" /\ (run' = IdleRun \/ status' = status)
      BY <1>4 DEF Stores, Steps
    <2>2. \/ run' = IdleRun \/ InPhase(run'.at, run'.p)
          \/ run'.at = run.at /\ run'.p = run.p
      BY <1>4, StoresCopy
    <2> QED BY <1>1, <2>1, <2>2
  <1>5. CASE Stops \/ Goes
    BY <1>1, <1>5 DEF Stops, Goes, Runs, NotStored, Steps, InPhase, Alike
  <1>6. CASE Mails
    <2>1. run.at # "idle" /\ status' = status
      BY <1>1, <1>6 DEF Mails, NotStored
    <2>2. run' = IdleRun \/ (run'.at = run.at /\ run'.p = run.p)
      BY <1>6 DEF Mails, TypeOK, RunType
    <2> QED BY <1>1, <2>1, <2>2
  <1>7. CASE FetchOrder \/ Looks \/ JobStops \/ Elsewhere
    <2>1. UNCHANGED run /\ (status' = "Querying" => status = "Querying")
      BY <1>7, RunRests DEF FetchOrder, Looks, JobStops, Elsewhere, JobSame, orderVars,
          OperatorFails
    <2> QED BY <2>1
  <1>8. CASE JobStores \/ CustomerResubmits
    <2>1. /\ \E p : run' = Overtaken(run, p)
          /\ status' = "Querying" => status = "Querying"
      BY <1>8, CustomerEdits DEF JobStores
    <2>2. run'.at = run.at /\ run'.p = run.p
      BY <2>1, OvertakenSame DEF TypeOK
    <2> QED BY <2>1, <2>2
  <1> QED BY <1>2, <1>3, <1>4, <1>5, <1>6, <1>7, <1>8 DEF Writes

(* Without the customer the worker and the cron job do not meet.            *)
LEMMA TurnsKept ==
    ASSUME TypeOK, Next, IInv, Waiting, TakeTurns, Writes
    PROVE  TakeTurns'
  <1>1. SUFFICES ASSUME resubmits' = 0
                 PROVE  /\ ~lost' /\ run'.fresh /\ job'.fresh
                        /\ job'.at # "idle" => status' = "Querying"
    BY DEF TakeTurns
  <1>2. resubmits = 0 /\ ~CustomerResubmits
    BY <1>1, OrderKept DEF TypeOK, CustomerResubmits
  <1>3. /\ ~lost /\ run.fresh /\ job.fresh
        /\ job.at # "idle" => status = "Querying" /\ run.at = "idle"
    BY <1>2 DEF TakeTurns, Waiting
  <1>4. IdleRun.fresh /\ IdleJob.fresh /\ IdleJob.at = "idle"
    BY DEF IdleRun, IdleJob
  <1>5. CASE Poll \/ Works \/ Stops \/ Goes \/ Mails
    <2>1. UNCHANGED <<status, job, lost>>
      BY <1>5, OrderRests DEF NotStored
    <2>2. Poll \/ Stops => run'.fresh
      BY <1>4 DEF Poll, Stops
    <2>3. Works \/ Goes \/ Mails => run'.fresh = run.fresh \/ run' = IdleRun
      BY DEF Works, Goes, Mails, Runs, TypeOK, RunType
    <2> QED BY <1>3, <1>4, <1>5, <2>1, <2>2, <2>3
  <1>6. CASE Stores
    <2>1. PICK p \in Params :
            /\ StoresParams(p)
            /\ run' = IdleRun \/ run'.fresh
      BY <1>6, StoresCopy
    <2>2. run.at # "idle"
      BY <1>6 DEF Stores, Steps
    <2>3. ~lost' /\ job' = job
      BY <1>3, <2>1, <2>2 DEF StoresParams, Store, Overtaken
    <2> QED BY <1>3, <1>4, <2>1, <2>2, <2>3
  <1>7. CASE FetchOrder
    BY <1>3, <1>7 DEF FetchOrder, Fetched, JobSame, orderVars
  <1>8. CASE Looks \/ JobStops
    <2>1. /\ UNCHANGED <<status, run, lost>>
          /\ job' = IdleJob \/ (job.at # "idle" /\ job'.fresh = job.fresh)
      BY <1>8, RunRests DEF Looks, JobStops
    <2> QED BY <1>3, <1>4, <2>1
  <1>9. CASE JobStores
    <2>1. job.at # "idle"
      BY <1>9 DEF JobStores
    <2>2. run' = run /\ ~lost'
      BY <1>3, <1>9, <2>1 DEF JobStores, Store, Overtaken
    <2>3. job'.fresh /\ (job'.at # "idle" => status' = status)
      BY <1>4, <1>9 DEF JobStores
    <2> QED BY <1>3, <2>1, <2>2, <2>3
  <1>10. CASE Elsewhere
    BY <1>3, <1>10 DEF Elsewhere, OperatorFails
  <1> QED BY <1>2, <1>5, <1>6, <1>7, <1>8, <1>9, <1>10 DEF Writes

(* Without the customer and without a fault an order that waits is watched. *)
LEMMA WatchedKept ==
    ASSUME TypeOK, Next, IInv, Waiting, QueryingIsWatched, Writes
    PROVE  QueryingIsWatched'
  <1> DEFINE Watched(p, j) == p.phase \in JobPhases \/ p.mpaErr \/ j.at = "process"
  <1>1. SUFFICES ASSUME status' = "Querying", faults' = 0, resubmits' = 0
                 PROVE  Watched(params', job')
    BY DEF QueryingIsWatched
  <1>2. /\ faults = 0 /\ resubmits = 0 /\ ~CustomerResubmits
        /\ status = "Querying" => Watched(params, job) /\ run.at = "idle"
    BY <1>1, OrderKept, WritesGrow DEF TypeOK, CustomerResubmits, QueryingIsWatched, Waiting
  <1>3. run.at = "idle" => run.mode = "run"
    BY DEF IInv, RunOrigin
  <1>4. CASE Poll \/ Works \/ Stops \/ Goes \/ Mails
    <2>1. UNCHANGED <<status, params, job>>
      BY <1>4, OrderRests DEF NotStored
    <2> QED BY <1>1, <1>2, <2>1
  <1>5. CASE Stores
    <2>1. status # "Querying"
      BY <1>2, <1>5 DEF Stores, Steps
    <2> QED BY <1>1, <1>5, <2>1 DEF Stores, StoresParams, Store
  <1>6. CASE FetchOrder
    BY <1>6 DEF FetchOrder, JobSame, orderVars
  <1>7. CASE Looks \/ JobStops
    <2>1. UNCHANGED <<status, params>> /\ job.at # "process"
      BY <1>1, <1>2, <1>7 DEF Looks, JobStops
    <2> QED BY <1>1, <1>2, <2>1
  <1>8. CASE JobStores
    <2>1. job.at = "saveTicket" => params'.phase = "checkCustomerRoles"
      BY <1>8 DEF JobStores, Store, IInv, JobOrigin
    <2> QED BY <1>1, <1>8, <2>1 DEF JobStores, JobPhases
  <1>9. CASE Elsewhere
    BY <1>1, <1>2, <1>9 DEF Elsewhere, OperatorFails
  <1> QED BY <1>2, <1>4, <1>5, <1>6, <1>7, <1>8, <1>9 DEF Writes

-----------------------------------------------------------------------------
(* The invariant is inductive.                                              *)
LEMMA InitWrites == Init => WInv
  <1> SUFFICES ASSUME Init PROVE WInv
    OBVIOUS
  <1>1. /\ run = IdleRun /\ job = IdleJob /\ emails = 0 /\ status = "Processing"
        /\ ~lost /\ faults = 0 /\ openTickets = {}
        /\ \A kind \in Resources : made[kind] = 0
    BY DEF Init
  <1>2. /\ IdleRun.at = "idle" /\ IdleRun.mode = "run" /\ IdleRun.fresh
        /\ IdleJob.at = "idle" /\ IdleJob.fresh
    BY DEF IdleRun, IdleJob
  <1>3. Waiting /\ TakeTurns /\ QueryingIsWatched
    BY <1>1, <1>2 DEF Waiting, TakeTurns, QueryingIsWatched
  <1>4. RunInPhase
    BY <1>1, <1>2 DEF RunInPhase, InPhase, PhaseOf
  <1>5. RunView /\ JobView /\ Mail /\ SoldIsPast
    BY <1>1, <1>2 DEF RunView, JobView, Mail, SoldIsPast, Resources
  <1>6. Spending
    BY <1>1 DEF Spending, Own, Resources
  <1>7. Tickets
    <2>1. Cardinality({}) = 0
      BY FS_EmptySet
    <2>2. {} \ {Ticket} = {}
      OBVIOUS
    <2> QED BY <1>1, <2>1, <2>2 DEF Tickets
  <1> QED BY <1>3, <1>4, <1>5, <1>6, <1>7 DEF WInv, InStep

LEMMA StepWrites ==
    ASSUME TypeOK, IInv, WInv, Next
    PROVE  WInv'
  <1>1. Writes /\ TypeOK'
    BY NextWrites, TypesKept
  <1>2. Waiting' /\ RunInPhase' /\ TakeTurns' /\ QueryingIsWatched'
    BY <1>1, WaitingKept, TurnsKept, WatchedKept DEF WInv
  <1>3. ASSUME ~lost' PROVE InStep'
    <2>1. ~lost /\ RunView /\ JobView /\ Mail /\ SoldIsPast /\ Spending /\ Tickets
      BY <1>1, <1>3, WritesGrow DEF WInv, InStep
    <2>2. RunView' /\ JobView' /\ Mail'
      BY <1>1, <1>3, <2>1, RunViewKept, JobViewKept, MailKept
    <2>3. SoldIsPast' /\ Spending' /\ Tickets'
      BY <1>1, <1>3, <2>1, OrderKept, SoldKept, SpendingKept, TicketsKept DEF WInv
    <2> QED BY <2>2, <2>3 DEF InStep
  <1> QED BY <1>2, <1>3 DEF WInv

LEMMA StutterWrites ==
    ASSUME WInv, UNCHANGED vars
    PROVE  WInv'
  <1> USE DEF vars, orderVars, awsVars, crmVars, alertVars
  <1>1. Waiting' /\ RunInPhase' /\ TakeTurns' /\ QueryingIsWatched'
    BY DEF WInv, Waiting, RunInPhase, TakeTurns, QueryingIsWatched, InPhase
  <1>2. RunView => RunView'
    BY DEF RunView, Saving
  <1>3. JobView => JobView'
    BY DEF JobView
  <1>4. (Mail => Mail') /\ (SoldIsPast => SoldIsPast')
    BY DEF Mail, SoldIsPast, PLS
  <1>5. Spending => Spending'
    BY DEF Spending, Owned, Saving, Editable
  <1>6. Tickets => Tickets'
    BY DEF Tickets, Ticket, Editable
  <1> QED BY <1>1, <1>2, <1>3, <1>4, <1>5, <1>6 DEF WInv, InStep

(* The inductive invariant holds throughout.                                *)
THEOREM WritesInvariant == Spec => [](TypeOK /\ IInv /\ WInv)
  <1>1. Init => WInv
    BY InitWrites
  <1>2. (TypeOK /\ IInv) /\ WInv /\ [Next]_vars => WInv'
    BY StepWrites, StutterWrites
  <1> QED BY <1>1, <1>2, Invariant, PTL DEF Spec

-----------------------------------------------------------------------------
(* The worker and the cron job overwrite each other's parameters only after *)
(* the customer has put a Querying order back to Processing while the job   *)
(* holds a copy of it: without that the two never hold the order together.  *)
THEOREM StaleNeedsCustomer == Spec => []StaleWriteNeedsCustomer
  <1>1. TypeOK /\ WInv => StaleWriteNeedsCustomer
    BY DEF WInv, TakeTurns, StaleWriteNeedsCustomer, TypeOK
  <1> QED BY <1>1, WritesInvariant, PTL

(* Until a stale copy replaces newer parameters the deployment error email  *)
(* of handle_error is sent at most once, over retries, errors of two steps, *)
(* failed saves and restarts: it is sent with the flag stored before.       *)
THEOREM OneEmail == Spec => []OneErrorEmail
  <1>1. WInv => OneErrorEmail
    BY DEF WInv, InStep, Mail, OneErrorEmail
  <1> QED BY <1>1, WritesInvariant, PTL

(* Nothing has been sold to an order that failed, until a stale copy        *)
(* replaces newer parameters: the steps and the operator that fail an order *)
(* meet it before CreateSubscription does.                                  *)
THEOREM FailedNotSold == Spec => []FailedIsNotSold
  <1>1. TypeOK /\ WInv => FailedIsNotSold
    BY DEF WInv, InStep, SoldIsPast, FailedIsNotSold, TypeOK, Resources
  <1> QED BY <1>1, WritesInvariant, PTL

(* Without a fault and without the customer's race an order is Querying     *)
(* only in a phase a processor of the cron job takes, with an error the     *)
(* customer is shown, or with the job about to move it.                     *)
THEOREM Watched == Spec => []QueryingIsWatched
  <1>1. WInv => QueryingIsWatched
    BY DEF WInv
  <1> QED BY <1>1, WritesInvariant, PTL

(* Each step's resource is made once, and once more for each crash, failed  *)
(* save or reply without an id; open role tickets likewise. A step looks    *)
(* for what the parameters record before it calls the service.              *)
THEOREM OneResource == Spec => []OneResourceWithoutFault
  <1>1. WInv => OneResourceWithoutFault
    BY DEF WInv, InStep, Spending, Tickets, Own, OneResourceWithoutFault
  <1> QED BY <1>1, WritesInvariant, PTL

(* The stored phase never goes back until a stale copy replaces newer       *)
(* parameters: post_step and the cron job's timeouts only move it forward.  *)
THEOREM PhaseAdvances == Spec => PhaseOnlyAdvances
  <1> DEFINE Forward == ~lost' => Rank[params.phase] <= Rank[params'.phase]
  <1>1. TypeOK /\ IInv /\ WInv /\ Next => Forward
    <2> SUFFICES ASSUME TypeOK, IInv, WInv, Next, ~lost'
                 PROVE  Rank[params.phase] <= Rank[params'.phase]
      OBVIOUS
    <2>1. Writes /\ ~lost /\ RunView /\ JobView /\ params.phase \in Phases
      BY NextWrites, WritesGrow DEF WInv, InStep, TypeOK, Params
    <2>2. CASE params'.phase = params.phase
      BY <2>1, <2>2, RankSame
    <2>3. CASE Stores
      <3>1. PICK p \in Params : StoresParams(p) /\ params' = p /\ (run.fresh \/ p = params)
        BY <2>3, StoresCopy, StoreFresh DEF StoresParams
      <3>2. CASE run.fresh
        <4>1. run.p.phase = params.phase
          BY <2>1, <2>3, <3>2 DEF RunView, Stores, Steps
        <4> QED BY <3>1, <4>1 DEF StoresParams
      <3> QED BY <2>1, <2>2, <3>1, <3>2
    <2>4. CASE JobStores
      <3>1. params'.phase = params.phase \/ Moves(params.phase, params'.phase)
        BY <2>1, <2>4, JobStoresCopy
      <3> QED BY <2>2, <3>1, Ranks DEF Moves
    <2>5. CASE CustomerResubmits
      BY <2>2, <2>5, CustomerEdits DEF Alike
    <2>6. CASE ~Stores /\ ~JobStores /\ ~CustomerResubmits
      BY <2>1, <2>2, <2>6, OrderRests, RunRests DEF Writes, NotStored
    <2> QED BY <2>3, <2>4, <2>5, <2>6
  <1>2. TypeOK /\ UNCHANGED vars => Forward
    BY RankSame DEF TypeOK, Params, vars, orderVars
  <1>3. TypeOK /\ IInv /\ WInv /\ [Next]_vars => [Forward]_vars
    BY <1>1
  <1>4. PhaseOnlyAdvances <=> [][Forward]_vars
    BY DEF PhaseOnlyAdvances
  <1> QED BY <1>3, <1>4, WritesInvariant, PTL DEF Spec
==============================================================================
