----------------------------- MODULE FinOpsSystem -----------------------------
(***************************************************************************)
(* The FinOps job, the worker in the entitlement step of a termination     *)
(* order, the customer, AWS and FFC, and what must be true of them.        *)
(***************************************************************************)
EXTENDS FinOpsSync
OrderKeep == UNCHANGED <<worldVars, silent, job>>
OrderGoes(point) == order' = [order EXCEPT !.at = point]

(* The step reads all records of the agreement, whatever their status.     *)
StartStep(g) ==
    /\ order.at = "idle" /\ status[g] = "Updating"
    /\ order' = [IdleOrder EXCEPT !.at = "each", !.g = g, !.met = g = job.g \/ g \in job.list,
                   !.todo = {a \in Accounts : records[g][a].status # "none"}]
    /\ UNCHANGED <<status, ffc, records, unrecorded, faults>> /\ OrderKeep

LookupRecord(a) ==
    /\ order.at = "each" /\ a \in order.todo
    /\ \E i \in Lookups(a) :
          order' = [order EXCEPT !.a = a, !.todo = @ \ {a}, !.hit = i, !.at = CallFor(a, i)]
    /\ UNCHANGED <<status, ffc, records, unrecorded, faults>> /\ OrderKeep

BugSwallows ==
    /\ order.at \in {"delete", "terminate"} /\ OrderGoes("mark")
    /\ IF Fits(order.a, order.hit, order.at)
       THEN Ends(order.a, order.hit, order.at) ELSE UNCHANGED ffc
    /\ UNCHANGED <<status, records, unrecorded, faults>> /\ OrderKeep
(* A refused call stops the order; it is run again from the beginning.     *)
EndRecorded ==
    /\ order.at \in {"delete", "terminate"}
    /\ IF Fits(order.a, order.hit, order.at)
       THEN Ends(order.a, order.hit, order.at) /\ OrderGoes("mark")
       ELSE UNCHANGED ffc /\ order' = IdleOrder
    /\ UNCHANGED <<status, records, unrecorded, faults>> /\ OrderKeep

MarkRecord ==
    /\ order.at = "mark"
    /\ order' = [order EXCEPT !.at = "each", !.hit = 0, !.a = NoOne]
    /\ records' = [records EXCEPT ![order.g][order.a] = Record("Terminated")]
    /\ unrecorded' = IF order.met THEN unrecorded \cup {order.a} ELSE unrecorded
    /\ UNCHANGED <<status, ffc, faults>> /\ OrderKeep

CompleteOrder ==
    /\ order.at = "each" /\ order.todo = {} /\ order' = IdleOrder
    /\ status' = [status EXCEPT ![order.g] = "Terminated"]
    /\ UNCHANGED <<ffc, records, unrecorded, faults>> /\ OrderKeep

(* The worker restarts, or FFC or Airtable fails.                          *)
StepStops ==
    /\ order.at # "idle" /\ order' = IdleOrder /\ Fault
    /\ UNCHANGED <<status, ffc, records, unrecorded>> /\ OrderKeep

OrderStep ==
    \/ EndRecorded \/ MarkRecord \/ CompleteOrder
    \/ \E g \in Agreements : StartStep(g)
    \/ \E a \in Accounts : LookupRecord(a)

-----------------------------------------------------------------------------
EnvKeep == UNCHANGED <<order, faults>>
MptKeep == UNCHANGED <<worldVars, storeVars, job>> /\ EnvKeep
AwsKeep == UNCHANGED <<status, ffc, unrecorded, order, faults>>

(* The customer orders the end; a step before this one may fail the order, *)
(* on a retry as well; the agreement sync ends an agreement on its own.    *)
EndOrdered(g) ==
    /\ status[g] = "Active" /\ status' = [status EXCEPT ![g] = "Updating"] /\ MptKeep
OrderFails(g) ==
    /\ status[g] = "Updating" /\ order.g # g
    /\ status' = [status EXCEPT ![g] = "Active"] /\ MptKeep
AgreementLost(g) ==
    /\ status[g] = "Active" /\ status' = [status EXCEPT ![g] = "Terminated"] /\ MptKeep

UsageAppears(a) ==
    /\ a \notin used /\ used' = used \cup {a}
    /\ UNCHANGED <<home, moved, records, silent, job>> /\ AwsKeep

(* A linked account leaves its organization for another customer's.        *)
AccountMoves(a) ==
    /\ a \notin moved /\ moved' = moved \cup {a}
    /\ \E g \in Agreements \ {home[a]} : home' = [home EXCEPT ![a] = g]
    /\ UNCHANGED <<used, records, silent, job>> /\ AwsKeep

(* A pass takes less than a month.                                         *)
OneMore(n) == IF n = Inactivity THEN n ELSE n + 1
MonthPasses ==
    /\ job.at = "idle" /\ order.at = "idle" /\ used' = {}
    /\ records' = [g \in Agreements |-> [a \in Accounts |->
                     IF records[g][a].status = "Active"
                     THEN [records[g][a] EXCEPT !.age = OneMore(@)] ELSE records[g][a]]]
    /\ silent' = [a \in Accounts |-> OneMore(silent[a])]
    /\ UNCHANGED <<home, moved, job>> /\ AwsKeep

FfcActivates(a) ==
    /\ \E i \in Ids : ffc[a][i] = "new" /\ ffc' = [ffc EXCEPT ![a][i] = "active"]
    /\ UNCHANGED <<status, worldVars, records, silent, unrecorded, job>> /\ EnvKeep

Environment ==
    \/ \E g \in Agreements : EndOrdered(g) \/ OrderFails(g) \/ AgreementLost(g)
    \/ \E a \in Accounts : UsageAppears(a) \/ AccountMoves(a) \/ FfcActivates(a)
    \/ MonthPasses

Init ==
    /\ status = [g \in Agreements |-> "Active"]
    /\ home \in [Accounts -> Agreements] /\ moved = {} /\ used = {}
    /\ ffc = [a \in Accounts |-> [i \in Ids |-> "none"]]
    /\ records = [g \in Agreements |-> NoRecords]
    /\ silent = [a \in Accounts |-> 0]
    /\ unrecorded = {}
    /\ order = IdleOrder /\ job = IdleJob /\ faults = 0

Next == SyncNext \/ OrderStep \/ StepStops \/ Environment
Spec == Init /\ [][Next]_vars

(* The job and the worker are started without end and go on with what they *)
(* run; the calls that fail are counted.                                   *)
Fairness == WF_vars(FetchAgreements \/ PassStep) /\ WF_vars(OrderStep)
FairSpec == Spec /\ Fairness

-----------------------------------------------------------------------------
(* A second entitlement of an account exists only where FFC has kept a     *)
(* terminated one, which a lookup limited to one may give in its place.    *)
DuplicateNeedsKept ==
    \A a \in Accounts : Cardinality(Live(a)) > 1 => Kept(a) # {}

(* The job ends an entitlement only when no pass has recorded usage of its *)
(* account for all the months of inactivity, not even this one, or when    *)
(* the account has moved: the record of its old organization runs out.     *)
InactivityHonoured ==
    [][\A a \in Accounts :
          (job.at \in {"delete", "terminate"} /\ Cardinality(Live(a)') < Cardinality(Live(a))
             /\ order' = order)
             => silent[a] = Inactivity \/ a \in moved]_vars

(* Whatever calls fail and whatever dies, every live entitlement has an    *)
(* active record, by which its inactivity will be noticed, but for the one *)
(* a pass is about to save, and until the next pass has saved it the one a *)
(* pass died with, or an order marked that had met a pass.  Not so where   *)
(* the account has moved or FFC keeps a terminated entitlement.            *)
LiveIsRecorded ==
    \A a \in Accounts \ moved :
       Live(a) # {} /\ Kept(a) = {}
          => \/ records[home[a]][a].status = "Active"
             \/ job.at = "save" /\ job.a = a
             \/ a \in unrecorded

(* No account recorded under the agreement is entitled any more.           *)
NoneEntitled(g) ==
    \A a \in Accounts \ moved :
       (records[g][a].status # "none" /\ Kept(a) = {}) => Live(a) = {}

(* When a termination order completes whose step met no pass of the job    *)
(* over its agreement when it was last begun, no account recorded under it *)
(* is entitled any more, however often it was interrupted and run again.   *)
OrderEndsEntitlements ==
    [][\A g \in Agreements :
          CompleteOrder /\ order.g = g /\ ~order.met => NoneEntitled(g)]_vars

Exhausted(a) == Unused(a) = {}
Entitled(a) == Live(a) # {} /\ records[home[a]][a].status = "Active"

(* An account in use of an active agreement is entitled in the end, with   *)
(* its record, whatever passes died and whatever had been ended before.    *)
UsedIsEntitled ==
    \A a \in Accounts :
       <>[](a \in used /\ status[home[a]] = "Active") => <>[](Entitled(a) \/ Exhausted(a))

(* The documented rule: an entitlement is terminated or deleted when the   *)
(* subscription ends (docs/external/finops.md:3).                          *)
EndedIsNotEntitled ==
    \A g \in Agreements : \A a \in Accounts :
       (status[g] = "Terminated" /\ home[a] = g /\ moved = {}) ~> Live(a) = {}
==============================================================================
