------------------------------ MODULE FinOpsSync ------------------------------
(***************************************************************************)
(* The entitlements of FinOps for Cloud (FFC).  The cron job               *)
(* synchronize_finops_accounts creates one for an account in use and ends  *)
(* it when no usage is seen for 60 days; a termination order ends those of *)
(* its agreement.  What has been entitled is remembered in Airtable, one   *)
(* record per agreement and account.  FFC and Airtable are two services    *)
(* written one after the other, and both processes may be at it.           *)
(*                                                                         *)
(* Time goes by months; Inactivity of them are the 60 days.  Agreements    *)
(* without their payer accounts, which the job skips, are left out.        *)
(***************************************************************************)
EXTENDS Naturals, FiniteSets

CONSTANTS
    Agreements, Accounts,
    NoOne,         \* no agreement and no account
    Inactivity,    \* months without usage that end an entitlement
    MaxIds,        \* bound on the entitlements of an account
    MaxFaults      \* bound on crashes and failed calls

ASSUME FinOpsAssumption ==
    /\ NoOne \notin Agreements \cup Accounts
    /\ Inactivity \in Nat \ {0} /\ MaxIds \in Nat /\ MaxFaults \in Nat

VARIABLES
    status,        \* MPT: status of the agreement
    home,          \* AWS: the agreement whose organization holds the account
    moved,         \* accounts that have changed their organization
    used,          \* AWS: accounts with usage in the current month
    ffc,           \* FFC: the entitlements of an account
    records,       \* Airtable: the record of an agreement and account
    silent,        \* months since a pass has recorded usage of the account
    unrecorded,    \* accounts a pass died with before it had saved the record, or
                   \* whose record an order that met a pass has marked since
    order,         \* the worker in the step of the termination order
    job,           \* the cron job
    faults         \* how often a bounded event has happened

worldVars == <<home, moved, used>>
storeVars == <<ffc, records, silent, unrecorded>>
vars == <<status, worldVars, storeVars, order, job, faults>>

Ids == 1..MaxIds
Records == [status : {"none", "Active", "Terminated"}, age : 0..Inactivity]
Record(s) == [status |-> s, age |-> 0]
NoRecords == [a \in Accounts |-> Record("none")]

(* met: when the order began its step, a pass was at its agreement or had  *)
(* it on its list.  Only properties read it.                               *)
IdleOrder == [at |-> "idle", g |-> NoOne, a |-> NoOne, hit |-> 0, todo |-> {},
              met |-> FALSE]
IdleJob == [at |-> "idle", list |-> {}, g |-> NoOne, a |-> NoOne, hit |-> 0,
            snap |-> NoRecords, todo |-> {}]

FfcType == [Accounts -> [Ids -> {"none", "new", "active", "terminated", "deleted"}]]
RecordsType == [Agreements -> [Accounts -> Records]]
OrderType ==
    [at : {"idle", "each", "delete", "terminate", "mark"},
     g : Agreements \cup {NoOne}, a : Accounts \cup {NoOne},
     hit : 0..MaxIds, todo : SUBSET Accounts, met : BOOLEAN]
JobType ==
    [at : {"idle", "next", "account", "create", "save",
           "expire", "delete", "terminate", "mark"},
     list : SUBSET Agreements, g : Agreements \cup {NoOne}, a : Accounts \cup {NoOne},
     hit : 0..MaxIds, snap : [Accounts -> Records], todo : SUBSET Accounts]

TypeOK ==
    /\ status \in [Agreements -> {"Active", "Updating", "Terminated"}]
    /\ home \in [Accounts -> Agreements]
    /\ moved \subseteq Accounts /\ used \subseteq Accounts
    /\ ffc \in FfcType
    /\ records \in RecordsType
    /\ silent \in [Accounts -> 0..Inactivity]
    /\ unrecorded \subseteq Accounts
    /\ order \in OrderType /\ job \in JobType
    /\ order.at \in {"delete", "terminate"} => order.hit # 0 /\ order.a # NoOne
    /\ job.at \in {"delete", "terminate"} => job.hit # 0 /\ job.a # NoOne
    /\ faults \in 0..MaxFaults

-----------------------------------------------------------------------------
(* FFC.                                                                    *)
Live(a) == {i \in Ids : ffc[a][i] \in {"new", "active"}}
Kept(a) == {i \in Ids : ffc[a][i] = "terminated"}
Unused(a) == {i \in Ids : ffc[a][i] = "none"}

(* get_entitlement_by_datasource asks for one entitlement of the account,  *)
(* whatever its status; which one FFC gives is not said.  0 is none.       *)
Lookups(a) == IF Live(a) \cup Kept(a) = {} THEN {0} ELSE Live(a) \cup Kept(a)

BugAlwaysCalls(a, i) == IF i # 0 /\ ffc[a][i] = "new" THEN "delete" ELSE "terminate"
(* How a looked-up entitlement is to be ended.                             *)
CallFor(a, i) ==
    CASE i # 0 /\ ffc[a][i] = "new"    -> "delete"
      [] i # 0 /\ ffc[a][i] = "active" -> "terminate"
      [] OTHER                         -> "mark"

(* FFC carries a call out on an entitlement it fits, and refuses others.   *)
Fits(a, i, call) == ffc[a][i] = IF call = "delete" THEN "new" ELSE "active"
Ends(a, i, call) ==
    ffc' = [ffc EXCEPT ![a][i] = IF call = "delete" THEN "deleted" ELSE "terminated"]

Fault == faults < MaxFaults /\ faults' = faults + 1
StoreSame == UNCHANGED storeVars

-----------------------------------------------------------------------------
(* The job.  A FinOpsError is logged; any other error ends the pass.       *)
JobKeep == UNCHANGED <<status, worldVars, order>>
Goes(point) == job' = [job EXCEPT !.at = point]

FetchAgreements ==
    /\ job.at = "idle"
    /\ job' = [IdleJob EXCEPT !.at = "next", !.list = {g \in Agreements : status[g] = "Active"}]
    /\ StoreSame /\ UNCHANGED faults /\ JobKeep

(* A billing view AWS does not answer for is passed over.                  *)
SynchronizeAccounts(g) ==
    /\ job.at = "next" /\ g \in job.list
    /\ \E found \in SUBSET {a \in used : home[a] = g} :
          /\ IF found = {a \in used : home[a] = g} THEN UNCHANGED faults ELSE Fault
          /\ job' = [job EXCEPT !.at = "account", !.list = @ \ {g}, !.g = g,
                                !.snap = records[g], !.todo = found]
    /\ StoreSame /\ JobKeep

Served(a, found) ==
    /\ job.at = "account" /\ a \in job.todo
    /\ \/ /\ \E i \in Lookups(a) :
               job' = [job EXCEPT !.a = a, !.todo = @ \ {a},
                         !.at = IF i \in found THEN "save" ELSE "create"]
          /\ UNCHANGED faults
       \/ job' = [job EXCEPT !.a = a, !.todo = @ \ {a}, !.at = "save"] /\ Fault
    /\ StoreSame /\ JobKeep

BugActiveOnly(a) == Served(a, {i \in Ids : ffc[a][i] = "active"})
BugAnyStatus(a) == Served(a, Live(a) \cup Kept(a))
(* An entitlement that is new or active serves; after an error in the      *)
(* lookup the record is saved all the same.                                *)
GetEntitlement(a) == Served(a, Live(a))

(* FFC creates the entitlement, or answers with an error.                  *)
CreateEntitlement ==
    /\ job.at = "create" /\ Goes("save")
    /\ \/ /\ Unused(job.a) # {} /\ UNCHANGED faults
          /\ ffc' = [ffc EXCEPT ![job.a][CHOOSE i \in Unused(job.a) : TRUE] = "new"]
       \/ Unused(job.a) = {} /\ UNCHANGED <<ffc, faults>>
       \/ Fault /\ UNCHANGED ffc
    /\ UNCHANGED <<records, silent, unrecorded>> /\ JobKeep

BugStaleSnapshot ==
    /\ job.at = "save" /\ job' = [job EXCEPT !.at = "account", !.a = NoOne]
    /\ records' = [records EXCEPT ![job.g][job.a] = Record("Active")]
    /\ silent' = [silent EXCEPT ![job.a] = 0] /\ unrecorded' = unrecorded \ {job.a}
    /\ UNCHANGED <<ffc, faults>> /\ JobKeep
(* The record the pass has read is updated in place, a new one is not      *)
(* added to those it has read.                                             *)
SaveRecord ==
    /\ job.at = "save"
    /\ records' = [records EXCEPT ![job.g][job.a] = Record("Active")]
    /\ silent' = [silent EXCEPT ![job.a] = 0] /\ unrecorded' = unrecorded \ {job.a}
    /\ job' = [job EXCEPT !.at = "account", !.a = NoOne,
                 !.snap[job.a] = IF @.status = "none" THEN @ ELSE Record("Active")]
    /\ UNCHANGED <<ffc, faults>> /\ JobKeep

Inactive == {a \in Accounts : job.snap[a] = [status |-> "Active", age |-> Inactivity]}

ManageTerminatedAccounts ==
    /\ job.at = "account" /\ job.todo = {}
    /\ job' = [job EXCEPT !.at = "expire", !.snap = NoRecords, !.todo = Inactive]
    /\ StoreSame /\ UNCHANGED faults /\ JobKeep

LookupInactive(a) ==
    /\ job.at = "expire" /\ a \in job.todo
    /\ \/ /\ \E i \in Lookups(a) :
               job' = [job EXCEPT !.a = a, !.todo = @ \ {a}, !.hit = i, !.at = CallFor(a, i)]
          /\ UNCHANGED faults
       \/ job' = [job EXCEPT !.todo = @ \ {a}] /\ Fault
    /\ StoreSame /\ JobKeep

Passed == job' = [job EXCEPT !.at = "expire", !.a = NoOne, !.hit = 0]

BugMarksAnyway ==
    /\ job.at \in {"delete", "terminate"} /\ Goes("mark")
    /\ \/ /\ Fits(job.a, job.hit, job.at) /\ Ends(job.a, job.hit, job.at)
          /\ UNCHANGED faults
       \/ Fault /\ UNCHANGED ffc
    /\ UNCHANGED <<records, silent, unrecorded>> /\ JobKeep
(* An account whose entitlement could not be ended is passed over.         *)
EndEntitlement ==
    /\ job.at \in {"delete", "terminate"}
    /\ \/ /\ Fits(job.a, job.hit, job.at) /\ Ends(job.a, job.hit, job.at) /\ Goes("mark")
          /\ UNCHANGED faults
       \/ /\ ~Fits(job.a, job.hit, job.at) /\ Passed /\ UNCHANGED <<ffc, faults>>
       \/ Fault /\ Passed /\ UNCHANGED ffc
    /\ UNCHANGED <<records, silent, unrecorded>> /\ JobKeep

MarkTerminated ==
    /\ job.at = "mark"
    /\ records' = [records EXCEPT ![job.g][job.a] = Record("Terminated")]
    /\ Passed /\ UNCHANGED <<ffc, silent, unrecorded, faults>> /\ JobKeep

NextAgreement ==
    /\ job.at = "expire" /\ job.todo = {}
    /\ job' = [IdleJob EXCEPT !.at = "next", !.list = job.list]
    /\ StoreSame /\ UNCHANGED faults /\ JobKeep

SyncEnds ==
    /\ job.at = "next" /\ job.list = {} /\ job' = IdleJob
    /\ StoreSame /\ UNCHANGED faults /\ JobKeep

(* The pod dies, or AWS or Airtable fails.                                 *)
SyncDies ==
    /\ job.at # "idle" /\ job' = IdleJob /\ Fault
    /\ unrecorded' = IF job.at = "save" THEN unrecorded \cup {job.a} ELSE unrecorded
    /\ UNCHANGED <<ffc, records, silent>> /\ JobKeep

PassStep ==
    \/ CreateEntitlement \/ SaveRecord \/ ManageTerminatedAccounts \/ EndEntitlement
    \/ MarkTerminated \/ NextAgreement \/ SyncEnds
    \/ \E g \in Agreements : SynchronizeAccounts(g)
    \/ \E a \in Accounts : GetEntitlement(a) \/ LookupInactive(a)
SyncNext == FetchAgreements \/ PassStep \/ SyncDies
==============================================================================
