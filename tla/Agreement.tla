------------------------------ MODULE Agreement ------------------------------
(***************************************************************************)
(* An agreement after its purchase: its subscriptions in the marketplace   *)
(* (MPT), the billing transfer, billing group and partner relationship its *)
(* purchase has created, and the two processes that end them: the worker   *)
(* with a termination order, the cron job that synchronises agreements.    *)
(*                                                                         *)
(* subs.live are the linked accounts with an active subscription,          *)
(* subs.dated those of them with a termination date, subs.left the months  *)
(* until that date.                                                        *)
(***************************************************************************)
EXTENDS Naturals

CONSTANTS
    Accounts,      \* linked accounts
    Master,        \* the master payer account
    Spending,      \* those of these accounts that may have usage
    Inactivity,    \* LINKED_ACCOUNT_INACTIVITY_MONTHS
    MaxFaults      \* bound on crashes and refused calls

ASSUME AgreementAssumption ==
    /\ Master \notin Accounts /\ Spending \subseteq Accounts \cup {Master}
    /\ Inactivity \in Nat /\ MaxFaults \in Nat

VARIABLES
    agreement,          \* MPT: status of the agreement
    master,             \* MPT: status of the master payer's subscription
    subs,               \* MPT: subscriptions of the linked accounts
    order,              \* MPT: status of the last termination order
    transfer,           \* AWS: the responsibility transfer
    withdrawer,         \* who has ended it
    committed,          \* AWS: the service period of the handshake runs
    group,              \* AWS: the billing group exists
    relationship,       \* AWS: the partner relationship exists
    used,               \* AWS: accounts with usage in the current month
    unused,             \* months since a pass has recorded usage
    missed,             \* what is there because the worker, having ended the transfer,
                        \* has not removed it: a call failed or it restarted
    entitled,           \* accounts with a FinOps entitlement
    run,                \* the worker: the step it is about to take
    job,                \* the cron job
    faults              \* how often a bounded event has happened

mptVars == <<agreement, master, subs, order>>
awsVars == <<transfer, withdrawer, committed, group, relationship, used>>
jobVars == <<job, unused>>
vars == <<mptVars, awsVars, missed, entitled, run, jobVars, faults>>

Subs == [live : SUBSET Accounts, dated : SUBSET Accounts,
         left : [Accounts -> 0..Inactivity]]

RunPoints == {"idle", "validate", "transfer", "group", "relationship",
              "entitlements", "ticket", "complete"}
JobPoints == {"idle", "transfer", "usage", "ensure", "inactive", "expire",
              "lost", "relationship"}

NoSubs  == [live |-> {}, dated |-> {}, left |-> [a \in Accounts |-> 0]]
IdleJob == [at |-> "idle", snap |-> NoSubs, master |-> FALSE, found |-> {}, todo |-> {}]

TypeOK ==
    /\ agreement \in {"Active", "Updating", "Terminated"}
    /\ master \in {"Active", "Terminating", "Terminated"}
    /\ subs \in Subs /\ subs.dated \subseteq subs.live
    /\ order \in {"none", "Processing", "Completed", "Failed"}
    /\ transfer \in {"ACCEPTED", "ENDING", "WITHDRAWN"}
    /\ withdrawer \in {"nobody", "order", "earlier order", "customer"}
    /\ committed \in {"accepted", "open", "over"}
    /\ group \in BOOLEAN /\ relationship \in BOOLEAN
    /\ used \subseteq Accounts \cup {Master}
    /\ unused \in [Accounts -> 0..Inactivity]
    /\ missed \subseteq {"group", "relationship"}
    /\ entitled \subseteq Accounts
    /\ run \in RunPoints
    /\ job \in [at : JobPoints, snap : Subs, master : BOOLEAN,
                found : SUBSET (Accounts \cup {Master}),
                todo : SUBSET (Accounts \cup {Master})]
    /\ faults \in 0..MaxFaults

-----------------------------------------------------------------------------
(* A responsibility transfer that ends with the month is ACCEPTED till then. *)
Accepted == transfer \in {"ACCEPTED", "ENDING"}

Live(s, a)    == [s EXCEPT !.live = @ \cup {a}]
Dated(s, a)   == [s EXCEPT !.dated = @ \cup {a}, !.left[a] = Inactivity]
Cleared(s, a) == [s EXCEPT !.dated = @ \ {a}, !.left[a] = 0]
BugKeepsDate(s, a) == [s EXCEPT !.live = @ \ {a}]
Ended(s, a)   == [Cleared(s, a) EXCEPT !.live = @ \ {a}]
MonthOn(s)    == [s EXCEPT !.left = [a \in Accounts |-> IF @[a] = 0 THEN 0 ELSE @[a] - 1]]

(* MPT terminates an agreement with its last subscription.                 *)
MptStatus(m, s, o) ==
    IF m = "Terminated" /\ s.live = {} THEN "Terminated"
    ELSE IF o = "Processing" THEN "Updating" ELSE "Active"

(* MPT holds these subscriptions and this order from now on.               *)
MptHolds(m, s, o) == /\ master' = m /\ subs' = s /\ order' = o
                     /\ agreement' = MptStatus(m, s, o)

Fault == faults < MaxFaults /\ faults' = faults + 1

(* The worker passes over these; what is missed is what is still there.    *)
Misses(these) ==
    missed' = {x \in missed \cup these : IF x = "group" THEN group' ELSE relationship'}
==============================================================================
