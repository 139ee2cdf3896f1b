---------------------------- MODULE AgreementSync ----------------------------
(***************************************************************************)
(* The cron job synchronize_agreements, for one agreement.  A pass judges  *)
(* by what it has fetched when it began, job.snap; its writes go to MPT.   *)
(* job.todo are the accounts the present stage has still to see.           *)
(***************************************************************************)
EXTENDS Agreement

Stage(point, accounts) == job' = [job EXCEPT !.at = point, !.todo = accounts]
Seen(a) == job' = [job EXCEPT !.todo = @ \ {a}]

MptSame == UNCHANGED <<master, subs, agreement>>
MptSubs(s) == subs' = s /\ agreement' = MptStatus(master, s, order) /\ UNCHANGED master
JobKeep == UNCHANGED <<order, transfer, withdrawer, committed, used, entitled, run>>
AwsSame == UNCHANGED <<group, relationship, missed>>

(* MPT may refuse to change what an order or its end holds; the job logs a *)
(* refused call and goes on.                                               *)
Refused == /\ MptSame /\ UNCHANGED unused
           /\ IF agreement = "Active" THEN Fault ELSE UNCHANGED faults

-----------------------------------------------------------------------------
FetchAgreement ==
    /\ job.at = "idle" /\ agreement = "Active"
    /\ job' = [at |-> "transfer", snap |-> subs, master |-> master = "Active",
               found |-> {}, todo |-> {}]
    /\ MptSame /\ AwsSame /\ UNCHANGED <<unused, faults>> /\ JobKeep

BugLinkedOnly == job.snap.live
(* The accounts the snapshot holds a subscription of.                      *)
Existing == job.snap.live \cup (IF job.master THEN {Master} ELSE {})

BugEndingIsLost ==
    /\ job.at = "transfer"
    /\ IF transfer = "ACCEPTED" THEN Stage("usage", {}) ELSE Stage("lost", Existing)
    /\ MptSame /\ AwsSame /\ UNCHANGED <<unused, faults>> /\ JobKeep
GetAcceptedTransfer ==
    /\ job.at = "transfer"
    /\ IF Accepted THEN Stage("usage", {}) ELSE Stage("lost", Existing)
    /\ MptSame /\ AwsSame /\ UNCHANGED <<unused, faults>> /\ JobKeep

(* A billing view AWS does not answer for is passed over.                  *)
GetLinkedAccountsWithUsage ==
    /\ job.at = "usage"
    /\ \E found \in SUBSET used :
          /\ IF found = used THEN UNCHANGED faults ELSE Fault
          /\ job' = [job EXCEPT !.at = "ensure", !.found = found, !.todo = found]
    /\ MptSame /\ AwsSame /\ UNCHANGED unused /\ JobKeep

BugKeepsCountdown(a) ==
    MptSame /\ unused' = [unused EXCEPT ![a] = 0] /\ UNCHANGED faults
ClearInactivityCountdown(a) ==
    /\ MptSubs(Cleared(subs, a)) /\ UNCHANGED faults
    /\ unused' = [unused EXCEPT ![a] = 0]

CreateSubscription(a) ==
    /\ agreement # "Terminated"
    /\ IF a = Master
       THEN /\ master' = "Active" /\ UNCHANGED <<subs, unused>>
            /\ agreement' = MptStatus("Active", subs, order)
       ELSE MptSubs(Live(subs, a)) /\ unused' = [unused EXCEPT ![a] = 0]
    /\ UNCHANGED faults

EnsureSubscription(a) ==
    /\ job.at = "ensure" /\ a \in job.todo /\ Seen(a)
    /\ \/ a \in job.snap.dated /\ (ClearInactivityCountdown(a) \/ Refused)
       \/ /\ a \in Existing \ job.snap.dated /\ MptSame /\ UNCHANGED faults
          /\ unused' = [b \in Accounts |-> IF b = a THEN 0 ELSE unused[b]]
       \/ a \notin Existing /\ (CreateSubscription(a) \/ Refused)
    /\ AwsSame /\ JobKeep

HandleInactiveSubscriptions ==
    /\ job.at = "ensure" /\ job.todo = {}
    /\ Stage("inactive", job.snap.live \ (job.found \cup job.snap.dated))
    /\ MptSame /\ AwsSame /\ UNCHANGED <<unused, faults>> /\ JobKeep

SetInactivityCountdown(a) ==
    /\ job.at = "inactive" /\ a \in job.todo /\ Seen(a)
    /\ \/ MptSubs(Dated(subs, a)) /\ UNCHANGED <<unused, faults>>
       \/ Refused
    /\ AwsSame /\ JobKeep

Expired == {a \in job.snap.dated : job.snap.left[a] = 0}

TerminateExpiredSubscriptions ==
    /\ job.at = "inactive" /\ job.todo = {} /\ Stage("expire", Expired)
    /\ MptSame /\ AwsSame /\ UNCHANGED <<unused, faults>> /\ JobKeep

TerminateLinkedAccountSubscription(a) ==
    /\ job.at = "expire" /\ a \in job.todo /\ Seen(a)
    /\ \/ MptSubs(Ended(subs, a)) /\ UNCHANGED <<unused, faults>>
       \/ Refused
    /\ AwsSame /\ JobKeep

-----------------------------------------------------------------------------
(* The transfer is lost: every subscription of the snapshot is terminated, *)
(* then the group and the relationship are removed.                        *)
TerminateSubscription(a) ==
    /\ job.at = "lost" /\ a \in job.todo /\ Seen(a)
    /\ \/ a # Master /\ MptSubs(Ended(subs, a)) /\ UNCHANGED <<unused, faults>>
       \/ /\ a = Master /\ master' = "Terminated"
          /\ agreement' = MptStatus("Terminated", subs, order)
          /\ UNCHANGED <<subs, unused, faults>>
       \/ Refused
    /\ AwsSame /\ JobKeep

DeleteBillingGroup ==
    /\ job.at = "lost" /\ job.todo = {} /\ Stage("relationship", {})
    /\ \/ group' = FALSE /\ UNCHANGED faults
       \/ Fault /\ UNCHANGED group
    /\ MptSame /\ UNCHANGED <<relationship, unused>> /\ Misses({}) /\ JobKeep

RemoveApn ==
    /\ job.at = "relationship" /\ job' = IdleJob
    /\ \/ relationship' = FALSE /\ UNCHANGED faults
       \/ Fault /\ UNCHANGED relationship
    /\ MptSame /\ UNCHANGED <<group, unused>> /\ Misses({}) /\ JobKeep

-----------------------------------------------------------------------------
PassEnds ==
    /\ job.at = "expire" /\ job.todo = {} /\ job' = IdleJob
    /\ MptSame /\ AwsSame /\ UNCHANGED <<unused, faults>> /\ JobKeep

(* A read of the transfer or of the usage fails: the agreement is skipped. *)
PassSkipped ==
    /\ job.at \in {"transfer", "usage"} /\ job' = IdleJob
    /\ MptSame /\ AwsSame /\ UNCHANGED <<unused, faults>> /\ JobKeep

(* The pod of the job dies, or MPT does not give the product's items.      *)
PassDies ==
    /\ job.at # "idle" /\ job' = IdleJob /\ Fault
    /\ MptSame /\ AwsSame /\ UNCHANGED unused /\ JobKeep

PassStep ==
    \/ GetAcceptedTransfer \/ GetLinkedAccountsWithUsage
    \/ HandleInactiveSubscriptions \/ TerminateExpiredSubscriptions
    \/ DeleteBillingGroup \/ RemoveApn \/ PassEnds
    \/ \E a \in Accounts \cup {Master} :
          \/ EnsureSubscription(a) \/ SetInactivityCountdown(a)
          \/ TerminateLinkedAccountSubscription(a) \/ TerminateSubscription(a)
SyncNext == FetchAgreement \/ PassStep \/ PassSkipped \/ PassDies
==============================================================================
