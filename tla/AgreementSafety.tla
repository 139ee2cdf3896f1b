--------------------------- MODULE AgreementSafety ---------------------------
(***************************************************************************)
(* Theorems about the end of an agreement, for any linked accounts, any    *)
(* length of the countdown and any number of faults.                       *)
(***************************************************************************)
EXTENDS AgreementSystem, TLAPS

-----------------------------------------------------------------------------
(* The inductive invariant.                                                *)

(* A pass has the accounts it still has to see from its snapshot or from   *)
(* the usage it found, and until it ends subscriptions, MPT has those of   *)
(* the snapshot and no countdown that is not there.                        *)
Snapshot ==
    /\ job.snap.dated \subseteq job.snap.live
    /\ job.at \in {"transfer", "usage", "ensure", "inactive"} =>
          job.snap.live \subseteq subs.live
    /\ job.at \in {"transfer", "usage", "ensure"} => subs.dated \subseteq job.snap.dated
    /\ job.at \in {"idle", "transfer", "usage", "lost", "relationship"} => job.found = {}
    /\ job.at = "ensure" => job.todo \subseteq job.found
    /\ job.at = "inactive" => job.todo \subseteq job.snap.live
    /\ job.at = "expire" => \A a \in job.todo : a \in job.snap.dated /\ job.snap.left[a] = 0
    /\ job.at \in {"lost", "relationship"} => transfer = "WITHDRAWN"

(* A countdown has been waited for as far as it has come, in MPT and, but  *)
(* for the accounts it found in use, in the snapshot.                      *)
Waited ==
    /\ \A a \in subs.dated : unused[a] + subs.left[a] >= Inactivity
    /\ job.at # "idle" =>
          \A a \in job.snap.dated \ job.found : unused[a] + job.snap.left[a] >= Inactivity

(* What the status of the agreement, and the worker, say of the order.     *)
Statuses ==
    /\ agreement = MptStatus(master, subs, order)
    /\ run # "idle" => order = "Processing"
    /\ master = "Terminating" => order = "Processing"

(* The order in hand, once it is validated, is one on the master payer's   *)
(* subscription, or the job has ended that one for a lost transfer; so is  *)
(* the order that has ended the transfer.                                  *)
Validated == run \notin {"idle", "validate"}

Ordered ==
    /\ Validated => \/ master = "Terminating"
                    \/ master = "Terminated" /\ transfer = "WITHDRAWN"
    /\ withdrawer = "order" /\ order = "Processing" =>
          master = "Terminating" \/ (master = "Terminated" /\ transfer = "WITHDRAWN")
    /\ withdrawer = "order" /\ order = "Failed" =>
          master = "Terminated" /\ transfer = "WITHDRAWN"
    /\ withdrawer \in {"order", "earlier order"} => committed = "over"
    /\ transfer = "ACCEPTED" => withdrawer = "nobody"
    /\ transfer = "ENDING" => withdrawer \in {"order", "earlier order"}

(* While the job may create the master payer's subscription again, no      *)
(* order in hand has been validated, or has ended the transfer.            *)
Recreating == /\ ~job.master /\ job.at \in {"transfer", "usage", "ensure"}
              /\ job.at = "ensure" => Master \in job.todo

Recreated ==
    Recreating => /\ master = "Terminated" /\ ~Validated
                  /\ order = "Processing" => withdrawer # "order"
                  /\ order = "Failed" /\ withdrawer = "order" => job.at = "transfer"

(* What the worker removes after the transfer, and when.                   *)
Removed ==
    /\ run \in {"group", "relationship"} => transfer # "ACCEPTED"
    /\ transfer = "ACCEPTED" => group /\ relationship
    /\ withdrawer \in {"order", "earlier order"} =>
          /\ group => run = "group" \/ "group" \in missed
          /\ relationship => run \in {"group", "relationship"} \/ "relationship" \in missed
    /\ run \in {"ticket", "complete"} \/ order = "Completed" => entitled = {}

IInv == Snapshot /\ Waited /\ Statuses /\ Ordered /\ Recreated /\ Removed

-----------------------------------------------------------------------------
(* Records.                                                                *)

LEMMA SubsTypes ==
    ASSUME NEW s \in Subs, NEW a \in Accounts
    PROVE  /\ Live(s, a) \in Subs /\ Live(s, a).live = s.live \cup {a}
           /\ Live(s, a).dated = s.dated /\ Live(s, a).left = s.left
           /\ Dated(s, a) \in Subs /\ Dated(s, a).live = s.live
           /\ Dated(s, a).dated = s.dated \cup {a}
           /\ Dated(s, a).left = [s.left EXCEPT ![a] = Inactivity]
           /\ Cleared(s, a) \in Subs /\ Cleared(s, a).live = s.live
           /\ Cleared(s, a).dated = s.dated \ {a}
           /\ Cleared(s, a).left = [s.left EXCEPT ![a] = 0]
           /\ Ended(s, a) \in Subs /\ Ended(s, a).live = s.live \ {a}
           /\ Ended(s, a).dated = s.dated \ {a}
           /\ Ended(s, a).left = [s.left EXCEPT ![a] = 0]
  <1>1. /\ s.live \subseteq Accounts /\ s.dated \subseteq Accounts
        /\ s.left \in [Accounts -> 0..Inactivity]
        /\ s = [live |-> s.live, dated |-> s.dated, left |-> s.left]
    BY DEF Subs
  <1>2. /\ [s.left EXCEPT ![a] = Inactivity] \in [Accounts -> 0..Inactivity]
        /\ [s.left EXCEPT ![a] = 0] \in [Accounts -> 0..Inactivity]
    BY <1>1, AgreementAssumption
  <1>3. Live(s, a) = [live |-> s.live \cup {a}, dated |-> s.dated, left |-> s.left]
    BY <1>1 DEF Live
  <1>4. Dated(s, a) = [live |-> s.live, dated |-> s.dated \cup {a},
                       left |-> [s.left EXCEPT ![a] = Inactivity]]
    <2>1. Dated(s, a) = [s EXCEPT !.dated = s.dated \cup {a},
                                  !.left = [s.left EXCEPT ![a] = Inactivity]]
      BY <1>1 DEF Dated, Subs
    <2> QED BY <1>1, <2>1
  <1>5. Cleared(s, a) = [live |-> s.live, dated |-> s.dated \ {a},
                         left |-> [s.left EXCEPT ![a] = 0]]
    <2>1. Cleared(s, a) = [s EXCEPT !.dated = s.dated \ {a},
                                    !.left = [s.left EXCEPT ![a] = 0]]
      BY <1>1 DEF Cleared, Subs
    <2> QED BY <1>1, <2>1
  <1>6. Ended(s, a) = [live |-> s.live \ {a}, dated |-> s.dated \ {a},
                       left |-> [s.left EXCEPT ![a] = 0]]
    BY <1>5 DEF Ended
  <1> QED BY <1>1, <1>2, <1>3, <1>4, <1>5, <1>6 DEF Subs

LEMMA MonthTypes ==
    ASSUME NEW s \in Subs
    PROVE  /\ MonthOn(s) \in Subs
           /\ MonthOn(s).live = s.live /\ MonthOn(s).dated = s.dated
           /\ \A a \in Accounts :
                 MonthOn(s).left[a] = IF s.left[a] = 0 THEN 0 ELSE s.left[a] - 1
  <1> DEFINE left == [a \in Accounts |-> IF s.left[a] = 0 THEN 0 ELSE s.left[a] - 1]
  <1>1. s.left \in [Accounts -> 0..Inactivity]
    BY DEF Subs
  <1>2. left \in [Accounts -> 0..Inactivity]
    BY <1>1, AgreementAssumption
  <1>3. MonthOn(s) = [s EXCEPT !.left = left]
    BY DEF MonthOn
  <1>4. \A a \in Accounts : left[a] = IF s.left[a] = 0 THEN 0 ELSE s.left[a] - 1
    OBVIOUS
  <1> HIDE DEF left
  <1>5. /\ [s EXCEPT !.left = left] \in Subs
        /\ [s EXCEPT !.left = left].live = s.live
        /\ [s EXCEPT !.left = left].dated = s.dated
        /\ [s EXCEPT !.left = left].left = left
    BY <1>2 DEF Subs
  <1> QED BY <1>3, <1>4, <1>5

LEMMA NoSubsTypes == NoSubs \in Subs /\ NoSubs.live = {} /\ NoSubs.dated = {}
    BY AgreementAssumption DEF NoSubs, Subs

Jobs == [at : JobPoints, snap : Subs, master : BOOLEAN,
         found : SUBSET (Accounts \cup {Master}), todo : SUBSET (Accounts \cup {Master})]

LEMMA IdleTypes == /\ IdleJob \in Jobs /\ IdleJob.at = "idle" /\ IdleJob.found = {}
                   /\ IdleJob.snap.dated = {}
                   /\ IdleJob.snap.live = {}
    BY NoSubsTypes DEF IdleJob, Jobs, JobPoints

LEMMA StageTypes ==
    ASSUME job \in Jobs, NEW at \in JobPoints, NEW accounts \in SUBSET (Accounts \cup {Master}),
           Stage(at, accounts)
    PROVE  /\ job' \in Jobs /\ job'.at = at /\ job'.todo = accounts
           /\ job'.snap = job.snap /\ job'.master = job.master /\ job'.found = job.found
    BY DEF Stage, Jobs

LEMMA SeenTypes ==
    ASSUME job \in Jobs, NEW a \in Accounts \cup {Master}, Seen(a)
    PROVE  /\ job' \in Jobs /\ job'.at = job.at /\ job'.todo = job.todo \ {a}
           /\ job'.snap = job.snap /\ job'.master = job.master /\ job'.found = job.found
    BY DEF Seen, Jobs

LEMMA JobTypes ==
    ASSUME TypeOK
    PROVE  /\ job \in Jobs /\ job.snap \in Subs /\ job.at \in JobPoints
           /\ job.found \subseteq Accounts \cup {Master}
           /\ job.todo \subseteq Accounts \cup {Master}
           /\ job.snap.live \subseteq Accounts /\ job.snap.dated \subseteq Accounts
           /\ job.snap.left \in [Accounts -> 0..Inactivity]
           /\ subs.live \subseteq Accounts /\ subs.dated \subseteq Accounts
           /\ subs.left \in [Accounts -> 0..Inactivity]
    BY DEF TypeOK, Jobs, Subs

LEMMA StatusType ==
    \A m, s, o : MptStatus(m, s, o) \in {"Active", "Updating", "Terminated"}
    BY DEF MptStatus

-----------------------------------------------------------------------------
(* Types.                                                                  *)

LEMMA FaultType ==
    ASSUME faults \in 0..MaxFaults, Fault
    PROVE  faults' \in 0..MaxFaults
    BY AgreementAssumption DEF Fault

LEMMA WorkerTypes ==
    ASSUME TypeOK, TerminationNext
    PROVE  TypeOK'
  <1>1. UNCHANGED <<subs, jobVars, committed, used>>
    BY DEF TerminationNext, TerminationStep, PollTermination, ValidateTerminationOrder,
           TerminateResponsibilityTransfer, EndTransfer, RemoveBillingGroup, RemoveRelationship,
           TerminateFinOpsEntitlement, CRMTicketTerminateOrder, CompleteTerminationOrder,
           TerminationStops, WorkerRestarts, Keep, Goes, FailOrder, MptHolds, mptVars
  <1>2. /\ \/ UNCHANGED mptVars \/ FailOrder
           \/ MptHolds("Terminated", subs, "Completed")
        /\ run' \in RunPoints
    BY DEF TerminationNext, TerminationStep, PollTermination, ValidateTerminationOrder,
           TerminateResponsibilityTransfer, EndTransfer, RemoveBillingGroup, RemoveRelationship,
           TerminateFinOpsEntitlement, CRMTicketTerminateOrder, CompleteTerminationOrder,
           TerminationStops, WorkerRestarts, Goes, FailOrder, mptVars, RunPoints, TypeOK
  <1>3. /\ master' \in {"Active", "Terminating", "Terminated"}
        /\ order' \in {"none", "Processing", "Completed", "Failed"}
        /\ agreement' \in {"Active", "Updating", "Terminated"}
    <2>1. CASE UNCHANGED mptVars
      BY <2>1 DEF mptVars, TypeOK
    <2>2. CASE FailOrder
      <3> DEFINE m == IF master = "Terminating" THEN "Active" ELSE master
      <3>1. master' = m /\ order' = "Failed" /\ agreement' = MptStatus(m, subs, "Failed")
        BY <2>2 DEF FailOrder, MptHolds
      <3>2. m \in {"Active", "Terminating", "Terminated"}
        BY DEF TypeOK
      <3> HIDE DEF m
      <3> QED BY <3>1, <3>2, StatusType
    <2>3. CASE MptHolds("Terminated", subs, "Completed")
      BY <2>3, StatusType DEF MptHolds
    <2> QED BY <1>2, <2>1, <2>2, <2>3
  <1>4. /\ \/ TransferSame
           \/ transfer' = "ENDING" /\ withdrawer' = "order"
        /\ group' = group \/ group' = FALSE
        /\ relationship' = relationship \/ relationship' = FALSE
        /\ entitled' \subseteq entitled /\ missed' \subseteq missed \cup {"group", "relationship"}
        /\ faults' = faults \/ Fault
    BY DEF TerminationNext, TerminationStep, PollTermination, ValidateTerminationOrder,
           TerminateResponsibilityTransfer, EndTransfer, RemoveBillingGroup, RemoveRelationship,
           TerminateFinOpsEntitlement, CRMTicketTerminateOrder, CompleteTerminationOrder,
           TerminationStops, WorkerRestarts, Misses, RunPoints
  <1>5. /\ transfer' \in {"ACCEPTED", "ENDING", "WITHDRAWN"}
        /\ withdrawer' \in {"nobody", "order", "earlier order", "customer"}
        /\ group' \in BOOLEAN /\ relationship' \in BOOLEAN
        /\ entitled' \subseteq Accounts /\ missed' \subseteq {"group", "relationship"}
    BY <1>4 DEF TransferSame, TypeOK
  <1>6. faults' \in 0..MaxFaults
    BY <1>4, FaultType DEF TypeOK
  <1> QED BY <1>1, <1>2, <1>3, <1>5, <1>6 DEF TypeOK, jobVars

(* What a step of the job does to the subscriptions.                       *)
JobWrites(a) ==
    \/ ClearInactivityCountdown(a) /\ job.at = "ensure"
    \/ CreateSubscription(a) /\ a # Master /\ job.at = "ensure" /\ a \notin Existing
    \/ MptSubs(Dated(subs, a)) /\ job.at = "inactive" /\ a \in job.todo
       /\ UNCHANGED unused
    \/ MptSubs(Ended(subs, a)) /\ job.at \in {"expire", "lost"} /\ UNCHANGED unused

LEMMA JobSubs ==
    ASSUME TypeOK, Snapshot, SyncNext
    PROVE  \/ MptSame
           \/ \E a \in Accounts : a \in job.todo /\ Seen(a) /\ JobWrites(a)
           \/ /\ subs' = subs /\ UNCHANGED unused /\ Master \in job.todo /\ Seen(Master)
              /\ agreement' = MptStatus(master', subs, order)
              /\ \/ job.at = "ensure" /\ master' = "Active" /\ Master \notin Existing
                 \/ job.at = "lost" /\ master' = "Terminated"
  <1>1. ASSUME NEW a \in Accounts \cup {Master}, EnsureSubscription(a)
        PROVE  \/ MptSame
               \/ a \in Accounts /\ a \in job.todo /\ Seen(a) /\ JobWrites(a)
               \/ /\ subs' = subs /\ UNCHANGED unused /\ Master \in job.todo /\ Seen(Master)
                  /\ agreement' = MptStatus(master', subs, order)
                  /\ job.at = "ensure" /\ master' = "Active" /\ Master \notin Existing
    <2>1. job.snap.dated \subseteq Accounts
      BY JobTypes
    <2> QED BY <1>1, <2>1
            DEF EnsureSubscription, Refused, CreateSubscription, JobWrites,
                ClearInactivityCountdown
  <1>2. ASSUME NEW a \in Accounts \cup {Master}, SetInactivityCountdown(a)
        PROVE  MptSame \/ (a \in Accounts /\ a \in job.todo /\ Seen(a) /\ JobWrites(a))
    <2>1. a \in job.snap.live /\ job.snap.live \subseteq Accounts
      BY <1>2, JobTypes DEF SetInactivityCountdown, Snapshot
    <2> QED BY <1>2, <2>1 DEF SetInactivityCountdown, Refused, JobWrites
  <1>3. ASSUME NEW a \in Accounts \cup {Master}, TerminateLinkedAccountSubscription(a)
        PROVE  MptSame \/ (a \in Accounts /\ a \in job.todo /\ Seen(a) /\ JobWrites(a))
    <2>1. a \in job.snap.dated /\ job.snap.dated \subseteq Accounts
      BY <1>3, JobTypes DEF TerminateLinkedAccountSubscription, Snapshot
    <2> QED BY <1>3, <2>1 DEF TerminateLinkedAccountSubscription, Refused, JobWrites
  <1>4. ASSUME NEW a \in Accounts \cup {Master}, TerminateSubscription(a)
        PROVE  \/ MptSame
               \/ a \in Accounts /\ a \in job.todo /\ Seen(a) /\ JobWrites(a)
               \/ /\ subs' = subs /\ UNCHANGED unused /\ Master \in job.todo /\ Seen(Master)
                  /\ agreement' = MptStatus(master', subs, order)
                  /\ job.at = "lost" /\ master' = "Terminated"
    BY <1>4 DEF TerminateSubscription, Refused, JobWrites
  <1>5. CASE \/ FetchAgreement \/ GetAcceptedTransfer \/ GetLinkedAccountsWithUsage
             \/ HandleInactiveSubscriptions \/ TerminateExpiredSubscriptions
             \/ DeleteBillingGroup \/ RemoveApn \/ PassEnds \/ PassSkipped \/ PassDies
    BY <1>5 DEF FetchAgreement, GetAcceptedTransfer, GetLinkedAccountsWithUsage,
                HandleInactiveSubscriptions, TerminateExpiredSubscriptions,
                DeleteBillingGroup, RemoveApn, PassEnds, PassSkipped, PassDies
  <1> QED BY <1>1, <1>2, <1>3, <1>4, <1>5 DEF SyncNext, PassStep

(* The stage a pass of the job is in after a step.                         *)
LEMMA JobStep ==
    ASSUME TypeOK, Snapshot, SyncNext
    PROVE  /\ job' \in Jobs
           /\ \/ job' = IdleJob
              \/ FetchAgreement
              \/ \E a \in Accounts \cup {Master} : a \in job.todo /\ Seen(a)
              \/ GetAcceptedTransfer \/ GetLinkedAccountsWithUsage
              \/ HandleInactiveSubscriptions \/ TerminateExpiredSubscriptions
              \/ DeleteBillingGroup
  <1>1. job \in Jobs /\ Existing \in SUBSET (Accounts \cup {Master})
        /\ {} \in SUBSET (Accounts \cup {Master})
        /\ \A at \in {"usage", "lost", "inactive", "expire", "relationship"} : at \in JobPoints
    BY JobTypes DEF Existing, JobPoints
  <1>2. CASE job' = IdleJob
    BY <1>2, IdleTypes
  <1>3. CASE FetchAgreement
    BY <1>3 DEF FetchAgreement, Jobs, JobPoints, TypeOK
  <1>4. ASSUME NEW a \in Accounts \cup {Master}, a \in job.todo, Seen(a)
        PROVE  job' \in Jobs
    BY <1>1, <1>4, SeenTypes
  <1>5. CASE GetAcceptedTransfer
    BY <1>1, <1>5, StageTypes DEF GetAcceptedTransfer
  <1>6. CASE GetLinkedAccountsWithUsage
    <2>1. PICK found \in SUBSET used :
             job' = [job EXCEPT !.at = "ensure", !.found = found, !.todo = found]
      BY <1>6 DEF GetLinkedAccountsWithUsage
    <2>2. found \in SUBSET (Accounts \cup {Master})
      BY DEF TypeOK
    <2>3. "ensure" \in JobPoints
      BY DEF JobPoints
    <2> QED BY <1>1, <1>6, <2>1, <2>2, <2>3 DEF Jobs
  <1>7. CASE HandleInactiveSubscriptions
    <2> DEFINE todo == job.snap.live \ (job.found \cup job.snap.dated)
    <2>1. Stage("inactive", todo)
      BY <1>7 DEF HandleInactiveSubscriptions
    <2>2. todo \in SUBSET (Accounts \cup {Master})
      BY JobTypes
    <2> HIDE DEF todo
    <2> QED BY <1>1, <1>7, <2>1, <2>2, StageTypes
  <1>8. CASE TerminateExpiredSubscriptions
    <2>1. Expired \in SUBSET (Accounts \cup {Master})
      BY JobTypes DEF Expired
    <2> QED BY <1>1, <1>8, <2>1, StageTypes DEF TerminateExpiredSubscriptions
  <1>9. CASE DeleteBillingGroup
    BY <1>1, <1>9, StageTypes DEF DeleteBillingGroup
  <1>10. \/ job' = IdleJob
         \/ FetchAgreement
         \/ \E a \in Accounts \cup {Master} : a \in job.todo /\ Seen(a)
         \/ GetAcceptedTransfer \/ GetLinkedAccountsWithUsage
         \/ HandleInactiveSubscriptions \/ TerminateExpiredSubscriptions
         \/ DeleteBillingGroup
    BY DEF SyncNext, PassStep, EnsureSubscription, SetInactivityCountdown,
           TerminateLinkedAccountSubscription, TerminateSubscription, RemoveApn, PassEnds,
           PassSkipped, PassDies
  <1> QED BY <1>2, <1>3, <1>4, <1>5, <1>6, <1>7, <1>8, <1>9, <1>10

LEMMA Written ==
    ASSUME TypeOK, Snapshot, NEW a \in Accounts, a \in job.todo, JobWrites(a)
    PROVE  /\ subs' \in Subs /\ subs'.dated \subseteq subs'.live
           /\ master' = master /\ agreement' = MptStatus(master', subs', order)
           /\ \A b \in subs'.dated : \/ b \in subs.dated /\ subs'.left[b] = subs.left[b]
                                     \/ subs'.left[b] = Inactivity
           /\ job.at \in {"ensure", "inactive"} => subs.live \subseteq subs'.live
           /\ job.at = "ensure" => subs'.dated \subseteq subs.dated
           /\ \/ /\ job.at = "ensure" /\ unused' = [unused EXCEPT ![a] = 0]
                 /\ a \notin subs'.dated
              \/ unused' = unused
           /\ subs.live \ subs'.live \subseteq {a}
  <1>1. subs \in Subs /\ subs.dated \subseteq subs.live /\ subs.dated \subseteq Accounts
        /\ subs.left \in [Accounts -> 0..Inactivity]
    BY JobTypes DEF TypeOK
  <1>2. CASE ClearInactivityCountdown(a) /\ job.at = "ensure"
    <2>1. subs' = Cleared(subs, a) /\ master' = master /\ unused' = [unused EXCEPT ![a] = 0]
          /\ agreement' = MptStatus(master, subs', order)
      BY <1>2 DEF ClearInactivityCountdown, MptSubs
    <2>2. /\ subs' \in Subs /\ subs'.live = subs.live /\ subs'.dated = subs.dated \ {a}
          /\ subs'.left = [subs.left EXCEPT ![a] = 0]
      BY <1>1, <2>1, SubsTypes
    <2> QED BY <1>1, <1>2, <2>1, <2>2
  <1>3. CASE CreateSubscription(a) /\ a # Master /\ job.at = "ensure" /\ a \notin Existing
    <2>1. subs' = Live(subs, a) /\ master' = master /\ unused' = [unused EXCEPT ![a] = 0]
          /\ agreement' = MptStatus(master, subs', order)
      BY <1>3 DEF CreateSubscription, MptSubs
    <2>2. a \notin subs.dated
      BY <1>3 DEF Snapshot, Existing
    <2>3. /\ subs' \in Subs /\ subs'.live = subs.live \cup {a}
          /\ subs'.dated = subs.dated /\ subs'.left = subs.left
      BY <1>1, <2>1, SubsTypes
    <2> QED BY <1>1, <1>3, <2>1, <2>2, <2>3
  <1>4. CASE MptSubs(Dated(subs, a)) /\ job.at = "inactive" /\ UNCHANGED unused
    <2>1. a \in subs.live
      BY <1>4 DEF Snapshot
    <2>2. subs' = Dated(subs, a) /\ master' = master
          /\ agreement' = MptStatus(master, subs', order)
      BY <1>4 DEF MptSubs
    <2>3. /\ subs' \in Subs /\ subs'.live = subs.live /\ subs'.dated = subs.dated \cup {a}
          /\ subs'.left = [subs.left EXCEPT ![a] = Inactivity]
      BY <1>1, <2>2, SubsTypes
    <2> QED BY <1>1, <1>4, <2>1, <2>2, <2>3
  <1>5. CASE MptSubs(Ended(subs, a)) /\ job.at \in {"expire", "lost"} /\ UNCHANGED unused
    <2>1. subs' = Ended(subs, a) /\ master' = master
          /\ agreement' = MptStatus(master, subs', order)
      BY <1>5 DEF MptSubs
    <2>2. /\ subs' \in Subs /\ subs'.live = subs.live \ {a} /\ subs'.dated = subs.dated \ {a}
          /\ subs'.left = [subs.left EXCEPT ![a] = 0]
      BY <1>1, <2>1, SubsTypes
    <2> QED BY <1>1, <1>5, <2>1, <2>2
  <1> QED BY <1>2, <1>3, <1>4, <1>5 DEF JobWrites

LEMMA JobFrame ==
    ASSUME SyncNext
    PROVE  /\ UNCHANGED <<order, transfer, withdrawer, committed, used, entitled, run>>
           /\ UNCHANGED missed \/ Misses({})
           /\ \/ group' = group
              \/ group' = FALSE /\ job.at = "lost"
           /\ \/ relationship' = relationship
              \/ relationship' = FALSE /\ job.at = "relationship"
           /\ faults' = faults \/ Fault
  <1>1. ASSUME NEW a \in Accounts \cup {Master},
               \/ EnsureSubscription(a) \/ SetInactivityCountdown(a)
               \/ TerminateLinkedAccountSubscription(a) \/ TerminateSubscription(a)
        PROVE  JobKeep /\ AwsSame /\ (faults' = faults \/ Fault)
    BY <1>1 DEF EnsureSubscription, SetInactivityCountdown, TerminateLinkedAccountSubscription,
           TerminateSubscription, Refused, CreateSubscription, ClearInactivityCountdown
  <1>2. CASE \/ FetchAgreement \/ GetAcceptedTransfer \/ GetLinkedAccountsWithUsage
             \/ HandleInactiveSubscriptions \/ TerminateExpiredSubscriptions
             \/ PassEnds \/ PassSkipped \/ PassDies
    BY <1>2 DEF FetchAgreement, GetAcceptedTransfer, GetLinkedAccountsWithUsage,
                HandleInactiveSubscriptions, TerminateExpiredSubscriptions, PassEnds,
                PassSkipped, PassDies, JobKeep, AwsSame
  <1>3. CASE DeleteBillingGroup \/ RemoveApn
    BY <1>3 DEF DeleteBillingGroup, RemoveApn, JobKeep
  <1> QED BY <1>1, <1>2, <1>3 DEF SyncNext, PassStep, JobKeep, AwsSame

(* The months of an account begin anew where a pass has found it in use.   *)
LEMMA UnusedStep ==
    ASSUME TypeOK, Snapshot, SyncNext
    PROVE  \/ unused' = unused
           \/ \E a \in Accounts : /\ job.at = "ensure" /\ a \in job.todo
                                  /\ unused' = [unused EXCEPT ![a] = 0]
                                  /\ a \notin subs'.dated
  <1>1. ASSUME NEW a \in Accounts, a \in job.todo, JobWrites(a)
        PROVE  \/ unused' = unused
               \/ \E b \in Accounts : /\ job.at = "ensure" /\ b \in job.todo
                                      /\ unused' = [unused EXCEPT ![b] = 0]
                                      /\ b \notin subs'.dated
    BY <1>1, Written
  <1>2. ASSUME NEW a \in Accounts \cup {Master}, EnsureSubscription(a),
               a \in Existing \ job.snap.dated, MptSame,
               unused' = [b \in Accounts |-> IF b = a THEN 0 ELSE unused[b]]
        PROVE  \/ unused' = unused
               \/ \E b \in Accounts : /\ job.at = "ensure" /\ b \in job.todo
                                      /\ unused' = [unused EXCEPT ![b] = 0]
                                      /\ b \notin subs'.dated
    <2>1. unused \in [Accounts -> 0..Inactivity]
      BY DEF TypeOK
    <2>2. CASE a \notin Accounts
      BY <1>2, <2>1, <2>2
    <2>3. CASE a \in Accounts
      <3>1. unused' = [unused EXCEPT ![a] = 0]
        BY <1>2, <2>1, <2>3
      <3>2. a \notin subs'.dated
        BY <1>2 DEF EnsureSubscription, Snapshot, MptSame
      <3> QED BY <1>2, <2>3, <3>1, <3>2 DEF EnsureSubscription
    <2> QED BY <2>2, <2>3
  <1>3. \/ unused' = unused
        \/ \E a \in Accounts : a \in job.todo /\ JobWrites(a)
        \/ \E a \in Accounts \cup {Master} :
              /\ EnsureSubscription(a) /\ a \in Existing \ job.snap.dated /\ MptSame
              /\ unused' = [b \in Accounts |-> IF b = a THEN 0 ELSE unused[b]]
    <2>1. ASSUME NEW a \in Accounts \cup {Master}, EnsureSubscription(a)
          PROVE  \/ unused' = unused
                 \/ \E b \in Accounts : b \in job.todo /\ JobWrites(b)
                 \/ /\ a \in Existing \ job.snap.dated /\ MptSame
                    /\ unused' = [b \in Accounts |-> IF b = a THEN 0 ELSE unused[b]]
      <3>1. job.snap.dated \subseteq Accounts
        BY JobTypes
      <3> QED BY <2>1, <3>1 DEF EnsureSubscription, Refused, CreateSubscription, JobWrites
    <2>2. ASSUME NEW a \in Accounts \cup {Master},
                 \/ SetInactivityCountdown(a) \/ TerminateLinkedAccountSubscription(a)
                 \/ TerminateSubscription(a)
          PROVE  unused' = unused
      BY <2>2 DEF SetInactivityCountdown, TerminateLinkedAccountSubscription,
                  TerminateSubscription, Refused
    <2>3. CASE \/ FetchAgreement \/ GetAcceptedTransfer \/ GetLinkedAccountsWithUsage
               \/ HandleInactiveSubscriptions \/ TerminateExpiredSubscriptions
               \/ DeleteBillingGroup \/ RemoveApn \/ PassEnds \/ PassSkipped \/ PassDies
      BY <2>3 DEF FetchAgreement, GetAcceptedTransfer, GetLinkedAccountsWithUsage,
                  HandleInactiveSubscriptions, TerminateExpiredSubscriptions,
                  DeleteBillingGroup, RemoveApn, PassEnds, PassSkipped, PassDies
    <2> QED BY <2>1, <2>2, <2>3 DEF SyncNext, PassStep
  <1> QED BY <1>1, <1>2, <1>3

LEMMA SyncTypes ==
    ASSUME TypeOK, Snapshot, SyncNext
    PROVE  TypeOK'
  <1>1. /\ subs' \in Subs /\ subs'.dated \subseteq subs'.live
        /\ master' \in {"Active", "Terminating", "Terminated"}
        /\ agreement' \in {"Active", "Updating", "Terminated"}
    <2>1. subs \in Subs /\ subs.dated \subseteq subs.live
          /\ master \in {"Active", "Terminating", "Terminated"}
          /\ agreement \in {"Active", "Updating", "Terminated"}
      BY DEF TypeOK
    <2>2. CASE MptSame
      BY <2>1, <2>2 DEF MptSame
    <2>3. CASE \E a \in Accounts : a \in job.todo /\ JobWrites(a)
      BY <2>1, <2>3, Written, StatusType
    <2>4. CASE subs' = subs /\ agreement' = MptStatus(master', subs, order)
               /\ master' \in {"Active", "Terminated"}
      BY <2>1, <2>4, StatusType
    <2> QED BY <2>2, <2>3, <2>4, JobSubs
  <1>2. unused' \in [Accounts -> 0..Inactivity]
    <2>1. unused \in [Accounts -> 0..Inactivity]
      BY DEF TypeOK
    <2>2. 0 \in 0..Inactivity
      BY AgreementAssumption
    <2> QED BY <2>1, <2>2, UnusedStep
  <1>3. faults' \in 0..MaxFaults /\ group' \in BOOLEAN /\ relationship' \in BOOLEAN
    BY JobFrame, FaultType DEF TypeOK
  <1>4. job' \in Jobs
    BY JobStep
  <1>5. missed' \subseteq {"group", "relationship"}
    BY JobFrame DEF Misses, TypeOK
  <1> QED BY <1>1, <1>2, <1>3, <1>4, <1>5, JobFrame DEF TypeOK, Jobs

LEMMA SameTypes ==
    ASSUME TypeOK, UNCHANGED <<mptVars, transfer, withdrawer>>,
           UNCHANGED <<group, relationship, missed, entitled, run, job, unused, faults>>,
           committed' \in {"accepted", "open", "over"}, used' \subseteq Accounts \cup {Master}
    PROVE  TypeOK'
  <1>1. /\ agreement' \in {"Active", "Updating", "Terminated"}
        /\ master' \in {"Active", "Terminating", "Terminated"}
        /\ subs' \in Subs /\ subs'.dated \subseteq subs'.live
        /\ order' \in {"none", "Processing", "Completed", "Failed"}
    BY DEF TypeOK, mptVars
  <1>2. /\ transfer' \in {"ACCEPTED", "ENDING", "WITHDRAWN"}
        /\ withdrawer' \in {"nobody", "order", "earlier order", "customer"}
    BY DEF TypeOK
  <1>3. /\ group' \in BOOLEAN /\ relationship' \in BOOLEAN
        /\ unused' \in [Accounts -> 0..Inactivity]
        /\ entitled' \subseteq Accounts /\ run' \in RunPoints /\ faults' \in 0..MaxFaults
        /\ missed' \subseteq {"group", "relationship"}
    BY DEF TypeOK
  <1>4. job' \in Jobs
    BY DEF TypeOK, Jobs
  <1> QED BY <1>1, <1>2, <1>3, <1>4 DEF TypeOK, Jobs

LEMMA EnvironmentTypes ==
    ASSUME TypeOK, Environment
    PROVE  TypeOK'
  <1>1. CASE OrderMaster \/ OrderLinked
    <2>1. PICK m \in {"Active", "Terminating", "Terminated"} : Order(m)
      BY <1>1 DEF OrderMaster, OrderLinked, TypeOK
    <2>2. /\ master' = m /\ order' = "Processing" /\ agreement' = MptStatus(m, subs, "Processing")
          /\ subs' = subs /\ UNCHANGED transfer
          /\ withdrawer' = IF withdrawer = "order" THEN "earlier order" ELSE withdrawer
          /\ UNCHANGED <<committed, group, relationship, used, missed, entitled, run, job, unused, faults>>
      BY <2>1 DEF Order, MptHolds, CustomerKeep, jobVars
    <2> QED BY <2>2, StatusType DEF TypeOK
  <1>2. CASE CustomerWithdraws
    <2>1. /\ transfer' = "WITHDRAWN" /\ withdrawer' = "customer"
          /\ UNCHANGED <<agreement, master, subs, order>>
          /\ UNCHANGED <<committed, group, relationship, used, missed, entitled, run, job, unused, faults>>
      BY <1>2 DEF CustomerWithdraws, CustomerKeep, mptVars, jobVars
    <2> QED BY <2>1 DEF TypeOK
  <1>3. CASE CommitmentMoves
    <2>1. /\ committed' \in {"accepted", "open", "over"}
          /\ UNCHANGED <<mptVars, transfer, withdrawer, used>>
          /\ UNCHANGED <<group, relationship, missed, entitled, run, job, unused, faults>>
      BY <1>3 DEF CommitmentMoves, AwsKeep, jobVars, mptVars
    <2> QED BY <2>1, SameTypes DEF TypeOK
  <1>4. CASE UsageAppears
    <2>1. /\ used' \subseteq Accounts \cup {Master}
          /\ UNCHANGED <<mptVars, transfer, withdrawer, committed>>
          /\ UNCHANGED <<group, relationship, missed, entitled, run, job, unused, faults>>
      <3>1. used \subseteq Accounts \cup {Master}
        BY DEF TypeOK
      <3> QED BY <1>4, <3>1, AgreementAssumption DEF UsageAppears, AwsKeep, jobVars, mptVars
    <2> QED BY <2>1, SameTypes DEF TypeOK
  <1>5. CASE MonthPasses
    <2>1. subs \in Subs /\ subs.dated \subseteq subs.live /\ job \in Jobs /\ job.snap \in Subs
      BY JobTypes DEF TypeOK
    <2>2. subs' \in Subs /\ subs'.dated \subseteq subs'.live
      BY <1>5, <2>1, MonthTypes DEF MonthPasses
    <2>3. job' \in Jobs
      <3>1. MonthOn(job.snap) \in Subs /\ job' = [job EXCEPT !.snap = MonthOn(job.snap)]
        BY <1>5, <2>1, MonthTypes DEF MonthPasses, Jobs
      <3> QED BY <2>1, <3>1 DEF Jobs
    <2>4. unused' \in [Accounts -> 0..Inactivity]
      <3>1. unused \in [Accounts -> 0..Inactivity]
        BY DEF TypeOK
      <3> QED BY <1>5, <3>1, AgreementAssumption DEF MonthPasses
    <2> QED BY <1>5, <2>2, <2>3, <2>4 DEF MonthPasses, AwsKeep, TypeOK, Jobs
  <1> QED BY <1>1, <1>2, <1>3, <1>4, <1>5 DEF Environment

-----------------------------------------------------------------------------
(* The snapshot and the countdowns.                                        *)

LEMMA SnapshotSync ==
    ASSUME TypeOK, Snapshot, SyncNext
    PROVE  Snapshot'
  <1> DEFINE S == /\ job'.snap.dated \subseteq job'.snap.live
                  /\ job'.at \in {"transfer", "usage", "ensure", "inactive"} =>
                        job'.snap.live \subseteq subs'.live
                  /\ job'.at \in {"transfer", "usage", "ensure"} =>
                        subs'.dated \subseteq job'.snap.dated
                  /\ job'.at \in {"idle", "transfer", "usage", "lost", "relationship"} =>
                        job'.found = {}
                  /\ job'.at = "ensure" => job'.todo \subseteq job'.found
                  /\ job'.at = "inactive" => job'.todo \subseteq job'.snap.live
                  /\ job'.at = "expire" =>
                        \A a \in job'.todo : a \in job'.snap.dated /\ job'.snap.left[a] = 0
                  /\ job'.at \in {"lost", "relationship"} => transfer' = "WITHDRAWN"
  <1>1. SUFFICES S
    BY DEF Snapshot
  <1>2. job \in Jobs /\ transfer' = transfer
    BY JobTypes, JobFrame
  <1>3. CASE job' = IdleJob
    BY <1>3, IdleTypes
  <1>4. CASE FetchAgreement
    <2>1. job'.at = "transfer" /\ job'.snap = subs /\ job'.found = {} /\ subs' = subs
      BY <1>4 DEF FetchAgreement, MptSame
    <2> QED BY <2>1 DEF TypeOK
  <1>5. ASSUME NEW a \in Accounts \cup {Master}, a \in job.todo, Seen(a) PROVE S
    <2>1. /\ job'.at = job.at /\ job'.todo = job.todo \ {a} /\ job'.snap = job.snap
          /\ job'.found = job.found
      BY <1>2, <1>5, SeenTypes
    <2>2. /\ job.at \in {"transfer", "usage", "ensure", "inactive"}
                => subs.live \subseteq subs'.live
          /\ job.at \in {"transfer", "usage", "ensure"} => subs'.dated \subseteq subs.dated
      <3>1. ASSUME NEW b \in Accounts, b \in job.todo, JobWrites(b)
            PROVE  /\ job.at \in {"transfer", "usage", "ensure", "inactive"}
                         => subs.live \subseteq subs'.live
                   /\ job.at \in {"transfer", "usage", "ensure"} => subs'.dated \subseteq subs.dated
        BY <3>1, Written DEF JobWrites
      <3> QED BY <3>1, JobSubs DEF MptSame
    <2> QED BY <1>2, <2>1, <2>2 DEF Snapshot
  <1>6. CASE GetAcceptedTransfer
    <2>1. /\ job'.at = "usage" \/ (job'.at = "lost" /\ transfer = "WITHDRAWN")
          /\ job'.snap = job.snap /\ job'.found = job.found
          /\ job.at = "transfer" /\ subs' = subs
      <3>1. \/ Stage("usage", {})
            \/ Stage("lost", Existing) /\ ~Accepted
        BY <1>6 DEF GetAcceptedTransfer
      <3>2. Accepted \/ transfer = "WITHDRAWN"
        BY DEF Accepted, TypeOK
      <3>3. /\ job'.snap = job.snap /\ job'.found = job.found
            /\ job'.at = "usage" \/ (job'.at = "lost" /\ ~Accepted)
        BY <1>2, <3>1 DEF Stage, Jobs
      <3> QED BY <1>6, <3>2, <3>3 DEF GetAcceptedTransfer, MptSame
    <2> QED BY <1>2, <2>1 DEF Snapshot
  <1>7. CASE GetLinkedAccountsWithUsage
    <2>1. PICK found : job' = [job EXCEPT !.at = "ensure", !.found = found, !.todo = found]
      BY <1>7 DEF GetLinkedAccountsWithUsage
    <2>2. job'.at = "ensure" /\ job'.snap = job.snap /\ job'.todo = job'.found
      BY <1>2, <2>1 DEF Jobs
    <2>3. subs' = subs /\ job.at = "usage"
      BY <1>7 DEF GetLinkedAccountsWithUsage, MptSame
    <2> QED BY <2>2, <2>3 DEF Snapshot
  <1>8. CASE HandleInactiveSubscriptions
    <2>1. /\ job'.at = "inactive" /\ job'.snap = job.snap /\ job'.todo \subseteq job.snap.live
          /\ job.at = "ensure" /\ subs' = subs
      BY <1>2, <1>8 DEF HandleInactiveSubscriptions, Stage, Jobs, MptSame
    <2> QED BY <2>1 DEF Snapshot
  <1>9. CASE TerminateExpiredSubscriptions
    <2>1. /\ job'.at = "expire" /\ job'.snap = job.snap /\ job'.todo = Expired
      BY <1>2, <1>9 DEF TerminateExpiredSubscriptions, Stage, Jobs
    <2> QED BY <2>1 DEF Snapshot, Expired
  <1>10. CASE DeleteBillingGroup
    <2>1. /\ job'.at = "relationship" /\ job'.snap = job.snap /\ job.at = "lost"
          /\ job'.found = job.found
      BY <1>2, <1>10 DEF DeleteBillingGroup, Stage, Jobs
    <2> QED BY <1>2, <2>1 DEF Snapshot
  <1> HIDE DEF S
  <1> QED BY <1>3, <1>4, <1>5, <1>6, <1>7, <1>8, <1>9, <1>10, JobStep

LEMMA WorkerFrame ==
    ASSUME TypeOK, TerminationNext
    PROVE  /\ UNCHANGED <<subs, job, unused, committed, used>>
           /\ \/ UNCHANGED <<transfer, withdrawer>>
              \/ /\ run = "transfer" /\ run' = "group" /\ UNCHANGED mptVars /\ Accepted
                 /\ committed = "over" /\ transfer' = "ENDING" /\ withdrawer' = "order"
  <1>1. UNCHANGED <<subs, job, unused, committed, used>>
    BY DEF TerminationNext, TerminationStep, PollTermination, ValidateTerminationOrder,
           TerminateResponsibilityTransfer, EndTransfer, RemoveBillingGroup, RemoveRelationship,
           TerminateFinOpsEntitlement, CRMTicketTerminateOrder, CompleteTerminationOrder,
           TerminationStops, WorkerRestarts, Keep, Goes, FailOrder, MptHolds, mptVars, jobVars
  <1>2. CASE TerminateResponsibilityTransfer
    BY <1>1, <1>2 DEF TerminateResponsibilityTransfer, EndTransfer, TransferSame, At, Goes
  <1>3. CASE \/ PollTermination \/ ValidateTerminationOrder \/ RemoveBillingGroup
             \/ RemoveRelationship \/ TerminateFinOpsEntitlement \/ CRMTicketTerminateOrder
             \/ CompleteTerminationOrder \/ TerminationStops \/ WorkerRestarts
    BY <1>1, <1>3
       DEF PollTermination, ValidateTerminationOrder, RemoveBillingGroup, RemoveRelationship,
           TerminateFinOpsEntitlement, CRMTicketTerminateOrder, CompleteTerminationOrder,
           TerminationStops, WorkerRestarts, TransferSame
  <1> QED BY <1>2, <1>3 DEF TerminationNext, TerminationStep

LEMMA MonthFrame ==
    ASSUME TypeOK, MonthPasses
    PROVE  /\ subs' \in Subs /\ subs'.live = subs.live /\ subs'.dated = subs.dated
           /\ job'.snap \in Subs /\ job'.snap.live = job.snap.live
           /\ job'.snap.dated = job.snap.dated
           /\ \A a \in Accounts :
                 /\ subs'.left[a] = IF subs.left[a] = 0 THEN 0 ELSE subs.left[a] - 1
                 /\ job'.snap.left[a] = IF job.snap.left[a] = 0 THEN 0 ELSE job.snap.left[a] - 1
                 /\ unused'[a] = IF unused[a] = Inactivity THEN unused[a] ELSE unused[a] + 1
           /\ job'.at = job.at /\ job'.todo = job.todo /\ job'.found = job.found
           /\ job'.master = job.master
           /\ transfer' = IF transfer = "ENDING" THEN "WITHDRAWN" ELSE transfer
           /\ UNCHANGED <<agreement, master, order, withdrawer, group, relationship,
                          missed, entitled, run, faults, committed>>
  <1>1. subs \in Subs /\ job \in Jobs /\ job.snap \in Subs
    BY JobTypes DEF TypeOK
  <1>2. subs' = MonthOn(subs) /\ job' = [job EXCEPT !.snap = MonthOn(job.snap)]
    BY <1>1 DEF MonthPasses, Jobs
  <1>3. job'.snap = MonthOn(job.snap) /\ job'.at = job.at /\ job'.todo = job.todo
        /\ job'.found = job.found /\ job'.master = job.master
    BY <1>1, <1>2 DEF Jobs
  <1>4. /\ \A a \in Accounts :
              unused'[a] = IF unused[a] = Inactivity THEN unused[a] ELSE unused[a] + 1
        /\ transfer' = IF transfer = "ENDING" THEN "WITHDRAWN" ELSE transfer
        /\ UNCHANGED <<agreement, master, order, withdrawer, group, relationship,
                       missed, entitled, run, faults, committed>>
    BY DEF MonthPasses, AwsKeep
  <1> QED BY <1>1, <1>2, <1>3, <1>4, MonthTypes

LEMMA EnvironmentFrame ==
    ASSUME Environment, ~MonthPasses
    PROVE  /\ UNCHANGED <<subs, job, unused, run, group, relationship, missed, entitled, faults>>
           /\ \/ UNCHANGED <<agreement, master, order, transfer, withdrawer>>
              \/ /\ transfer = "ACCEPTED" /\ transfer' = "WITHDRAWN"
                 /\ withdrawer' = "customer" /\ UNCHANGED <<agreement, master, order, committed>>
              \/ /\ agreement = "Active" /\ order' = "Processing" /\ UNCHANGED transfer
                 /\ agreement' = MptStatus(master', subs, order') /\ UNCHANGED committed
                 /\ master' = master \/ (master = "Active" /\ master' = "Terminating")
                 /\ withdrawer' = IF withdrawer = "order" THEN "earlier order" ELSE withdrawer
           /\ committed' = committed \/ committed' = "over"
              \/ (committed = "open" /\ committed' = "accepted")
  <1>1. CASE OrderMaster \/ OrderLinked
    BY <1>1 DEF OrderMaster, OrderLinked, Order, MptHolds, CustomerKeep, jobVars
  <1>2. CASE CustomerWithdraws
    BY <1>2 DEF CustomerWithdraws, CustomerKeep, jobVars, mptVars
  <1>3. CASE CommitmentMoves \/ UsageAppears
    BY <1>3 DEF CommitmentMoves, UsageAppears, AwsKeep, jobVars
  <1> QED BY <1>1, <1>2, <1>3 DEF Environment

LEMMA TypeNext ==
    ASSUME TypeOK, Snapshot, [Next]_vars
    PROVE  TypeOK'
  <1>1. CASE UNCHANGED vars
    <2>1. /\ UNCHANGED <<mptVars, transfer, withdrawer>>
          /\ UNCHANGED <<group, relationship, missed, entitled, run, job, unused, faults>>
          /\ UNCHANGED <<committed, used>>
      BY <1>1 DEF vars, awsVars, jobVars
    <2> QED BY <2>1, SameTypes DEF TypeOK
  <1> QED BY <1>1, WorkerTypes, SyncTypes, EnvironmentTypes DEF Next

LEMMA SnapshotNext ==
    ASSUME TypeOK, Snapshot, [Next]_vars
    PROVE  Snapshot'
  <1>1. CASE TerminationNext
    <2>1. UNCHANGED <<subs, job>> /\ (transfer = "WITHDRAWN" => transfer' = "WITHDRAWN")
      BY <1>1, WorkerFrame DEF Accepted
    <2> QED BY <2>1 DEF Snapshot
  <1>2. CASE MonthPasses
    <2>1. /\ job.snap.dated \subseteq Accounts /\ job.snap.live \subseteq Accounts
          /\ job.at = "expire" => job.todo \subseteq Accounts
      BY JobTypes DEF Snapshot
    <2> QED BY <1>2, <2>1, MonthFrame DEF Snapshot
  <1>3. CASE Environment /\ ~MonthPasses
    <2>1. UNCHANGED <<subs, job>> /\ (transfer = "WITHDRAWN" => transfer' = "WITHDRAWN")
      BY <1>3, EnvironmentFrame
    <2> QED BY <2>1 DEF Snapshot
  <1>4. CASE UNCHANGED vars
    BY <1>4 DEF vars, mptVars, awsVars, jobVars, Snapshot
  <1> QED BY <1>1, <1>2, <1>3, <1>4, SnapshotSync DEF Next

(* The account whose months begin anew is one the pass has found in use.   *)
LEMMA WaitedSync ==
    ASSUME TypeOK, Snapshot, Waited, SyncNext
    PROVE  Waited'
  <1>1. /\ unused \in [Accounts -> 0..Inactivity] /\ unused' \in [Accounts -> 0..Inactivity]
        /\ subs.left \in [Accounts -> 0..Inactivity] /\ subs.dated \subseteq Accounts
        /\ subs'.left \in [Accounts -> 0..Inactivity] /\ subs'.dated \subseteq Accounts
        /\ job.snap.left \in [Accounts -> 0..Inactivity] /\ job.snap.dated \subseteq Accounts
        /\ job \in Jobs /\ Inactivity \in Nat
    BY JobTypes, SyncTypes, AgreementAssumption DEF TypeOK, Subs
  <1>2. \A b \in subs'.dated : \/ b \in subs.dated /\ subs'.left[b] = subs.left[b]
                               \/ subs'.left[b] = Inactivity
    BY JobSubs, Written DEF MptSame
  <1>3. \A b \in Accounts : unused'[b] = unused[b] \/ (b \notin subs'.dated /\ b \in job.found
                                                       /\ job.at = "ensure")
    BY <1>1, UnusedStep DEF Snapshot
  <1>4. \A b \in subs'.dated : unused'[b] + subs'.left[b] >= Inactivity
    <2>1. TAKE b \in subs'.dated
    <2>2. b \in Accounts /\ unused'[b] = unused[b] /\ unused[b] \in Nat
      BY <1>1, <1>3
    <2>3. CASE b \in subs.dated /\ subs'.left[b] = subs.left[b]
      BY <2>2, <2>3 DEF Waited
    <2>4. CASE subs'.left[b] = Inactivity
      BY <1>1, <2>2, <2>4
    <2> QED BY <1>2, <2>3, <2>4
  <1>5. job'.at # "idle" =>
          \A b \in job'.snap.dated \ job'.found : unused'[b] + job'.snap.left[b] >= Inactivity
    <2>1. CASE job' = IdleJob
      BY <2>1, IdleTypes
    <2>2. CASE FetchAgreement
      <3>1. /\ job'.snap = subs /\ job'.found = {} /\ UNCHANGED <<subs, unused>>
        BY <2>2 DEF FetchAgreement, MptSame
      <3> QED BY <1>4, <3>1
    <2>3. ASSUME job'.snap = job.snap, job.at # "idle",
                 job'.found = job.found \/ (job.found = {} /\ job.at = "usage")
          PROVE  \A b \in job'.snap.dated \ job'.found :
                    unused'[b] + job'.snap.left[b] >= Inactivity
      <3>1. TAKE b \in job'.snap.dated \ job'.found
      <3>2. b \in Accounts /\ b \in job.snap.dated \ job.found /\ unused'[b] = unused[b]
        BY <1>1, <1>3, <2>3
      <3> QED BY <2>3, <3>2 DEF Waited
    <2>4. ASSUME NEW a \in Accounts \cup {Master}, a \in job.todo, Seen(a)
          PROVE  job'.snap = job.snap /\ job'.found = job.found /\ job'.at = job.at
      BY <1>1, <2>4, SeenTypes
    <2>5. ASSUME \/ GetAcceptedTransfer \/ HandleInactiveSubscriptions
                 \/ TerminateExpiredSubscriptions \/ DeleteBillingGroup
          PROVE  job'.snap = job.snap /\ job'.found = job.found /\ job.at # "idle"
      BY <1>1, <2>5 DEF GetAcceptedTransfer, HandleInactiveSubscriptions,
             TerminateExpiredSubscriptions, DeleteBillingGroup, Stage, Jobs
    <2>6. ASSUME GetLinkedAccountsWithUsage
          PROVE  job'.snap = job.snap /\ job.found = {} /\ job.at = "usage"
      BY <1>1, <2>6 DEF GetLinkedAccountsWithUsage, Jobs, Snapshot
    <2> QED BY <2>1, <2>2, <2>3, <2>4, <2>5, <2>6, JobStep
  <1> QED BY <1>4, <1>5 DEF Waited

LEMMA WaitedNext ==
    ASSUME TypeOK, Snapshot, Waited, [Next]_vars
    PROVE  Waited'
  <1>1. CASE TerminationNext \/ (Environment /\ ~MonthPasses) \/ UNCHANGED vars
    <2>1. UNCHANGED <<subs, job, unused>>
      BY <1>1, WorkerFrame, EnvironmentFrame DEF vars, mptVars, jobVars
    <2> QED BY <2>1 DEF Waited
  <1>2. CASE MonthPasses
    <2>1. /\ unused \in [Accounts -> 0..Inactivity] /\ subs.left \in [Accounts -> 0..Inactivity]
          /\ job.snap.left \in [Accounts -> 0..Inactivity] /\ Inactivity \in Nat
          /\ subs.dated \subseteq Accounts /\ job.snap.dated \subseteq Accounts
      BY JobTypes, AgreementAssumption DEF TypeOK
    <2>2. ASSUME NEW u \in 0..Inactivity, NEW l \in 0..Inactivity, u + l >= Inactivity
          PROVE  (IF u = Inactivity THEN u ELSE u + 1) + (IF l = 0 THEN 0 ELSE l - 1)
                    >= Inactivity
      BY <2>1, <2>2
    <2>3. ASSUME NEW a \in Accounts, unused[a] + subs.left[a] >= Inactivity
          PROVE  unused'[a] + subs'.left[a] >= Inactivity
      BY <1>2, <2>1, <2>2, <2>3, MonthFrame
    <2>4. ASSUME NEW a \in Accounts, unused[a] + job.snap.left[a] >= Inactivity
          PROVE  unused'[a] + job'.snap.left[a] >= Inactivity
      BY <1>2, <2>1, <2>2, <2>4, MonthFrame
    <2> QED BY <1>2, <2>1, <2>3, <2>4, MonthFrame DEF Waited
  <1> QED BY <1>1, <1>2, WaitedSync DEF Next

-----------------------------------------------------------------------------
(* The order and the worker.                                               *)

(* What a step of the worker does to the order.                            *)
LEMMA WorkerOrder ==
    ASSUME TypeOK, Statuses, TerminationNext
    PROVE  /\ \/ UNCHANGED mptVars
              \/ /\ order = "Processing" /\ order' = "Failed" /\ run' = "idle"
                 /\ \/ run = "validate" /\ master # "Terminating"
                    \/ run = "transfer" /\ (transfer = "ACCEPTED" \/ committed = "accepted")
                       /\ Accepted
                 /\ master' = IF master = "Terminating" THEN "Active" ELSE master
                 /\ agreement' = MptStatus(master', subs', order')
                 /\ UNCHANGED <<transfer, withdrawer>>
              \/ /\ run = "complete" /\ order' = "Completed" /\ run' = "idle"
                 /\ master' = "Terminated" /\ agreement' = MptStatus(master', subs', order')
                 /\ UNCHANGED <<transfer, withdrawer>>
           /\ run' # "idle" => order = "Processing" /\ UNCHANGED mptVars
           /\ run' \notin {"idle", "validate"} => Validated \/ master = "Terminating"
           /\ Validated' => Validated \/ UNCHANGED <<transfer, withdrawer>>
  <1>1. UNCHANGED subs
    BY WorkerFrame
  <1>2. CASE TerminateResponsibilityTransfer
    BY <1>1, <1>2
       DEF TerminateResponsibilityTransfer, EndTransfer, TransferSame, At, Goes, FailOrder,
           MptHolds, Statuses, Validated, mptVars
  <1>3. CASE ValidateTerminationOrder
    BY <1>1, <1>3
       DEF ValidateTerminationOrder, TransferSame, At, Goes, FailOrder, MptHolds, Statuses,
           Validated, mptVars
  <1>4. CASE CompleteTerminationOrder
    BY <1>1, <1>4 DEF CompleteTerminationOrder, TransferSame, At, MptHolds
  <1>5. CASE \/ PollTermination \/ RemoveBillingGroup \/ RemoveRelationship
             \/ TerminateFinOpsEntitlement \/ CRMTicketTerminateOrder \/ TerminationStops
             \/ WorkerRestarts
    BY <1>5
       DEF PollTermination, RemoveBillingGroup, RemoveRelationship, TerminateFinOpsEntitlement,
           CRMTicketTerminateOrder, TerminationStops, WorkerRestarts, TransferSame, At, Goes,
           Statuses, Validated, RunPoints
  <1> QED BY <1>2, <1>3, <1>4, <1>5 DEF TerminationNext, TerminationStep

(* What a step of the job does to the master payer's subscription.         *)
LEMMA JobMaster ==
    ASSUME TypeOK, Snapshot, Statuses, SyncNext
    PROVE  /\ agreement' = MptStatus(master', subs', order')
           /\ \/ master' = master
              \/ /\ job.at = "ensure" /\ master' = "Active" /\ ~job.master
                 /\ Master \in job.todo /\ Seen(Master)
              \/ job.at = "lost" /\ master' = "Terminated" /\ transfer = "WITHDRAWN"
           /\ UNCHANGED <<order, transfer, withdrawer, committed, run, entitled>>
  <1>1. UNCHANGED <<order, transfer, withdrawer, committed, run, entitled>>
    BY JobFrame
  <1>2. CASE MptSame
    BY <1>1, <1>2 DEF MptSame, Statuses
  <1>3. CASE \E a \in Accounts : a \in job.todo /\ Seen(a) /\ JobWrites(a)
    <2>1. PICK a \in Accounts : a \in job.todo /\ JobWrites(a)
      BY <1>3
    <2>2. master' = master /\ agreement' = MptStatus(master', subs', order)
      BY <2>1, Written
    <2> QED BY <1>1, <2>2
  <1>4. CASE /\ subs' = subs /\ UNCHANGED unused /\ Master \in job.todo /\ Seen(Master)
             /\ agreement' = MptStatus(master', subs, order)
             /\ \/ job.at = "ensure" /\ master' = "Active" /\ Master \notin Existing
                \/ job.at = "lost" /\ master' = "Terminated"
    <2>1. Master \notin Existing => ~job.master
      BY DEF Existing
    <2>2. job.at = "lost" => transfer = "WITHDRAWN"
      BY DEF Snapshot
    <2> QED BY <1>1, <1>4, <2>1, <2>2
  <1> QED BY <1>2, <1>3, <1>4, JobSubs

LEMMA StatusesNext ==
    ASSUME TypeOK, Snapshot, Statuses, [Next]_vars
    PROVE  Statuses'
  <1>1. CASE TerminationNext
    <2>1. CASE UNCHANGED mptVars
      <3>1. run' # "idle" => order = "Processing"
        BY <1>1, WorkerOrder
      <3> QED BY <2>1, <3>1 DEF Statuses, mptVars
    <2>2. CASE /\ order = "Processing" /\ order' = "Failed" /\ run' = "idle"
               /\ master' = IF master = "Terminating" THEN "Active" ELSE master
               /\ agreement' = MptStatus(master', subs', order')
      BY <2>2 DEF Statuses
    <2>3. CASE /\ order' = "Completed" /\ run' = "idle" /\ master' = "Terminated"
               /\ agreement' = MptStatus(master', subs', order')
      BY <2>3 DEF Statuses
    <2> QED BY <1>1, <2>1, <2>2, <2>3, WorkerOrder
  <1>2. CASE SyncNext
    <2>1. UNCHANGED <<order, run>> /\ agreement' = MptStatus(master', subs', order')
          /\ (master' = "Terminating" => master = "Terminating")
      BY <1>2, JobMaster
    <2> QED BY <2>1 DEF Statuses
  <1>3. CASE MonthPasses
    <2>1. subs'.live = subs.live /\ UNCHANGED <<agreement, master, order, run>>
      BY <1>3, MonthFrame
    <2> QED BY <2>1 DEF Statuses, MptStatus
  <1>4. CASE Environment /\ ~MonthPasses
    <2>1. UNCHANGED <<subs, run>>
          /\ \/ UNCHANGED <<agreement, master, order>>
             \/ order' = "Processing" /\ agreement' = MptStatus(master', subs, order')
      BY <1>4, EnvironmentFrame
    <2> QED BY <2>1 DEF Statuses
  <1>5. CASE UNCHANGED vars
    BY <1>5 DEF vars, mptVars, Statuses
  <1> QED BY <1>1, <1>2, <1>3, <1>4, <1>5 DEF Next

(* While an order is in hand, the agreement takes no other.                *)
LEMMA NoSecondOrder ==
    ASSUME Statuses, agreement = "Active"
    PROVE  order # "Processing" /\ run = "idle" /\ master # "Terminating"
    BY DEF Statuses, MptStatus

LEMMA OrderedNext ==
    ASSUME TypeOK, Snapshot, Statuses, Ordered, Recreated, [Next]_vars
    PROVE  Ordered'
  <1>1. CASE TerminationNext
    <2>1. UNCHANGED committed
      BY <1>1, WorkerFrame
    <2>2. CASE UNCHANGED <<transfer, withdrawer>> /\ UNCHANGED mptVars
      <3>1. Validated' => Validated \/ master = "Terminating"
        BY <1>1, WorkerOrder DEF Validated
      <3> QED BY <2>1, <2>2, <3>1 DEF Ordered, Validated, mptVars
    <2>3. CASE /\ run = "transfer" /\ run' = "group" /\ UNCHANGED mptVars /\ Accepted
               /\ committed = "over" /\ transfer' = "ENDING" /\ withdrawer' = "order"
      <3>1. master = "Terminating" /\ order = "Processing" /\ Validated
        BY <2>3 DEF Ordered, Validated, Accepted, Statuses
      <3> QED BY <2>1, <2>3, <3>1 DEF Ordered, Validated, mptVars
    <2>4. CASE /\ order = "Processing" /\ order' = "Failed" /\ run' = "idle"
               /\ \/ run = "validate" /\ master # "Terminating"
                  \/ run = "transfer" /\ (transfer = "ACCEPTED" \/ committed = "accepted")
                     /\ Accepted
               /\ master' = IF master = "Terminating" THEN "Active" ELSE master
               /\ UNCHANGED <<transfer, withdrawer>>
      <3>1. withdrawer = "order" => run = "validate"
        BY <2>4 DEF Ordered, Validated
      <3> QED BY <2>1, <2>4, <3>1 DEF Ordered, Validated
    <2>5. CASE order' = "Completed" /\ run' = "idle" /\ UNCHANGED <<transfer, withdrawer>>
      BY <2>1, <2>5 DEF Ordered, Validated
    <2> QED BY <1>1, <2>2, <2>3, <2>4, <2>5, WorkerFrame, WorkerOrder
  <1>2. CASE SyncNext
    <2>1. UNCHANGED <<order, transfer, withdrawer, committed, run>>
      BY <1>2, JobMaster
    <2>2. CASE master' = master
      BY <2>1, <2>2 DEF Ordered, Validated
    <2>3. CASE job.at = "ensure" /\ ~job.master /\ Master \in job.todo
      <3>1. /\ master = "Terminated" /\ ~Validated
            /\ (order = "Processing" => withdrawer # "order")
            /\ ~(order = "Failed" /\ withdrawer = "order")
        BY <2>3 DEF Recreated, Recreating, Validated
      <3> QED BY <2>1, <3>1 DEF Ordered, Validated
    <2>4. CASE master' = "Terminated" /\ transfer = "WITHDRAWN"
      BY <2>1, <2>4 DEF Ordered, Validated
    <2> QED BY <1>2, <2>2, <2>3, <2>4, JobMaster
  <1>3. CASE MonthPasses
    BY <1>3, MonthFrame DEF Ordered, Validated
  <1>4. CASE Environment /\ ~MonthPasses
    <2>1. UNCHANGED run /\ (committed = "over" => committed' = "over")
      BY <1>4, EnvironmentFrame DEF Environment, CommitmentMoves
    <2>2. CASE UNCHANGED <<agreement, master, order, transfer, withdrawer>>
      BY <2>1, <2>2 DEF Ordered, Validated
    <2>3. CASE /\ transfer = "ACCEPTED" /\ transfer' = "WITHDRAWN" /\ withdrawer' = "customer"
               /\ UNCHANGED <<agreement, master, order, committed>>
      BY <2>1, <2>3 DEF Ordered, Validated
    <2>4. CASE /\ agreement = "Active" /\ order' = "Processing" /\ UNCHANGED transfer
               /\ withdrawer' = IF withdrawer = "order" THEN "earlier order" ELSE withdrawer
      BY <2>1, <2>4, NoSecondOrder DEF Ordered, Validated
    <2> QED BY <1>4, <2>2, <2>3, <2>4, EnvironmentFrame
  <1>5. CASE UNCHANGED vars
    BY <1>5 DEF vars, mptVars, awsVars, Ordered, Validated
  <1> QED BY <1>1, <1>2, <1>3, <1>4, <1>5 DEF Next

LEMMA RecreatedSync ==
    ASSUME TypeOK, Snapshot, Statuses, Ordered, Recreated, SyncNext
    PROVE  Recreated'
  <1> DEFINE again == ~job'.master /\ job'.at \in {"transfer", "usage", "ensure"}
                      /\ (job'.at = "ensure" => Master \in job'.todo)
             R == again => /\ master' = "Terminated" /\ ~Validated'
                           /\ order' = "Processing" => withdrawer' # "order"
                           /\ order' = "Failed" /\ withdrawer' = "order"
                                 => job'.at = "transfer"
  <1>1. SUFFICES R
    BY DEF Recreated, Recreating, Validated
  <1>2. job \in Jobs /\ UNCHANGED <<order, transfer, withdrawer, run>>
    BY JobTypes, JobMaster
  <1>3. CASE job' = IdleJob
    BY <1>3, IdleTypes
  <1>4. CASE FetchAgreement
    <2>1. agreement = "Active" /\ job'.at = "transfer" /\ job'.master = (master = "Active")
          /\ master' = master
      BY <1>4 DEF FetchAgreement, MptSame
    <2>2. master = "Active" \/ master = "Terminated"
      BY <2>1, NoSecondOrder DEF TypeOK
    <2>3. order # "Processing" /\ ~Validated'
      BY <1>2, <2>1, NoSecondOrder DEF Validated
    <2> QED BY <1>2, <2>1, <2>2, <2>3
  <1>5. ASSUME NEW a \in Accounts \cup {Master}, a \in job.todo, Seen(a) PROVE R
    <2>1. /\ job'.at = job.at /\ job'.todo = job.todo \ {a} /\ job'.master = job.master
      BY <1>2, <1>5, SeenTypes
    <2>2. job.at = "ensure" /\ Seen(Master) => Master \notin job'.todo
      BY <1>2, SeenTypes
    <2>3. CASE again
      <3>1. job.at \in {"transfer", "usage", "ensure"} /\ ~job.master
            /\ (job.at = "ensure" => Master \in job.todo)
        BY <2>1, <2>3
      <3>2. /\ master = "Terminated" /\ ~Validated'
            /\ (order = "Processing" => withdrawer # "order")
            /\ (order = "Failed" /\ withdrawer = "order" => job.at = "transfer")
        BY <1>2, <3>1 DEF Recreated, Recreating, Validated
      <3>3. master' = master
        BY <2>1, <2>2, <2>3, <3>1, JobMaster
      <3> QED BY <1>2, <2>1, <3>2, <3>3
    <2> HIDE DEF again
    <2> QED BY <2>3
  <1>6. CASE GetAcceptedTransfer
    <2>1. /\ job.at = "transfer" /\ job'.master = job.master
          /\ job'.at = "lost" \/ (job'.at = "usage" /\ Accepted)
          /\ master' = master
      <3>1. \/ Stage("usage", {}) /\ Accepted
            \/ Stage("lost", Existing)
        BY <1>6 DEF GetAcceptedTransfer
      <3>2. job'.master = job.master /\ (job'.at = "lost" \/ (job'.at = "usage" /\ Accepted))
        BY <1>2, <3>1 DEF Stage, Jobs
      <3> QED BY <1>6, <3>2 DEF GetAcceptedTransfer, MptSame
    <2>2. Accepted => ~(order = "Failed" /\ withdrawer = "order")
      BY DEF Accepted, Ordered, Validated
    <2>3. ~job.master => /\ master = "Terminated" /\ ~Validated'
                         /\ order = "Processing" => withdrawer # "order"
      BY <1>2, <2>1 DEF Recreated, Recreating, Validated
    <2> QED BY <1>2, <2>1, <2>2, <2>3
  <1>7. CASE GetLinkedAccountsWithUsage
    <2>1. PICK found : job' = [job EXCEPT !.at = "ensure", !.found = found, !.todo = found]
      BY <1>7 DEF GetLinkedAccountsWithUsage
    <2>2. job'.at = "ensure" /\ job'.master = job.master
      BY <1>2, <2>1 DEF Jobs
    <2>3. master' = master /\ job.at = "usage"
      BY <1>7 DEF GetLinkedAccountsWithUsage, MptSame
    <2> QED BY <1>2, <2>2, <2>3 DEF Recreated, Recreating, Validated
  <1>8. CASE HandleInactiveSubscriptions \/ TerminateExpiredSubscriptions \/ DeleteBillingGroup
    <2>1. job'.at \in {"inactive", "expire", "relationship"}
      BY <1>2, <1>8 DEF HandleInactiveSubscriptions, TerminateExpiredSubscriptions,
                        DeleteBillingGroup, Stage, Jobs
    <2> QED BY <2>1
  <1> HIDE DEF R
  <1> QED BY <1>3, <1>4, <1>5, <1>6, <1>7, <1>8, JobStep

LEMMA RecreatedNext ==
    ASSUME TypeOK, Snapshot, Statuses, Ordered, Recreated, [Next]_vars
    PROVE  Recreated'
  <1>1. CASE TerminationNext
    <2>1. UNCHANGED job /\ (Validated' => Validated \/ master = "Terminating")
      BY <1>1, WorkerFrame, WorkerOrder DEF Validated
    <2>2. CASE UNCHANGED <<transfer, withdrawer>> /\ UNCHANGED mptVars
      BY <2>1, <2>2 DEF Recreated, Recreating, Validated, mptVars
    <2>3. CASE run = "transfer" /\ Accepted /\ UNCHANGED mptVars
      <3>1. master = "Terminating"
        BY <2>3 DEF Ordered, Validated, Accepted
      <3> QED BY <2>1, <2>3, <3>1 DEF Recreated, Recreating, Validated
    <2>4. CASE /\ order = "Processing" /\ order' = "Failed" /\ run' = "idle"
               /\ master' = IF master = "Terminating" THEN "Active" ELSE master
               /\ UNCHANGED <<transfer, withdrawer>>
      BY <2>1, <2>4 DEF Recreated, Recreating, Validated
    <2>5. CASE order' = "Completed" /\ master' = "Terminated" /\ run' = "idle"
      BY <2>1, <2>5 DEF Recreated, Recreating, Validated
    <2> QED BY <1>1, <2>2, <2>3, <2>4, <2>5, WorkerFrame, WorkerOrder
  <1>2. CASE MonthPasses
    BY <1>2, MonthFrame DEF Recreated, Recreating, Validated
  <1>3. CASE Environment /\ ~MonthPasses
    BY <1>3, EnvironmentFrame DEF Recreated, Recreating, Validated
  <1>4. CASE UNCHANGED vars
    BY <1>4 DEF vars, mptVars, awsVars, jobVars, Recreated, Recreating, Validated
  <1> QED BY <1>1, <1>2, <1>3, <1>4, RecreatedSync DEF Next

-----------------------------------------------------------------------------
(* What is removed.                                                        *)

LEMMA RemovedWorker ==
    ASSUME TypeOK, Statuses, Ordered, Removed, TerminationNext
    PROVE  Removed'
  <1>1. CASE PollTermination
    BY <1>1 DEF PollTermination, At, Goes, TransferSame, mptVars, Removed
  <1>2. CASE ValidateTerminationOrder
    BY <1>2 DEF ValidateTerminationOrder, At, Goes, FailOrder, MptHolds, TransferSame, mptVars,
                Removed
  <1>3. CASE TerminateResponsibilityTransfer
    <2>1. run = "transfer" /\ UNCHANGED <<group, relationship, missed, entitled, faults>>
      BY <1>3 DEF TerminateResponsibilityTransfer, At
    <2>2. \/ run' = "entitlements" /\ UNCHANGED mptVars /\ TransferSame
          \/ run' = "group" /\ UNCHANGED mptVars /\ transfer' = "ENDING"
          \/ run' = "idle" /\ order' = "Failed" /\ TransferSame
      BY <1>3 DEF TerminateResponsibilityTransfer, EndTransfer, Goes, FailOrder, MptHolds
    <2> QED BY <2>1, <2>2 DEF TransferSame, mptVars, Removed
  <1>4. CASE RemoveBillingGroup
    BY <1>4 DEF RemoveBillingGroup, Misses, At, Goes, TransferSame, mptVars, Removed
  <1>5. CASE RemoveRelationship
    BY <1>5 DEF RemoveRelationship, Misses, At, Goes, TransferSame, mptVars, Removed
  <1>6. CASE TerminateFinOpsEntitlement
    <2>1. order = "Processing"
      BY <1>6 DEF TerminateFinOpsEntitlement, At, Statuses
    <2> QED BY <1>6, <2>1
            DEF TerminateFinOpsEntitlement, At, Goes, TransferSame, mptVars, Removed
  <1>7. CASE CRMTicketTerminateOrder
    BY <1>7 DEF CRMTicketTerminateOrder, At, Goes, TransferSame, mptVars, Removed
  <1>8. CASE CompleteTerminationOrder
    BY <1>8 DEF CompleteTerminationOrder, At, MptHolds, TransferSame, Removed
  <1>9. CASE TerminationStops
    BY <1>9 DEF TerminationStops, Goes, TransferSame, mptVars, Removed
  <1>10. CASE WorkerRestarts
    BY <1>10 DEF WorkerRestarts, Misses, Goes, TransferSame, mptVars, Removed
  <1> QED BY <1>1, <1>2, <1>3, <1>4, <1>5, <1>6, <1>7, <1>8, <1>9, <1>10
          DEF TerminationNext, TerminationStep

LEMMA RemovedNext ==
    ASSUME TypeOK, Snapshot, Statuses, Ordered, Removed, [Next]_vars
    PROVE  Removed'
  <1>1. CASE SyncNext
    <2>1. UNCHANGED <<order, transfer, withdrawer, run, entitled>>
      BY <1>1, JobFrame
    <2>2. /\ group' = group \/ (group' = FALSE /\ transfer = "WITHDRAWN")
          /\ relationship' = relationship \/ (relationship' = FALSE /\ transfer = "WITHDRAWN")
      BY <1>1, JobFrame DEF Snapshot
    <2>3. /\ group' => group
          /\ relationship' => relationship
          /\ transfer = "ACCEPTED" => (group => group') /\ (relationship => relationship')
      BY <2>2
    <2>4. /\ "group" \in missed /\ group' => "group" \in missed'
          /\ "relationship" \in missed /\ relationship' => "relationship" \in missed'
      BY <1>1, JobFrame DEF Misses
    <2> HIDE <2>2
    <2> QED BY <2>1, <2>3, <2>4 DEF Removed
  <1>2. CASE MonthPasses
    <2>1. /\ transfer' = "ACCEPTED" => transfer = "ACCEPTED"
          /\ UNCHANGED <<order, withdrawer, group, relationship, missed, entitled, run, faults>>
      BY <1>2, MonthFrame
    <2> QED BY <2>1 DEF Removed
  <1>3. CASE Environment /\ ~MonthPasses
    <2>1. UNCHANGED <<run, group, relationship, missed, entitled, faults>>
      BY <1>3, EnvironmentFrame
    <2>2. \/ UNCHANGED <<order, transfer, withdrawer>>
          \/ transfer' = "WITHDRAWN" /\ withdrawer' = "customer" /\ UNCHANGED order
          \/ /\ agreement = "Active" /\ order' = "Processing" /\ UNCHANGED transfer
             /\ withdrawer' = IF withdrawer = "order" THEN "earlier order" ELSE withdrawer
      BY <1>3, EnvironmentFrame
    <2> QED BY <2>1, <2>2 DEF Removed
  <1>4. CASE UNCHANGED vars
    BY <1>4 DEF vars, mptVars, awsVars, Removed
  <1> QED BY <1>1, <1>2, <1>3, <1>4, RemovedWorker DEF Next

-----------------------------------------------------------------------------
(* The theorems.                                                           *)

LEMMA InvariantHolds == Spec => [](TypeOK /\ IInv)
  <1>1. Init => TypeOK /\ IInv
    <2> SUFFICES ASSUME Init PROVE TypeOK /\ IInv
      OBVIOUS
    <2>1. /\ NoSubs \in Subs /\ NoSubs.dated = {}
          /\ subs = [NoSubs EXCEPT !.live = Accounts]
      BY NoSubsTypes DEF Init
    <2>2. subs \in Subs /\ subs.live = Accounts /\ subs.dated = {}
      BY <2>1 DEF Subs
    <2>3. TypeOK
      <3>1. job \in Jobs
        BY IdleTypes DEF Init
      <3>2. unused \in [Accounts -> 0..Inactivity] /\ faults \in 0..MaxFaults
        BY AgreementAssumption DEF Init
      <3> QED BY <2>2, <3>1, <3>2 DEF Init, TypeOK, Jobs, RunPoints
    <2>4. Snapshot /\ Waited /\ Recreated
      <3>1. /\ job.at = "idle" /\ job.found = {}
            /\ job.snap.dated = {} /\ job.snap.live = {}
        BY IdleTypes DEF Init
      <3> QED BY <2>2, <3>1 DEF Snapshot, Waited, Recreated, Recreating, Validated
    <2>5. Statuses /\ Ordered /\ Removed
      BY DEF Init, Statuses, Ordered, Validated, Removed, MptStatus
    <2> QED BY <2>3, <2>4, <2>5 DEF IInv
  <1>2. TypeOK /\ IInv /\ [Next]_vars => (TypeOK /\ IInv)'
    <2> SUFFICES ASSUME TypeOK, IInv, [Next]_vars PROVE (TypeOK /\ IInv)'
      OBVIOUS
    <2>1. Snapshot /\ Waited /\ Statuses /\ Ordered /\ Recreated /\ Removed
      BY DEF IInv
    <2>2. TypeOK' /\ Snapshot' /\ Waited'
      BY <2>1, TypeNext, SnapshotNext, WaitedNext
    <2>3. Statuses' /\ Ordered' /\ Recreated' /\ Removed'
      BY <2>1, StatusesNext, OrderedNext, RecreatedNext, RemovedNext
    <2> QED BY <2>2, <2>3 DEF IInv
  <1> QED BY <1>1, <1>2, PTL DEF Spec

(* Types: the records of the subscriptions and of the pass keep their      *)
(* shape, and no countdown or month count leaves 0..Inactivity.            *)
THEOREM TypeCorrect == Spec => []TypeOK
  BY InvariantHolds, PTL

(* The relations between the job's snapshot, MPT, the order in hand and    *)
(* the transfer that the theorems below rest on.                           *)
THEOREM Invariant == Spec => []IInv
  BY InvariantHolds, PTL

(* terminate_expired_subscriptions: whatever was refused or died before,   *)
(* a subscription whose countdown ends has had all its months without      *)
(* usage on record, or its usage is of this very pass.                     *)
THEOREM HonoursCountdown == Spec => CountdownHonoured
  <1> DEFINE A == \A a \in Accounts :
                     (job.at = "expire" /\ a \in subs.live /\ a \notin subs'.live)
                        => unused[a] = Inactivity \/ a \in job.found
  <1>1. TypeOK /\ IInv /\ [Next]_vars => [A]_vars
    <2> SUFFICES ASSUME TypeOK, IInv, Next, NEW a \in Accounts,
                        job.at = "expire", a \in subs.live, a \notin subs'.live,
                        a \notin job.found
                 PROVE  unused[a] = Inactivity
      OBVIOUS
    <2>1. Snapshot /\ Waited
      BY DEF IInv
    <2>2. SyncNext
      <3>1. TerminationNext => subs' = subs
        BY WorkerFrame
      <3>2. Environment => subs'.live = subs.live
        BY MonthFrame, EnvironmentFrame
      <3> QED BY <3>1, <3>2 DEF Next
    <2>3. PICK b \in Accounts : b \in job.todo /\ JobWrites(b)
      BY <2>1, <2>2, JobSubs DEF MptSame
    <2>4. b = a
      BY <2>1, <2>3, Written
    <2>5. a \in job.snap.dated /\ job.snap.left[a] = 0
      BY <2>1, <2>3, <2>4 DEF Snapshot
    <2>6. unused[a] + 0 >= Inactivity /\ unused[a] \in 0..Inactivity /\ Inactivity \in Nat
      BY <2>1, <2>5, AgreementAssumption DEF Waited, TypeOK
    <2> QED BY <2>6
  <1>2. Spec => [][A]_vars
    <2> HIDE DEF A
    <2> QED BY <1>1, InvariantHolds, PTL DEF Spec
  <1> QED BY <1>2 DEF CountdownHonoured

(* terminate pipeline: an order that fails has not ended the customer's    *)
(* transfer, unless the job ended the master payer's subscription since.   *)
THEOREM KeepsTransfer == Spec => []FailedOrderKeepsTransfer
  <1>1. IInv => FailedOrderKeepsTransfer
    BY DEF IInv, Ordered, Validated, FailedOrderKeepsTransfer
  <1> QED BY <1>1, InvariantHolds, PTL

(* TerminateResponsibilityTransferStep: only an order on the master        *)
(* payer's subscription ends a transfer in use.                            *)
THEOREM OnlyMasterOrders == Spec => OnlyMasterOrderWithdraws
  <1> DEFINE A == (transfer = "ACCEPTED" /\ transfer' = "ENDING") => master = "Terminating"
  <1>1. TypeOK /\ IInv /\ [Next]_vars => [A]_vars
    <2> SUFFICES ASSUME TypeOK, IInv, Next, transfer = "ACCEPTED", transfer' = "ENDING"
                 PROVE  master = "Terminating"
      OBVIOUS
    <2>1. CASE TerminationNext
      <3>1. run = "transfer"
        BY <2>1, WorkerFrame
      <3> QED BY <3>1 DEF IInv, Ordered, Validated
    <2>2. CASE SyncNext
      BY <2>2, JobFrame
    <2>3. CASE Environment
      BY <2>3, MonthFrame, EnvironmentFrame
    <2> QED BY <2>1, <2>2, <2>3 DEF Next
  <1>2. Spec => [][A]_vars
    <2> HIDE DEF A
    <2> QED BY <1>1, InvariantHolds, PTL DEF Spec
  <1> QED BY <1>2 DEF OnlyMasterOrderWithdraws

(* Neither the worker nor the cron job takes the billing group or the      *)
(* relationship of a transfer that goes on.                                *)
THEOREM InUseIsWhole == Spec => []TransferInUseIsWhole
  <1>1. IInv => TransferInUseIsWhole
    BY DEF IInv, Removed, TransferInUseIsWhole
  <1> QED BY <1>1, InvariantHolds, PTL

(* When the worker has ended the transfer and the agreement is over,       *)
(* nothing the purchase created is left, unless a call or a pod failed.    *)
THEOREM LeavesNothing == Spec => []NothingLeftBehind
  <1>1. IInv => NothingLeftBehind
    BY DEF IInv, Removed, NothingLeftBehind
  <1> QED BY <1>1, InvariantHolds, PTL

-----------------------------------------------------------------------------
(* The system implements AgreementLife.                                    *)

LEMMA LifeInit ==
    ASSUME Init
    PROVE  Life!Init
  <1>1. subs.live = Accounts
    BY NoSubsTypes DEF Init, NoSubs
  <1>2. job.found = {}
    BY IdleTypes DEF Init
  <1>3. ~(committed = "over")
    BY DEF Init
  <1> QED BY <1>1, <1>2, <1>3 DEF Init, Life!Init

(* What an account of the subscriptions need not know of.                  *)
LEMMA LifeStutters ==
    ASSUME UNCHANGED <<master, entitled, transfer, group, relationship, used, unused>>,
           subs'.live = subs.live, job'.found = job.found,
           (committed' = "over") = (committed = "over")
    PROVE  UNCHANGED Life!vars
    BY DEF Life!vars, Life!bill, Life!resources, Life!usage

(* The worker.                                                             *)
LEMMA LifeWorker ==
    ASSUME TypeOK, IInv, TerminationNext
    PROVE  Life!Next \/ UNCHANGED Life!vars
  <1> USE DEF Life!PayerKeep, Life!BillKeep, Life!bill, Life!resources, Life!usage
  <1>1. Ordered /\ Removed
    BY DEF IInv
  <1>2. UNCHANGED <<subs, job, unused, committed, used>>
    BY WorkerFrame
  <1>3. CASE \/ PollTermination \/ ValidateTerminationOrder \/ CRMTicketTerminateOrder
             \/ TerminationStops \/ WorkerRestarts
    <2>1. UNCHANGED <<master, entitled, transfer, group, relationship>>
      BY <1>3 DEF PollTermination, ValidateTerminationOrder, CRMTicketTerminateOrder,
                  TerminationStops, WorkerRestarts, Goes, FailOrder, MptHolds, TransferSame,
                  mptVars
    <2> QED BY <1>2, <2>1, LifeStutters
  <1>4. CASE TerminateResponsibilityTransfer
    <2>1. UNCHANGED <<group, relationship, missed, entitled>> /\ run = "transfer"
      BY <1>4 DEF TerminateResponsibilityTransfer, At
    <2>2. CASE UNCHANGED <<master, transfer>>
      BY <1>2, <2>1, <2>2, LifeStutters
    <2>3. CASE /\ Accepted /\ committed = "over" /\ transfer' = "ENDING"
               /\ UNCHANGED master
      <3>1. transfer # "ACCEPTED" => UNCHANGED transfer
        BY <2>3 DEF Accepted
      <3>2. ASSUME transfer = "ACCEPTED" PROVE Life!EndTransfer
        <4>1. master = "Terminating"
          BY <1>1, <2>1, <3>2 DEF Ordered, Validated
        <4> QED BY <1>2, <2>1, <2>3, <3>2, <4>1 DEF Life!EndTransfer
      <3> QED BY <2>2, <2>3, <3>1, <3>2 DEF Life!Next
    <2>4. CASE /\ \/ Accepted /\ committed = "accepted"
                  \/ transfer = "ACCEPTED"
               /\ FailOrder /\ TransferSame
      <3>1. transfer = "ACCEPTED"
        BY <1>1, <2>4 DEF Accepted, Ordered
      <3>2. master = "Terminating" /\ master' = "Active" /\ UNCHANGED transfer
        BY <1>1, <2>1, <2>4, <3>1 DEF Ordered, Validated, FailOrder, MptHolds, TransferSame
      <3>3. Life!TurnDown
        BY <1>2, <2>1, <3>1, <3>2 DEF Life!TurnDown
      <3> QED BY <3>3 DEF Life!Next
    <2> QED BY <1>4, <2>2, <2>3, <2>4
            DEF TerminateResponsibilityTransfer, EndTransfer, Goes, TransferSame, mptVars
  <1>5. CASE RemoveBillingGroup \/ RemoveRelationship
    <2>1. UNCHANGED <<master, entitled, transfer>> /\ transfer # "ACCEPTED"
      BY <1>1, <1>5 DEF RemoveBillingGroup, RemoveRelationship, At, Goes, TransferSame, mptVars,
                        Removed
    <2>2. \/ UNCHANGED <<group, relationship>>
          \/ group' = FALSE /\ UNCHANGED relationship
          \/ relationship' = FALSE /\ UNCHANGED group
      BY <1>5 DEF RemoveBillingGroup, RemoveRelationship
    <2>3. CASE UNCHANGED <<group, relationship>>
      BY <1>2, <2>1, <2>3, LifeStutters
    <2>4. CASE \/ group' = FALSE /\ UNCHANGED relationship
               \/ relationship' = FALSE /\ UNCHANGED group
      <3>1. Life!CleanUp
        BY <1>2, <2>1, <2>4 DEF Life!CleanUp
      <3> QED BY <3>1 DEF Life!Next
    <2> QED BY <2>2, <2>3, <2>4
  <1>6. CASE TerminateFinOpsEntitlement
    <2>1. UNCHANGED <<master, transfer, group, relationship>> /\ run = "entitlements"
      BY <1>6 DEF TerminateFinOpsEntitlement, At, Goes, TransferSame, mptVars
    <2>2. CASE UNCHANGED entitled
      BY <1>2, <2>1, <2>2, LifeStutters
    <2>3. ASSUME NEW a \in entitled, entitled' = entitled \ {a} PROVE Life!Next
      <3>1. a \in Accounts
        BY DEF TypeOK
      <3>2. master = "Terminating" \/ transfer = "WITHDRAWN"
        BY <1>1, <2>1 DEF Ordered, Validated
      <3>3. Life!Revoke(a)
        BY <1>2, <2>1, <2>3, <3>2 DEF Life!Revoke
      <3> QED BY <3>1, <3>3 DEF Life!Next
    <2> QED BY <1>6, <2>2, <2>3 DEF TerminateFinOpsEntitlement
  <1>7. CASE CompleteTerminationOrder
    <2>1. /\ run = "complete" /\ master' = "Terminated"
          /\ UNCHANGED <<transfer, group, relationship, missed, entitled>>
      BY <1>7 DEF CompleteTerminationOrder, At, MptHolds, TransferSame
    <2>2. entitled = {}
      BY <1>1, <2>1 DEF Removed
    <2>3. CASE master = "Terminated"
      BY <1>2, <2>1, <2>3, LifeStutters
    <2>4. CASE master = "Terminating"
      <3>1. Life!Complete
        BY <1>2, <2>1, <2>2, <2>4 DEF Life!Complete
      <3> QED BY <3>1 DEF Life!Next
    <2> QED BY <1>1, <2>1, <2>3, <2>4 DEF Ordered, Validated
  <1> QED BY <1>3, <1>4, <1>5, <1>6, <1>7 DEF TerminationNext, TerminationStep

(* The cron job: what it reads, and what it removes.                       *)
LEMMA LifeSyncReads ==
    ASSUME TypeOK, IInv, SyncNext, UNCHANGED <<master, subs, unused>>
    PROVE  Life!Next \/ UNCHANGED Life!vars
  <1> USE DEF Life!BillKeep, Life!UsageKeep, Life!bill, Life!resources, Life!usage
  <1>1. Snapshot /\ job \in Jobs
    BY JobTypes DEF IInv
  <1>2. UNCHANGED <<transfer, committed, used, entitled>>
    BY JobFrame
  <1>3. CASE job'.found = job.found
    <2>1. CASE UNCHANGED <<group, relationship>>
      BY <1>2, <1>3, <2>1, LifeStutters
    <2>2. CASE job.at \in {"lost", "relationship"}
      <3>1. transfer # "ACCEPTED"
        BY <1>1, <2>2 DEF Snapshot
      <3>2. \/ UNCHANGED <<group, relationship>>
            \/ group' = FALSE /\ UNCHANGED relationship
            \/ relationship' = FALSE /\ UNCHANGED group
        BY <2>2, JobFrame
      <3>3. (\/ group' = FALSE /\ UNCHANGED relationship
             \/ relationship' = FALSE /\ UNCHANGED group)
            => Life!CleanUp
        BY <1>2, <1>3, <3>1 DEF Life!CleanUp
      <3> QED BY <2>1, <3>2, <3>3 DEF Life!Next
    <2> QED BY <2>1, <2>2, JobFrame
  <1>4. CASE job.at \notin {"lost", "relationship"} /\ job'.found \in {{}} \cup SUBSET used
    <2>1. UNCHANGED <<group, relationship>>
      BY <1>4, JobFrame
    <2>2. Life!See
      BY <1>2, <1>4, <2>1 DEF Life!See
    <2> QED BY <2>2 DEF Life!Next
  <1>5. job'.found = job.found \/ job'.found \in {{}} \cup SUBSET used
    <2>1. ASSUME NEW a \in Accounts \cup {Master}, Seen(a) PROVE job'.found = job.found
      BY <1>1, <2>1, SeenTypes
    <2>2. CASE job' = IdleJob \/ FetchAgreement
      BY <2>2, IdleTypes DEF FetchAgreement
    <2>3. CASE GetLinkedAccountsWithUsage
      <3>1. PICK found \in SUBSET used :
               job' = [job EXCEPT !.at = "ensure", !.found = found, !.todo = found]
        BY <2>3 DEF GetLinkedAccountsWithUsage
      <3> QED BY <1>1, <3>1 DEF Jobs
    <2>4. CASE \/ GetAcceptedTransfer \/ HandleInactiveSubscriptions
               \/ TerminateExpiredSubscriptions \/ DeleteBillingGroup
      BY <1>1, <2>4 DEF GetAcceptedTransfer, HandleInactiveSubscriptions,
                        TerminateExpiredSubscriptions, DeleteBillingGroup, Stage, Jobs
    <2> QED BY <1>1, <2>1, <2>2, <2>3, <2>4, JobStep
  <1>6. job.at \in {"lost", "relationship"} => job'.found = job.found
    <2> SUFFICES ASSUME job.at \in {"lost", "relationship"} PROVE job'.found = job.found
      OBVIOUS
    <2>1. job.found = {}
      BY <1>1 DEF Snapshot
    <2>2. ~GetLinkedAccountsWithUsage /\ ~FetchAgreement
      BY DEF GetLinkedAccountsWithUsage, FetchAgreement
    <2>3. CASE job' = IdleJob
      BY <2>1, <2>3, IdleTypes
    <2>4. ASSUME NEW a \in Accounts \cup {Master}, Seen(a) PROVE job'.found = job.found
      BY <1>1, <2>4, SeenTypes
    <2>5. CASE \/ GetAcceptedTransfer \/ HandleInactiveSubscriptions
               \/ TerminateExpiredSubscriptions \/ DeleteBillingGroup
      BY <1>1, <2>5 DEF GetAcceptedTransfer, HandleInactiveSubscriptions,
                        TerminateExpiredSubscriptions, DeleteBillingGroup, Stage, Jobs
    <2> QED BY <1>1, <2>2, <2>3, <2>4, <2>5, JobStep
  <1> QED BY <1>3, <1>4, <1>5, <1>6

(* An account found in use.                                                *)
LEMMA LifeEnsures ==
    ASSUME TypeOK, IInv, SyncNext, NEW a \in Accounts \cup {Master}, EnsureSubscription(a)
    PROVE  Life!Next \/ UNCHANGED Life!vars
  <1> USE DEF Life!UsageKeep, Life!resources, Life!usage
  <1>1. /\ Snapshot /\ Statuses /\ Recreated
        /\ job \in Jobs /\ subs \in Subs /\ unused \in [Accounts -> 0..Inactivity]
    BY JobTypes DEF IInv, TypeOK
  <1>2. /\ UNCHANGED <<transfer, committed, used, entitled, group, relationship>>
        /\ job'.found = job.found /\ a \in job.found /\ Seen(a)
    BY <1>1, SeenTypes DEF EnsureSubscription, AwsSame, JobKeep, Snapshot
  <1>3. CASE UNCHANGED <<master, subs, unused>>
    BY <1>3, LifeSyncReads
  <1>4. ASSUME a \in Accounts, UNCHANGED master, subs'.live = subs.live,
               unused' = [unused EXCEPT ![a] = 0]
        PROVE  Life!Next
    <2>1. Life!Record(a)
      BY <1>2, <1>4 DEF Life!Record
    <2> QED BY <1>4, <2>1 DEF Life!Next
  <1>5. CASE a \in job.snap.dated /\ ClearInactivityCountdown(a)
    <2>1. a \in Accounts
      BY <1>5, JobTypes
    <2>2. subs' = Cleared(subs, a) /\ UNCHANGED master /\ unused' = [unused EXCEPT ![a] = 0]
      BY <1>5 DEF ClearInactivityCountdown, MptSubs
    <2>3. subs'.live = subs.live
      BY <1>1, <2>1, <2>2, SubsTypes
    <2> QED BY <1>4, <2>1, <2>2, <2>3
  <1>6. CASE MptSame /\ unused' = [b \in Accounts |-> IF b = a THEN 0 ELSE unused[b]]
    <2>1. UNCHANGED <<master, subs>>
      BY <1>6 DEF MptSame
    <2>2. CASE a \in Accounts
      <3>1. unused' = [unused EXCEPT ![a] = 0]
        BY <1>1, <1>6, <2>2
      <3> QED BY <1>4, <2>1, <2>2, <3>1
    <2>3. CASE a = Master
      <3>1. unused' = unused
        BY <1>1, <1>6, <2>3, AgreementAssumption
      <3> QED BY <1>3, <2>1, <3>1
    <2> QED BY <2>2, <2>3
  <1>7. CASE a \notin Existing /\ CreateSubscription(a)
    <2>1. ~Life!Ended
      <3>1. agreement # "Terminated" /\ agreement = MptStatus(master, subs, order)
        BY <1>1, <1>7 DEF CreateSubscription, Statuses
      <3>2. master = "Terminated" /\ subs.live = {}
               => MptStatus(master, subs, order) = "Terminated"
        BY DEF MptStatus
      <3> QED BY <3>1, <3>2 DEF Life!Ended
    <2>2. CASE a = Master
      <3>1. Master \in job.todo /\ job.at = "ensure" /\ ~job.master
        BY <1>7, <2>2 DEF EnsureSubscription, Existing
      <3>2. master = "Terminated"
        BY <1>1, <3>1 DEF Recreated, Recreating
      <3>3. Life!SubscribePayer
        BY <1>2, <1>7, <2>1, <2>2, <3>2 DEF CreateSubscription, Life!SubscribePayer
      <3> QED BY <3>3 DEF Life!Next
    <2>3. CASE a # Master
      <3>1. subs' = Live(subs, a) /\ UNCHANGED master /\ unused' = [unused EXCEPT ![a] = 0]
        BY <1>7, <2>3 DEF CreateSubscription, MptSubs
      <3>2. subs'.live = subs.live \cup {a}
        BY <1>1, <2>3, <3>1, SubsTypes
      <3>3. Life!Subscribe(a)
        BY <1>2, <2>1, <3>1, <3>2 DEF Life!Subscribe
      <3> QED BY <2>3, <3>3 DEF Life!Next
    <2> QED BY <2>2, <2>3
  <1> QED BY <1>3, <1>5, <1>6, <1>7 DEF EnsureSubscription, Refused, MptSame

(* A subscription ended, or given a date.                                  *)
LEMMA LifeEnds ==
    ASSUME TypeOK, IInv, SyncNext, NEW a \in Accounts \cup {Master},
           \/ SetInactivityCountdown(a) \/ TerminateLinkedAccountSubscription(a)
           \/ TerminateSubscription(a)
    PROVE  Life!Next \/ UNCHANGED Life!vars
  <1> USE DEF Life!UsageKeep, Life!resources, Life!usage
  <1>1. /\ Snapshot /\ Waited
        /\ job \in Jobs /\ subs \in Subs /\ unused \in [Accounts -> 0..Inactivity]
    BY JobTypes DEF IInv, TypeOK
  <1>2. /\ UNCHANGED <<transfer, committed, used, entitled, group, relationship>>
        /\ job'.found = job.found /\ a \in job.todo
    BY <1>1, SeenTypes
       DEF SetInactivityCountdown, TerminateLinkedAccountSubscription, TerminateSubscription,
           AwsSame, JobKeep
  <1>3. CASE UNCHANGED <<master, subs, unused>>
    BY <1>3, LifeSyncReads
  <1>4. CASE SetInactivityCountdown(a) /\ MptSubs(Dated(subs, a)) /\ UNCHANGED unused
    <2>1. a \in Accounts
      BY <1>1, <1>4 DEF SetInactivityCountdown, Snapshot, Jobs, Subs
    <2>2. subs'.live = subs.live /\ UNCHANGED master
      BY <1>1, <1>4, <2>1, SubsTypes DEF MptSubs
    <2> QED BY <1>2, <1>4, <2>2, LifeStutters
  <1>5. ASSUME a \in Accounts, MptSubs(Ended(subs, a)), UNCHANGED unused,
               unused[a] = Inactivity \/ a \in job.found \/ transfer = "WITHDRAWN"
        PROVE  Life!Next
    <2>1. subs'.live = subs.live \ {a} /\ UNCHANGED master
      BY <1>1, <1>5, SubsTypes DEF MptSubs
    <2>2. Life!Unsubscribe(a)
      BY <1>2, <1>5, <2>1 DEF Life!Unsubscribe
    <2> QED BY <1>5, <2>2 DEF Life!Next
  <1>6. CASE TerminateLinkedAccountSubscription(a) /\ MptSubs(Ended(subs, a)) /\ UNCHANGED unused
    <2>1. a \in job.snap.dated /\ job.snap.left[a] = 0
      BY <1>1, <1>6 DEF TerminateLinkedAccountSubscription, Snapshot
    <2>2. a \in Accounts
      BY <2>1, JobTypes
    <2>3. unused[a] = Inactivity \/ a \in job.found
      <3> SUFFICES ASSUME a \notin job.found PROVE unused[a] = Inactivity
        OBVIOUS
      <3>1. job.at # "idle"
        BY <1>6 DEF TerminateLinkedAccountSubscription
      <3>2. /\ unused[a] + 0 >= Inactivity /\ unused[a] \in 0..Inactivity
            /\ Inactivity \in Nat
        BY <1>1, <2>1, <2>2, <3>1, AgreementAssumption DEF Waited
      <3> QED BY <3>2
    <2> QED BY <1>5, <1>6, <2>2, <2>3
  <1>7. CASE TerminateSubscription(a)
    <2>1. transfer = "WITHDRAWN"
      BY <1>1, <1>7 DEF TerminateSubscription, Snapshot
    <2>2. CASE a = Master /\ master' = "Terminated" /\ UNCHANGED <<subs, unused>>
      <3>1. Life!UnsubscribePayer
        BY <1>2, <2>1, <2>2 DEF Life!UnsubscribePayer
      <3> QED BY <3>1 DEF Life!Next
    <2>3. CASE a # Master /\ MptSubs(Ended(subs, a)) /\ UNCHANGED unused
      BY <1>5, <2>1, <2>3
    <2> QED BY <1>3, <1>7, <2>2, <2>3 DEF TerminateSubscription, Refused, MptSame
  <1> QED BY <1>3, <1>4, <1>6, <1>7
          DEF SetInactivityCountdown, TerminateLinkedAccountSubscription, Refused, MptSame

(* The cron job, all in all.                                               *)
LEMMA LifeSync ==
    ASSUME TypeOK, IInv, SyncNext
    PROVE  Life!Next \/ UNCHANGED Life!vars
  <1>1. CASE UNCHANGED <<master, subs, unused>>
    BY <1>1, LifeSyncReads
  <1>2. CASE \/ FetchAgreement \/ GetAcceptedTransfer \/ GetLinkedAccountsWithUsage
             \/ HandleInactiveSubscriptions \/ TerminateExpiredSubscriptions
             \/ DeleteBillingGroup \/ RemoveApn \/ PassEnds \/ PassSkipped \/ PassDies
    BY <1>1, <1>2 DEF FetchAgreement, GetAcceptedTransfer, GetLinkedAccountsWithUsage,
       HandleInactiveSubscriptions, TerminateExpiredSubscriptions, DeleteBillingGroup,
       RemoveApn, PassEnds, PassSkipped, PassDies, MptSame
  <1> QED BY <1>2, LifeEnsures, LifeEnds DEF SyncNext, PassStep

(* The customer, AWS and the calendar.                                     *)
LEMMA LifeEnvironment ==
    ASSUME TypeOK, IInv, Environment
    PROVE  Life!Next \/ UNCHANGED Life!vars
  <1> USE DEF Life!PayerKeep, Life!BillKeep, Life!UsageKeep,
              Life!bill, Life!resources, Life!usage
  <1>1. CASE MonthPasses
    <2>1. /\ UNCHANGED <<master, entitled, group, relationship, committed>>
          /\ subs'.live = subs.live /\ job'.found = job.found
      BY <1>1, MonthFrame
    <2>2. Life!MonthPasses
      BY <1>1, <2>1 DEF MonthPasses, Life!MonthPasses
    <2> QED BY <2>2 DEF Life!Next
  <1>2. CASE OrderMaster \/ OrderLinked
    <2>1. /\ UNCHANGED <<subs, transfer, committed, group, relationship, used, missed, entitled, job,
                         unused>>
          /\ master' = master \/ (master = "Active" /\ master' = "Terminating")
      BY <1>2 DEF OrderMaster, OrderLinked, Order, MptHolds, CustomerKeep, jobVars
    <2>2. CASE master' = master
      BY <2>1, <2>2, LifeStutters
    <2>3. CASE master = "Active" /\ master' = "Terminating"
      <3>1. Life!OrderEnd
        BY <2>1, <2>3 DEF Life!OrderEnd
      <3> QED BY <3>1 DEF Life!Next
    <2> QED BY <2>1, <2>2, <2>3
  <1>3. CASE CustomerWithdraws
    <2>1. Life!CustomerWithdraws
      BY <1>3 DEF CustomerWithdraws, CustomerKeep, mptVars, jobVars, Life!CustomerWithdraws
    <2> QED BY <2>1 DEF Life!Next
  <1>4. CASE CommitmentMoves
    <2>1. UNCHANGED <<master, subs, entitled, transfer, group, relationship, used, job, unused>>
      BY <1>4 DEF CommitmentMoves, AwsKeep, jobVars
    <2>2. CASE committed' = "over"
      <3>1. Life!CommitmentEnds
        BY <2>1, <2>2 DEF Life!CommitmentEnds
      <3> QED BY <3>1 DEF Life!Next
    <2>3. CASE committed # "over" /\ committed' # "over"
      BY <2>1, <2>3, LifeStutters
    <2> QED BY <1>4, <2>2, <2>3 DEF CommitmentMoves
  <1>5. CASE UsageAppears
    <2>1. PICK a \in Accounts \cup {Master} : used' = used \cup {a}
      BY <1>5, AgreementAssumption DEF UsageAppears
    <2>2. Life!Use(a)
      BY <1>5, <2>1 DEF UsageAppears, AwsKeep, jobVars, Life!Use
    <2> QED BY <2>1, <2>2 DEF Life!Next
  <1> QED BY <1>1, <1>2, <1>3, <1>4, <1>5 DEF Environment

(* The worker with a termination order, the cron job, the customer and AWS *)
(* keep to the life of an agreement, for any accounts, any countdown and   *)
(* any number of faults: a transfer in use ends only for an order on the   *)
(* master payer's subscription with its commitment over, which then is not *)
(* turned down; group, relationship and entitlements go after it; linked   *)
(* subscriptions begin with usage and end with a reason; what is over      *)
(* stays over.                                                             *)
THEOREM Refinement == Spec => ImplementsLife
  <1>1. Init => Life!Init
    BY LifeInit
  <1>2. UNCHANGED vars => UNCHANGED Life!vars
    BY LifeStutters DEF vars, mptVars, awsVars, jobVars
  <1>3. TypeOK /\ IInv /\ [Next]_vars => [Life!Next]_(Life!vars)
    BY <1>2, LifeWorker, LifeSync, LifeEnvironment DEF Next
  <1> QED BY <1>1, <1>3, InvariantHolds, PTL DEF Spec, ImplementsLife, Life!Spec
==============================================================================
