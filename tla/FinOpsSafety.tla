----------------------------- MODULE FinOpsSafety -----------------------------
(***************************************************************************)
(* Theorems about the entitlements, for any agreements and accounts, any   *)
(* time of inactivity and any bounds on entitlements and faults.           *)
(***************************************************************************)
EXTENDS FinOpsSystem, FiniteSetTheorems, TLAPS

-----------------------------------------------------------------------------
(* Where the job, or the order, has an account in hand.                    *)
JobHolds == {"create", "save", "delete", "terminate", "mark"}
OrderHolds == {"delete", "terminate", "mark"}

(* Beyond its type, what a run in a given step has in hand.                *)
Shape ==
    /\ job.at \in JobHolds => job.a \in Accounts
    /\ job.at \in JobHolds \cup {"account", "expire"} => job.g \in Agreements
    /\ order.at \in OrderHolds => order.a \in Accounts
    /\ order.at # "idle" => order.g \in Agreements

(* The values that are written are well formed.                            *)
LEMMA RecordTypes ==
    /\ \A s \in {"none", "Active", "Terminated"} : Record(s) \in Records
    /\ NoRecords \in [Accounts -> Records]
    /\ \A n \in 0..Inactivity : OneMore(n) \in 0..Inactivity
    BY FinOpsAssumption DEF Record, Records, NoRecords, OneMore

LEMMA IdleTypes == IdleOrder \in OrderType /\ IdleJob \in JobType
    BY RecordTypes, FinOpsAssumption DEF IdleOrder, IdleJob, OrderType, JobType

LEMMA RecordedType ==
    ASSUME records \in RecordsType, NEW g \in Agreements, NEW a \in Accounts,
           NEW s \in {"Active", "Terminated"},
           records' = [records EXCEPT ![g][a] = Record(s)]
    PROVE  records' \in RecordsType
    BY RecordTypes DEF RecordsType

LEMMA LookupTypes ==
    ASSUME NEW a \in Accounts, NEW i \in Lookups(a)
    PROVE  /\ i \in 0..MaxIds
           /\ CallFor(a, i) \in OrderHolds
           /\ CallFor(a, i) # "mark" => i # 0
    BY FinOpsAssumption DEF Lookups, Live, Kept, Ids, CallFor, OrderHolds

LEMMA FaultType ==
    ASSUME TypeOK, Fault
    PROVE  faults' \in 0..MaxFaults
    BY FinOpsAssumption DEF Fault, TypeOK

(* Ending an entitlement keeps those of FFC well formed.                   *)
LEMMA EndsType ==
    ASSUME ffc \in FfcType, NEW a \in Accounts, NEW i \in Ids, NEW call, Ends(a, i, call)
    PROVE  ffc' \in FfcType
    BY DEF Ends, FfcType

LEMMA InitTypes == Init => TypeOK /\ Shape
  <1> SUFFICES ASSUME Init PROVE TypeOK /\ Shape
    OBVIOUS
  <1>1. IdleJob.at = "idle" /\ IdleOrder.at = "idle"
    BY DEF IdleJob, IdleOrder
  <1>2. ffc \in FfcType /\ records \in RecordsType
    BY RecordTypes DEF Init, FfcType, RecordsType
  <1>3. Shape
    BY <1>1 DEF Init, Shape, JobHolds, OrderHolds
  <1>4. silent \in [Accounts -> 0..Inactivity] /\ faults \in 0..MaxFaults
    BY FinOpsAssumption DEF Init
  <1> QED
    BY <1>1, <1>2, <1>3, <1>4, IdleTypes DEF Init, TypeOK

(* What the job has in hand, apart from the rest of the state.             *)
JobWell ==
    /\ job \in JobType
    /\ job.at \in {"delete", "terminate"} => job.hit # 0
    /\ job.at \in JobHolds => job.a \in Accounts
    /\ job.at \in JobHolds \cup {"account", "expire"} => job.g \in Agreements

LEMMA JobWellTypes ==
    ASSUME TypeOK, Shape, SyncNext
    PROVE  JobWell'
  <1>0. JobWell /\ records \in RecordsType
    BY DEF TypeOK, Shape, JobWell
  <1>a. 0 \in 0..MaxIds
    BY FinOpsAssumption
  <1> USE <1>0 DEF JobWell, Goes, JobHolds, JobType
  <1>1. CASE FetchAgreements
    BY <1>1, IdleTypes DEF FetchAgreements, IdleJob
  <1>2. ASSUME NEW g \in Agreements, SynchronizeAccounts(g) PROVE JobWell'
    <2>1. records[g] \in [Accounts -> Records]
      BY DEF RecordsType
    <2>2. {a \in used : home[a] = g} \subseteq Accounts
      BY DEF TypeOK
    <2>3. PICK found \in SUBSET Accounts :
             job' = [job EXCEPT !.at = "account", !.list = @ \ {g}, !.g = g,
                                !.snap = records[g], !.todo = found]
      BY <1>2, <2>2 DEF SynchronizeAccounts
    <2> QED BY <2>1, <2>3
  <1>3. ASSUME NEW a \in Accounts, GetEntitlement(a) PROVE JobWell'
    BY <1>3 DEF GetEntitlement, Served
  <1>4. CASE CreateEntitlement
    BY <1>4 DEF CreateEntitlement
  <1>5. CASE SaveRecord
    BY <1>5, RecordTypes, FinOpsAssumption DEF SaveRecord
  <1>6. CASE ManageTerminatedAccounts
    BY <1>6, RecordTypes DEF ManageTerminatedAccounts, Inactive
  <1>7. ASSUME NEW a \in Accounts, LookupInactive(a) PROVE JobWell'
    <2>1. CASE job' = [job EXCEPT !.todo = @ \ {a}]
      BY <1>7, <2>1 DEF LookupInactive
    <2>2. CASE job' # [job EXCEPT !.todo = @ \ {a}]
      <3>1. PICK i \in Lookups(a) :
               job' = [job EXCEPT !.a = a, !.todo = @ \ {a}, !.hit = i, !.at = CallFor(a, i)]
        BY <1>7, <2>2 DEF LookupInactive
      <3>2. i \in 0..MaxIds /\ CallFor(a, i) \in OrderHolds /\ (CallFor(a, i) # "mark" => i # 0)
        BY LookupTypes
      <3>3. job.at = "expire"
        BY <1>7 DEF LookupInactive
      <3> QED BY <3>1, <3>2, <3>3 DEF OrderHolds
    <2> QED BY <2>1, <2>2
  <1>8. CASE EndEntitlement
    BY <1>8, <1>a DEF EndEntitlement, Passed
  <1>9. CASE MarkTerminated
    BY <1>9, <1>a DEF MarkTerminated, Passed
  <1>10. CASE NextAgreement
    BY <1>10, IdleTypes DEF NextAgreement, IdleJob
  <1>11. CASE SyncEnds \/ SyncDies
    BY <1>11, IdleTypes DEF SyncEnds, SyncDies, IdleJob
  <1> QED
    BY <1>1, <1>2, <1>3, <1>4, <1>5, <1>6, <1>7, <1>8, <1>9, <1>10, <1>11
       DEF SyncNext, PassStep

(* The steps of the job.                                                   *)
LEMMA JobTypes ==
    ASSUME TypeOK, Shape, SyncNext
    PROVE  TypeOK' /\ Shape'
  <1>1. JobWell'
    BY JobWellTypes
  <1>2. ffc' \in FfcType
    <2>1. CASE CreateEntitlement
      <3>1. job.a \in Accounts
        BY <2>1 DEF CreateEntitlement, Shape, JobHolds
      <3>2. ffc' = ffc \/ \E i \in Ids : ffc' = [ffc EXCEPT ![job.a][i] = "new"]
        BY <2>1 DEF CreateEntitlement, Unused
      <3>3. CASE ffc' = ffc
        BY <3>3 DEF TypeOK
      <3>4. ASSUME NEW i \in Ids, ffc' = [ffc EXCEPT ![job.a][i] = "new"] PROVE ffc' \in FfcType
        BY <3>1, <3>4 DEF TypeOK, FfcType
      <3> QED BY <3>2, <3>3, <3>4
    <2>2. CASE EndEntitlement
      <3>1. job.a \in Accounts /\ job.hit \in Ids
        BY <2>2, FinOpsAssumption
           DEF EndEntitlement, TypeOK, Shape, JobHolds, JobType, Ids
      <3> QED BY <2>2, <3>1, EndsType DEF EndEntitlement, TypeOK
    <2>3. ffc' = ffc \/ CreateEntitlement \/ EndEntitlement
      BY DEF SyncNext, PassStep, FetchAgreements, SynchronizeAccounts, GetEntitlement, Served,
             SaveRecord, ManageTerminatedAccounts, LookupInactive, MarkTerminated,
             NextAgreement, SyncEnds, SyncDies, StoreSame, storeVars
    <2> QED BY <2>1, <2>2, <2>3 DEF TypeOK
  <1>3. records' \in RecordsType /\ silent' \in [Accounts -> 0..Inactivity]
    <2>1. CASE SaveRecord
      <3>1. job.a \in Accounts /\ job.g \in Agreements
        BY <2>1 DEF SaveRecord, Shape, JobHolds
      <3>2. records' \in RecordsType
        BY <2>1, <3>1, RecordedType DEF SaveRecord, TypeOK
      <3> QED BY <2>1, <3>1, <3>2, FinOpsAssumption DEF SaveRecord, TypeOK
    <2>2. CASE MarkTerminated
      BY <2>2, RecordedType DEF MarkTerminated, TypeOK, Shape, JobHolds
    <2>3. UNCHANGED <<records, silent>> \/ SaveRecord \/ MarkTerminated
      BY DEF SyncNext, PassStep, FetchAgreements, SynchronizeAccounts, GetEntitlement, Served,
             CreateEntitlement, ManageTerminatedAccounts, LookupInactive, EndEntitlement,
             NextAgreement, SyncEnds, SyncDies, StoreSame, storeVars
    <2> QED BY <2>1, <2>2, <2>3 DEF TypeOK
  <1>4. faults' \in 0..MaxFaults
    <2>1. faults' = faults \/ Fault
      BY DEF SyncNext, PassStep, FetchAgreements, SynchronizeAccounts, GetEntitlement, Served,
             CreateEntitlement, SaveRecord, ManageTerminatedAccounts, LookupInactive,
             EndEntitlement, MarkTerminated, NextAgreement, SyncEnds, SyncDies
    <2> QED BY <2>1, FaultType DEF TypeOK
  <1>5. UNCHANGED <<status, worldVars, order>>
    BY DEF SyncNext, PassStep, FetchAgreements, SynchronizeAccounts, GetEntitlement, Served,
           CreateEntitlement, SaveRecord, ManageTerminatedAccounts, LookupInactive,
           EndEntitlement, MarkTerminated, NextAgreement, SyncEnds, SyncDies, JobKeep
  <1>6. unrecorded' \subseteq Accounts
    <2>1. CASE SaveRecord
      BY <2>1 DEF SaveRecord, TypeOK
    <2>2. CASE SyncDies
      BY <2>2 DEF SyncDies, TypeOK, Shape, JobHolds
    <2>3. unrecorded' = unrecorded \/ SaveRecord \/ SyncDies
      BY DEF SyncNext, PassStep, FetchAgreements, SynchronizeAccounts, GetEntitlement, Served,
             CreateEntitlement, ManageTerminatedAccounts, LookupInactive, EndEntitlement,
             MarkTerminated, NextAgreement, SyncEnds, StoreSame, storeVars
    <2> QED BY <2>1, <2>2, <2>3 DEF TypeOK
  <1> QED
    BY <1>1, <1>2, <1>3, <1>4, <1>5, <1>6, FinOpsAssumption
       DEF TypeOK, Shape, JobWell, worldVars, JobHolds

(* The steps of the order.                                                 *)
LEMMA OrderTypes ==
    ASSUME TypeOK, Shape, OrderStep \/ StepStops
    PROVE  TypeOK' /\ Shape'
  <1> USE DEF OrderKeep, worldVars, OrderGoes, OrderHolds
  <1>1. ASSUME NEW g \in Agreements, StartStep(g) PROVE TypeOK' /\ Shape'
    <2>1. order' \in OrderType /\ order'.at = "each" /\ order'.g = g
      BY <1>1, IdleTypes DEF StartStep, IdleOrder, OrderType
    <2> QED BY <1>1, <2>1 DEF StartStep, TypeOK, Shape
  <1>2. ASSUME NEW a \in Accounts, LookupRecord(a) PROVE TypeOK' /\ Shape'
    <2>1. /\ order' \in OrderType /\ order'.g = order.g /\ order'.a = a
          /\ order'.at \in {"delete", "terminate"} => order'.hit # 0
      <3>1. PICK i \in Lookups(a) :
               order' = [order EXCEPT !.a = a, !.todo = @ \ {a}, !.hit = i, !.at = CallFor(a, i)]
        BY <1>2 DEF LookupRecord
      <3>2. i \in 0..MaxIds /\ CallFor(a, i) \in OrderHolds /\ (CallFor(a, i) # "mark" => i # 0)
        BY LookupTypes
      <3> QED BY <3>1, <3>2 DEF TypeOK, OrderType
    <2> QED BY <1>2, <2>1, FinOpsAssumption DEF LookupRecord, TypeOK, Shape
  <1>3. CASE EndRecorded
    <2>1. order.a \in Accounts /\ order.hit \in Ids
      BY <1>3, FinOpsAssumption DEF EndRecorded, TypeOK, Shape, OrderType, Ids
    <2>2. ffc' \in FfcType
      BY <1>3, <2>1, EndsType DEF EndRecorded, TypeOK
    <2>3. /\ order' \in OrderType
          /\ \/ order'.at = "idle"
             \/ order'.at = "mark" /\ order'.a = order.a /\ order'.g = order.g
      <3>1. CASE order' = IdleOrder
        <4>1. IdleOrder.at = "idle"
          BY DEF IdleOrder
        <4>2. order'.at = "idle" /\ order' \in OrderType
          BY <3>1, <4>1, IdleTypes
        <4> QED BY <4>2
      <3>2. CASE order' = [order EXCEPT !.at = "mark"]
        BY <1>3, <3>2 DEF EndRecorded, TypeOK, OrderType
      <3> QED BY <1>3, <3>1, <3>2 DEF EndRecorded
    <2> QED BY <1>3, <2>1, <2>2, <2>3 DEF EndRecorded, TypeOK, Shape
  <1>4. CASE MarkRecord
    <2>1. records' \in RecordsType
      BY <1>4, RecordedType DEF MarkRecord, TypeOK, Shape
    <2>2. order' \in OrderType /\ order'.at = "each" /\ order'.g = order.g
      <3>1. 0 \in 0..MaxIds
        BY FinOpsAssumption
      <3> QED BY <1>4, <3>1 DEF MarkRecord, TypeOK, OrderType
    <2>3. unrecorded' \subseteq Accounts
      BY <1>4 DEF MarkRecord, TypeOK, Shape
    <2> QED BY <1>4, <2>1, <2>2, <2>3 DEF MarkRecord, TypeOK, Shape
  <1>5. CASE CompleteOrder \/ StepStops
    <2>1. order' \in OrderType /\ order'.at = "idle"
      <3>1. order' = IdleOrder /\ IdleOrder.at = "idle"
        BY <1>5 DEF CompleteOrder, StepStops, IdleOrder
      <3> QED BY <3>1, IdleTypes
    <2>2. faults' \in 0..MaxFaults
      BY <1>5, FaultType DEF CompleteOrder, StepStops, TypeOK
    <2> QED BY <1>5, <2>1, <2>2 DEF CompleteOrder, StepStops, TypeOK, Shape
  <1> QED BY <1>1, <1>2, <1>3, <1>4, <1>5 DEF OrderStep

LEMMA EnvironmentTypes ==
    ASSUME TypeOK, Shape, Environment
    PROVE  TypeOK' /\ Shape'
  <1> USE DEF MptKeep, EnvKeep, AwsKeep, worldVars, storeVars
  <1>1. ASSUME NEW g \in Agreements, EndOrdered(g) \/ OrderFails(g) \/ AgreementLost(g)
        PROVE  TypeOK' /\ Shape'
    BY <1>1 DEF EndOrdered, OrderFails, AgreementLost, TypeOK, Shape
  <1>2. ASSUME NEW a \in Accounts, UsageAppears(a) \/ AccountMoves(a) PROVE TypeOK' /\ Shape'
    BY <1>2 DEF UsageAppears, AccountMoves, TypeOK, Shape
  <1>3. ASSUME NEW a \in Accounts, FfcActivates(a) PROVE TypeOK' /\ Shape'
    <2>1. ffc' \in FfcType
      BY <1>3 DEF FfcActivates, TypeOK, FfcType
    <2> QED BY <1>3, <2>1 DEF FfcActivates, TypeOK, Shape
  <1>4. CASE MonthPasses
    <2>1. records' \in RecordsType
      BY <1>4, RecordTypes DEF MonthPasses, TypeOK, Records, RecordsType
    <2>2. silent' \in [Accounts -> 0..Inactivity]
      BY <1>4, RecordTypes DEF MonthPasses, TypeOK
    <2> QED BY <1>4, <2>1, <2>2 DEF MonthPasses, TypeOK, Shape
  <1> QED BY <1>1, <1>2, <1>3, <1>4 DEF Environment

LEMMA TypesKept == TypeOK /\ Shape /\ [Next]_vars => (TypeOK /\ Shape)'
  <1> SUFFICES ASSUME TypeOK, Shape, [Next]_vars PROVE (TypeOK /\ Shape)'
    OBVIOUS
  <1>1. CASE UNCHANGED vars
    BY <1>1 DEF vars, worldVars, storeVars, TypeOK, Shape
  <1>2. CASE Next
    BY <1>2, JobTypes, OrderTypes, EnvironmentTypes DEF Next
  <1> QED BY <1>1, <1>2

(* Every state has its type, and a run in the middle of an agreement or an *)
(* account knows which.                                                    *)
THEOREM TypeCorrect == Spec => [](TypeOK /\ Shape)
  BY InitTypes, TypesKept, PTL DEF Spec

-----------------------------------------------------------------------------
(* The invariant.                                                          *)

(* An account a run still has to see or has in hand.                       *)
JobPending == job.todo \cup (IF job.at \in JobHolds THEN {job.a} ELSE {})
OrderPending == order.todo \cup (IF order.at \in OrderHolds THEN {order.a} ELSE {})

(* An account that has not moved has records of its own agreement only,    *)
(* and the runs have it in hand for that agreement only.                   *)
OwnAgreement ==
    \A a \in Accounts \ moved :
        /\ \A g \in Agreements : records[g][a].status # "none" => home[a] = g
        /\ a \in JobPending \/ job.snap[a].status # "none" => home[a] = job.g
OrderRecorded ==
    /\ order.at # "idle" => \A a \in OrderPending : records[order.g][a].status # "none"
    /\ order.at \in OrderHolds => order.a \notin order.todo

(* The age of an active record, in Airtable and in what the pass has read, *)
(* is no more than the months without usage; what the second half of a     *)
(* pass takes up has none of it.                                           *)
AgeIsSilence ==
    \A a \in Accounts \ moved :
        /\ \A g \in Agreements :
              records[g][a].status = "Active" => records[g][a].age <= silent[a]
        /\ job.snap[a].status = "Active" => job.snap[a].age <= silent[a]
        /\ job.at \in {"expire", "delete", "terminate", "mark"} /\ a \in JobPending
              => silent[a] = Inactivity

(* No two live entitlements but where FFC keeps a terminated one; the job  *)
(* creates, and marks a record, only where none is live, or the same.      *)
Ended(a) == Live(a) = {} \/ Kept(a) # {}
OneLive == \A a \in Accounts : \A i, k \in Live(a) : i # k => Kept(a) # {}
JobSawNone == job.at \in {"create", "mark"} => Ended(job.a)

(* An order whose step has met no pass has its  agreement for itself, and   *)
(* what it is done with is ended.                                          *)
OrderAlone ==
    order.at # "idle" /\ ~order.met =>
        status[order.g] = "Updating" /\ order.g # job.g /\ order.g \notin job.list
OrderEnds ==
    order.at # "idle" /\ ~order.met =>
        \A a \in Accounts \ moved :
            \/ records[order.g][a].status = "none"
            \/ a \in order.todo
            \/ order.at \in {"delete", "terminate"} /\ order.a = a
            \/ Ended(a)

Recorded ==
    \A a \in Accounts \ moved :
        \/ Ended(a)
        \/ records[home[a]][a].status = "Active"
        \/ job.at = "save" /\ job.a = a
        \/ a \in unrecorded

IInv ==
    /\ OwnAgreement /\ OrderRecorded /\ AgeIsSilence /\ OneLive /\ JobSawNone
    /\ OrderAlone /\ OrderEnds /\ Recorded

-----------------------------------------------------------------------------
(* What a step does to records and entitlements.                           *)

LEMMA RecordWritten ==
    ASSUME records \in RecordsType, NEW g \in Agreements, NEW a \in Accounts, NEW r,
           records' = [records EXCEPT ![g][a] = r]
    PROVE  \A h \in Agreements, b \in Accounts :
              records'[h][b] = IF h = g /\ b = a THEN r ELSE records[h][b]
    BY DEF RecordsType

(* An entitlement that is ended, or activated, is no more live than before *)
(* and leaves those kept.                                                  *)
LEMMA EndsLive ==
    ASSUME ffc \in FfcType, NEW a \in Accounts, NEW i \in Ids, NEW call,
           Fits(a, i, call), Ends(a, i, call)
    PROVE  /\ \A b \in Accounts : Live(b)' \subseteq Live(b) /\ Kept(b) \subseteq Kept(b)'
           /\ \A b \in Accounts \ {a} : Live(b)' = Live(b)
           /\ i \in Live(a) /\ Live(a)' = Live(a) \ {i}
    BY DEF Fits, Ends, Live, Kept, FfcType

LEMMA ActivationLive ==
    ASSUME ffc \in FfcType, NEW a \in Accounts, FfcActivates(a)
    PROVE  \A b \in Accounts : Live(b)' = Live(b) /\ Kept(b)' = Kept(b)
    BY DEF FfcActivates, Live, Kept, FfcType

LEMMA CreationLive ==
    ASSUME TypeOK, Shape, CreateEntitlement, NEW b \in Accounts
    PROVE  /\ Kept(b)' = Kept(b)
           /\ b # job.a => Live(b)' = Live(b)
           /\ \E i : Live(b)' \subseteq Live(b) \cup {i}
  <1>1. CASE ffc' = ffc
    BY <1>1 DEF Live, Kept
  <1>2. CASE Unused(job.a) # {} /\ ffc' # ffc
    <2>1. PICK i \in Unused(job.a) : ffc' = [ffc EXCEPT ![job.a][i] = "new"]
      BY <1>2 DEF CreateEntitlement
    <2>2. i \in Ids /\ ffc[job.a][i] = "none" /\ job.a \in Accounts
      BY <2>1 DEF Unused, CreateEntitlement, Shape, JobHolds
    <2>3. \A k \in Ids : ffc'[b][k] = IF b = job.a /\ k = i THEN "new" ELSE ffc[b][k]
      BY <2>1, <2>2 DEF TypeOK, FfcType
    <2>4. Kept(b)' = Kept(b)
      BY <2>2, <2>3 DEF Kept
    <2>5. b # job.a => Live(b)' = Live(b)
      BY <2>3 DEF Live
    <2>6. Live(b)' \subseteq Live(b) \cup {i}
      BY <2>3 DEF Live
    <2> QED BY <2>4, <2>5, <2>6
  <1> QED BY <1>1, <1>2 DEF CreateEntitlement

(* A lookup that gives none that is live saw none, or one that is kept.    *)
LEMMA LookupSaw ==
    ASSUME NEW a \in Accounts, NEW i \in Lookups(a)
    PROVE  /\ i \notin Live(a) => Ended(a)
           /\ CallFor(a, i) = "mark" => Ended(a)
  <1>1. CASE Live(a) \cup Kept(a) = {}
    BY <1>1 DEF Ended
  <1>2. CASE Live(a) \cup Kept(a) # {}
    <2>1. i \in Live(a) \/ i \in Kept(a)
      BY <1>2 DEF Lookups
    <2>2. i \in Live(a) => CallFor(a, i) # "mark"
      BY FinOpsAssumption DEF Live, CallFor, Ids
    <2> QED BY <2>1, <2>2 DEF Ended
  <1> QED BY <1>1, <1>2

(* Every step but a creation leaves as much ended as there was.            *)
LEMMA EndedStays ==
    ASSUME TypeOK, Shape, Next
    PROVE  \/ \A a \in Accounts : Live(a)' \subseteq Live(a) /\ Kept(a) \subseteq Kept(a)'
           \/ CreateEntitlement
  <1>1. CASE ffc' = ffc
    BY <1>1 DEF Live, Kept
  <1>2. CASE EndEntitlement
    <2>1. job.a \in Accounts /\ job.hit \in Ids
      BY <1>2, FinOpsAssumption DEF EndEntitlement, TypeOK, Shape, JobHolds, JobType, Ids
    <2>2. ASSUME Fits(job.a, job.hit, job.at), Ends(job.a, job.hit, job.at)
          PROVE  \A b \in Accounts : Live(b)' \subseteq Live(b) /\ Kept(b) \subseteq Kept(b)'
      BY <2>1, <2>2, EndsLive DEF TypeOK
    <2> QED BY <1>1, <1>2, <2>2 DEF EndEntitlement
  <1>3. CASE EndRecorded
    <2>1. order.a \in Accounts /\ order.hit \in Ids
      BY <1>3, FinOpsAssumption DEF EndRecorded, TypeOK, Shape, OrderHolds, OrderType, Ids
    <2>2. ASSUME Fits(order.a, order.hit, order.at), Ends(order.a, order.hit, order.at)
          PROVE  \A b \in Accounts : Live(b)' \subseteq Live(b) /\ Kept(b) \subseteq Kept(b)'
      BY <2>1, <2>2, EndsLive DEF TypeOK
    <2> QED BY <1>1, <1>3, <2>2 DEF EndRecorded
  <1>4. ASSUME NEW a \in Accounts, FfcActivates(a)
        PROVE  \A b \in Accounts : Live(b)' \subseteq Live(b) /\ Kept(b) \subseteq Kept(b)'
    BY <1>4, ActivationLive DEF TypeOK
  <1>5. \/ ffc' = ffc \/ EndEntitlement \/ EndRecorded \/ CreateEntitlement
        \/ \E a \in Accounts : FfcActivates(a)
    BY DEF Next, SyncNext, PassStep, FetchAgreements, SynchronizeAccounts, GetEntitlement,
           Served, SaveRecord, ManageTerminatedAccounts, LookupInactive, MarkTerminated,
           NextAgreement, SyncEnds, SyncDies, StoreSame, storeVars, OrderStep, StartStep,
           LookupRecord, MarkRecord, CompleteOrder, StepStops, Environment, EndOrdered,
           OrderFails, AgreementLost, UsageAppears, AccountMoves, MonthPasses, MptKeep, AwsKeep
  <1> QED BY <1>1, <1>2, <1>3, <1>4, <1>5

(* One live entitlement: every creation follows a lookup that saw none.    *)
LEMMA OneLiveKept ==
    ASSUME TypeOK, Shape, OneLive, JobSawNone, Next
    PROVE  OneLive'
  <1>1. CASE CreateEntitlement
    <2>1. Ended(job.a)
      BY <1>1 DEF CreateEntitlement, JobSawNone
    <2>2. ASSUME NEW a \in Accounts, NEW i \in Live(a)', NEW k \in Live(a)', i # k
          PROVE  Kept(a)' # {}
      <3>1. CASE a # job.a
        BY <1>1, <2>2, <3>1, CreationLive DEF OneLive
      <3>2. CASE a = job.a /\ Live(a) = {}
        BY <1>1, <2>2, <3>2, CreationLive
      <3>3. CASE Kept(a) # {}
        BY <1>1, <3>3, CreationLive
      <3> QED BY <2>1, <3>1, <3>2, <3>3 DEF Ended
    <2> QED BY <2>2 DEF OneLive
  <1>2. CASE \A a \in Accounts : Live(a)' \subseteq Live(a) /\ Kept(a) \subseteq Kept(a)'
    <2>1. ASSUME NEW a \in Accounts, NEW i \in Live(a)', NEW k \in Live(a)', i # k
          PROVE  Kept(a)' # {}
      BY <1>2, <2>1 DEF OneLive
    <2> QED BY <2>1 DEF OneLive
  <1> QED BY <1>1, <1>2, EndedStays

LEMMA EndedKept ==
    ASSUME TypeOK, Shape, Next, NEW a \in Accounts, Ended(a),
           ~(CreateEntitlement /\ a = job.a)
    PROVE  Ended(a)'
    BY EndedStays, CreationLive DEF Ended

(* A call that is carried out ends all that was live, or leaves one kept.  *)
LEMMA CallEnds ==
    ASSUME ffc \in FfcType, OneLive, NEW a \in Accounts, NEW i \in Ids, NEW call,
           Fits(a, i, call), Ends(a, i, call)
    PROVE  Ended(a)'
    BY EndsLive DEF OneLive, Ended

(* Only the job moves the job, only the order moves the order.             *)
LEMMA WhoMoves ==
    ASSUME Next
    PROVE  /\ SyncNext \/ job' = job
           /\ OrderStep \/ StepStops \/ order' = order
    BY DEF Next, SyncNext, PassStep, FetchAgreements, SynchronizeAccounts, GetEntitlement,
           Served, CreateEntitlement, SaveRecord, ManageTerminatedAccounts, LookupInactive,
           EndEntitlement, MarkTerminated, NextAgreement, SyncEnds, SyncDies, JobKeep,
           OrderStep, StartStep, LookupRecord, EndRecorded, MarkRecord, CompleteOrder,
           StepStops, OrderKeep, Environment, EndOrdered, OrderFails, AgreementLost,
           UsageAppears, AccountMoves, MonthPasses, FfcActivates, MptKeep, AwsKeep, EnvKeep

(* Between agreements the job has none in hand.                            *)
LEMMA JobLeaves ==
    ASSUME FetchAgreements \/ NextAgreement \/ SyncEnds \/ SyncDies
    PROVE  /\ job'.at \in {"idle", "next"} /\ job'.g = NoOne /\ job'.a = NoOne
           /\ job'.snap = NoRecords /\ job'.todo = {}
           /\ \/ job'.list \subseteq {g \in Agreements : status[g] = "Active"}
              \/ job'.list = job.list
  <1>1. CASE FetchAgreements
    BY <1>1 DEF FetchAgreements, IdleJob
  <1>2. CASE NextAgreement
    BY <1>2 DEF NextAgreement, IdleJob
  <1>3. CASE SyncEnds \/ SyncDies
    BY <1>3 DEF SyncEnds, SyncDies, IdleJob
  <1> QED BY <1>1, <1>2, <1>3

(* Within an agreement the job keeps to it.                                *)
LEMMA JobStays ==
    ASSUME TypeOK, SyncNext
    PROVE  \/ job'.g = job.g /\ job'.list = job.list
           \/ FetchAgreements \/ NextAgreement \/ SyncEnds \/ SyncDies
           \/ \E g \in Agreements : SynchronizeAccounts(g)
  <1> USE DEF TypeOK, JobType
  <1>1. ASSUME NEW a \in Accounts, GetEntitlement(a)
        PROVE  job'.g = job.g /\ job'.list = job.list
    BY <1>1 DEF GetEntitlement, Served
  <1>2. CASE CreateEntitlement \/ SaveRecord \/ ManageTerminatedAccounts
    BY <1>2 DEF CreateEntitlement, SaveRecord, ManageTerminatedAccounts, Goes
  <1>3. ASSUME NEW a \in Accounts, LookupInactive(a)
        PROVE  job'.g = job.g /\ job'.list = job.list
    BY <1>3 DEF LookupInactive
  <1>4. CASE EndEntitlement \/ MarkTerminated
    BY <1>4 DEF EndEntitlement, MarkTerminated, Passed, Goes
  <1> QED BY <1>1, <1>2, <1>3, <1>4 DEF SyncNext, PassStep

LEMMA JobSawNoneKept ==
    ASSUME TypeOK, Shape, OneLive, JobSawNone, Next
    PROVE  JobSawNone'
  <1>1. ASSUME NEW a \in Accounts, GetEntitlement(a) PROVE JobSawNone'
    <2>1. CASE job'.at # "create"
      BY <1>1, <2>1 DEF GetEntitlement, Served, TypeOK, JobType, JobSawNone
    <2>2. CASE job'.at = "create"
      <3>1. PICK i \in Lookups(a) : i \notin Live(a) /\ job'.a = a
        BY <1>1, <2>2 DEF GetEntitlement, Served, TypeOK, JobType
      <3>2. Ended(a)
        BY <3>1, LookupSaw
      <3>3. ffc' = ffc
        BY <1>1 DEF GetEntitlement, Served, StoreSame, storeVars
      <3> QED BY <3>1, <3>2, <3>3 DEF JobSawNone, Ended, Live, Kept
    <2> QED BY <2>1, <2>2
  <1>2. ASSUME NEW a \in Accounts, LookupInactive(a) PROVE JobSawNone'
    <2>1. CASE job' = [job EXCEPT !.todo = @ \ {a}]
      BY <1>2, <2>1 DEF LookupInactive, TypeOK, JobType, JobSawNone
    <2>2. CASE job' # [job EXCEPT !.todo = @ \ {a}]
      <3>1. PICK i \in Lookups(a) :
               job' = [job EXCEPT !.a = a, !.todo = @ \ {a}, !.hit = i, !.at = CallFor(a, i)]
        BY <1>2, <2>2 DEF LookupInactive
      <3>2. job'.a = a /\ (job'.at \in {"create", "mark"} => CallFor(a, i) = "mark")
        BY <3>1 DEF TypeOK, JobType, CallFor
      <3>3. CallFor(a, i) = "mark" => Ended(a)
        BY LookupSaw
      <3>4. ffc' = ffc
        BY <1>2 DEF LookupInactive, StoreSame, storeVars
      <3> QED BY <3>2, <3>3, <3>4 DEF JobSawNone, Ended, Live, Kept
    <2> QED BY <2>1, <2>2
  <1>3. CASE EndEntitlement
    <2>1. job.a \in Accounts /\ job.hit \in Ids
      BY <1>3, FinOpsAssumption DEF EndEntitlement, TypeOK, Shape, JobHolds, JobType, Ids
    <2>2. CASE Fits(job.a, job.hit, job.at) /\ Ends(job.a, job.hit, job.at) /\ Goes("mark")
      <3>1. \A a \in Accounts : a = job.a => Ended(a)'
        BY <2>1, <2>2, CallEnds DEF TypeOK
      <3>2. job'.a = job.a
        BY <2>2 DEF Goes, TypeOK, JobType
      <3> QED BY <2>1, <3>1, <3>2 DEF JobSawNone, Ended, Live, Kept
    <2>3. CASE Passed
      BY <2>3 DEF Passed, TypeOK, JobType, JobSawNone
    <2> QED BY <1>3, <2>2, <2>3 DEF EndEntitlement
  <1>4. CASE job' = job
    <2>1. job.at = "create" => job.a \in Accounts
      BY DEF Shape, JobHolds
    <2>2. ~CreateEntitlement
      BY <1>4 DEF CreateEntitlement, Goes, TypeOK, JobType
    <2>3. job.at \in {"create", "mark"} => job.a \in Accounts
      BY DEF Shape, JobHolds
    <2>4. \A a \in Accounts : Ended(a) => Ended(a)'
      BY <2>2, EndedKept
    <2> QED BY <1>4, <2>3, <2>4 DEF JobSawNone, Ended, Live, Kept
  <1>5. job'.at \in {"create", "mark"} =>
           job' = job \/ EndEntitlement
              \/ \E a \in Accounts : GetEntitlement(a) \/ LookupInactive(a)
    <2>1. CASE FetchAgreements \/ NextAgreement \/ SyncEnds \/ SyncDies
      BY <2>1, JobLeaves
    <2>2. ASSUME NEW g \in Agreements, SynchronizeAccounts(g) PROVE job'.at = "account"
      BY <2>2 DEF SynchronizeAccounts, TypeOK, JobType
    <2>3. CASE CreateEntitlement \/ SaveRecord
      BY <2>3 DEF CreateEntitlement, SaveRecord, Goes, TypeOK, JobType
    <2>4. CASE ManageTerminatedAccounts \/ MarkTerminated
      BY <2>4 DEF ManageTerminatedAccounts, MarkTerminated, Passed, TypeOK, JobType
    <2> QED BY <2>1, <2>2, <2>3, <2>4, WhoMoves DEF SyncNext, PassStep
  <1> QED BY <1>1, <1>2, <1>3, <1>4, <1>5 DEF JobSawNone

(* The order alone.                                                        *)
LEMMA OrderAloneKept ==
    ASSUME TypeOK, Shape, OrderAlone, Next
    PROVE  OrderAlone'
  <1> USE DEF OrderAlone, Shape
  <1>1. ASSUME NEW g \in Agreements, StartStep(g) PROVE OrderAlone'
    BY <1>1 DEF StartStep, IdleOrder, OrderKeep
  <1>2. CASE (OrderStep \/ StepStops) /\ \A g \in Agreements : ~StartStep(g)
    <2>1. CASE CompleteOrder \/ StepStops
      BY <2>1 DEF CompleteOrder, StepStops, IdleOrder
    <2>2. CASE EndRecorded
      BY <2>2 DEF EndRecorded, IdleOrder, OrderGoes, OrderKeep, TypeOK, OrderType
    <2>3. CASE MarkRecord
      BY <2>3 DEF MarkRecord, OrderKeep, TypeOK, OrderType
    <2>4. ASSUME NEW a \in Accounts, LookupRecord(a) PROVE OrderAlone'
      BY <2>4 DEF LookupRecord, OrderKeep, TypeOK, OrderType
    <2> QED BY <1>2, <2>1, <2>2, <2>3, <2>4 DEF OrderStep
  <1>3. CASE SyncNext
    <2>1. UNCHANGED <<status, order>>
      BY <1>3 DEF SyncNext, PassStep, FetchAgreements, SynchronizeAccounts, GetEntitlement,
                  Served, CreateEntitlement, SaveRecord, ManageTerminatedAccounts,
                  LookupInactive, EndEntitlement, MarkTerminated, NextAgreement, SyncEnds,
                  SyncDies, JobKeep
    <2>2. order.at # "idle" /\ ~order.met => order.g # job'.g /\ order.g \notin job'.list
      <3>1. CASE FetchAgreements \/ NextAgreement \/ SyncEnds \/ SyncDies
        BY <3>1, JobLeaves, FinOpsAssumption
      <3>2. ASSUME NEW g \in Agreements, SynchronizeAccounts(g)
            PROVE  order.at # "idle" /\ ~order.met => order.g # job'.g /\ order.g \notin job'.list
        <4>1. job'.g = g /\ job'.list = job.list \ {g} /\ g \in job.list
          BY <3>2 DEF SynchronizeAccounts, TypeOK, JobType
        <4> QED BY <4>1
      <3>3. \/ job'.g = job.g /\ job'.list = job.list
            \/ FetchAgreements \/ NextAgreement \/ SyncEnds \/ SyncDies
            \/ \E g \in Agreements : SynchronizeAccounts(g)
        BY <1>3, JobStays
      <3> QED BY <3>1, <3>2, <3>3
    <2> QED BY <2>1, <2>2
  <1>4. CASE Environment
    BY <1>4 DEF Environment, EndOrdered, OrderFails, AgreementLost, UsageAppears,
                AccountMoves, MonthPasses, FfcActivates, MptKeep, AwsKeep, EnvKeep, TypeOK
  <1> QED BY <1>1, <1>2, <1>3, <1>4 DEF Next, OrderStep

-----------------------------------------------------------------------------
(* Bookkeeping of the steps.                                               *)

(* What a step does to one record.                                         *)
LEMMA RecordSteps ==
    ASSUME TypeOK, Shape, Next, NEW g \in Agreements, NEW a \in Accounts
    PROVE  \/ records'[g][a] = records[g][a]
           \/ /\ SaveRecord /\ g = job.g /\ a = job.a
              /\ records'[g][a] = Record("Active")
           \/ /\ MarkTerminated /\ g = job.g /\ a = job.a
              /\ records'[g][a] = Record("Terminated")
           \/ /\ MarkRecord /\ g = order.g /\ a = order.a
              /\ records'[g][a] = Record("Terminated")
           \/ /\ MonthPasses /\ records'[g][a].status = records[g][a].status
              /\ records'[g][a].status = "Active"
                    => records'[g][a].age = OneMore(records[g][a].age)
  <1>1. CASE SaveRecord
    <2>1. job.a \in Accounts /\ job.g \in Agreements
      BY <1>1 DEF SaveRecord, Shape, JobHolds
    <2> QED BY <1>1, <2>1, RecordWritten DEF SaveRecord, TypeOK
  <1>2. CASE MarkTerminated
    <2>1. job.a \in Accounts /\ job.g \in Agreements
      BY <1>2 DEF MarkTerminated, Shape, JobHolds
    <2> QED BY <1>2, <2>1, RecordWritten DEF MarkTerminated, TypeOK
  <1>3. CASE MarkRecord
    <2>1. order.a \in Accounts /\ order.g \in Agreements
      BY <1>3 DEF MarkRecord, Shape, OrderHolds
    <2> QED BY <1>3, <2>1, RecordWritten DEF MarkRecord, TypeOK
  <1>4. CASE MonthPasses
    BY <1>4 DEF MonthPasses, TypeOK, RecordsType, Records
  <1>5. records' = records \/ SaveRecord \/ MarkTerminated \/ MarkRecord \/ MonthPasses
    BY DEF Next, SyncNext, PassStep, FetchAgreements, SynchronizeAccounts, GetEntitlement,
           Served, CreateEntitlement, ManageTerminatedAccounts, LookupInactive,
           EndEntitlement, NextAgreement, SyncEnds, SyncDies, StoreSame, storeVars,
           OrderStep, StartStep, LookupRecord, EndRecorded, CompleteOrder, StepStops,
           Environment, EndOrdered, OrderFails, AgreementLost, UsageAppears, AccountMoves,
           FfcActivates, MptKeep, AwsKeep
  <1> QED BY <1>1, <1>2, <1>3, <1>4, <1>5

(* An account without its record remains so until a pass saves it.         *)
LEMMA UnrecordedStays ==
    ASSUME Next, NEW a \in unrecorded, ~(SaveRecord /\ job.a = a)
    PROVE  a \in unrecorded'
    BY DEF Next, SyncNext, PassStep, FetchAgreements, SynchronizeAccounts, GetEntitlement,
           Served, CreateEntitlement, SaveRecord, ManageTerminatedAccounts, LookupInactive,
           EndEntitlement, MarkTerminated, NextAgreement, SyncEnds, SyncDies, StoreSame,
           storeVars, OrderStep, StartStep, LookupRecord, EndRecorded, MarkRecord,
           CompleteOrder, StepStops, Environment, EndOrdered, OrderFails, AgreementLost,
           UsageAppears, AccountMoves, MonthPasses, FfcActivates, MptKeep, AwsKeep

LEMMA SavedRecord ==
    ASSUME TypeOK, Shape, SaveRecord
    PROVE  records'[job.g][job.a] = Record("Active")
  <1>1. job.a \in Accounts /\ job.g \in Agreements
    BY DEF SaveRecord, Shape, JobHolds
  <1>2. records' = [records EXCEPT ![job.g][job.a] = Record("Active")]
    BY DEF SaveRecord
  <1> QED BY <1>1, <1>2 DEF TypeOK, RecordsType

(* What only grows, and the home of an account that has not moved.         *)
LEMMA OneWay ==
    ASSUME TypeOK, Next
    PROVE  /\ moved \subseteq moved'
           /\ \A a \in Accounts \ moved' : home'[a] = home[a]
  <1>1. ASSUME NEW b \in Accounts, AccountMoves(b)
        PROVE  moved \subseteq moved' /\ \A a \in Accounts \ moved' : home'[a] = home[a]
    BY <1>1 DEF AccountMoves, TypeOK
  <1>2. UNCHANGED <<moved, home>> \/ \E b \in Accounts : AccountMoves(b)
    BY DEF Next, SyncNext, PassStep, FetchAgreements, SynchronizeAccounts, GetEntitlement,
         Served, CreateEntitlement, SaveRecord, ManageTerminatedAccounts, LookupInactive,
         EndEntitlement, MarkTerminated, NextAgreement, SyncEnds, SyncDies, JobKeep,
         worldVars, OrderStep, StartStep, LookupRecord, EndRecorded, MarkRecord,
         CompleteOrder, StepStops, OrderKeep, Environment, EndOrdered, OrderFails,
         AgreementLost, UsageAppears, MonthPasses, FfcActivates, MptKeep
  <1> QED BY <1>1, <1>2

(* Within an agreement the job takes up no account it had not pending.     *)
LEMMA JobNarrows ==
    ASSUME TypeOK, Shape, SyncNext
    PROVE  \/ FetchAgreements \/ NextAgreement \/ SyncEnds \/ SyncDies
           \/ (\E g \in Agreements : SynchronizeAccounts(g)) \/ ManageTerminatedAccounts
           \/ /\ JobPending' \subseteq JobPending
              /\ job'.at \in {"expire", "delete", "terminate", "mark"}
                    <=> job.at \in {"expire", "delete", "terminate", "mark"}
              /\ \A a \in Accounts :
                    IF SaveRecord /\ a = job.a
                    THEN job'.snap[a] = IF job.snap[a].status = "none" THEN job.snap[a]
                                        ELSE Record("Active")
                    ELSE job'.snap[a] = job.snap[a]
  <1> USE DEF TypeOK, JobType, JobPending, JobHolds
  <1>1. ASSUME NEW b \in Accounts, GetEntitlement(b)
        PROVE  /\ JobPending' \subseteq JobPending /\ job'.snap = job.snap
               /\ job.at = "account" /\ job'.at \in {"save", "create"}
    BY <1>1 DEF GetEntitlement, Served
  <1>2. CASE CreateEntitlement
    BY <1>2 DEF CreateEntitlement, SaveRecord, Goes
  <1>3. CASE SaveRecord
    <2>1. job.a \in Accounts /\ job.snap \in [Accounts -> Records]
      BY <1>3 DEF SaveRecord, Shape
    <2>2. job'.snap = [job.snap EXCEPT ![job.a] = IF @.status = "none" THEN @ ELSE Record("Active")]
      BY <1>3, <2>1 DEF SaveRecord
    <2>3. \A a \in Accounts :
             IF a = job.a
             THEN job'.snap[a] = IF job.snap[a].status = "none" THEN job.snap[a]
                                 ELSE Record("Active")
             ELSE job'.snap[a] = job.snap[a]
      BY <2>1, <2>2
    <2>4. job'.at = "account" /\ job.at = "save" /\ job'.todo = job.todo
      BY <1>3 DEF SaveRecord
    <2>5. JobPending' \subseteq JobPending
      BY <2>4
    <2> QED BY <1>3, <2>3, <2>4, <2>5
  <1>4. ASSUME NEW b \in Accounts, LookupInactive(b)
        PROVE  /\ JobPending' \subseteq JobPending /\ job'.snap = job.snap
               /\ job.at = "expire" /\ job'.at \in {"expire", "delete", "terminate", "mark"}
    <2>1. CASE job' = [job EXCEPT !.todo = @ \ {b}]
      BY <1>4, <2>1 DEF LookupInactive
    <2>2. ASSUME NEW i, job' = [job EXCEPT !.a = b, !.todo = @ \ {b}, !.hit = i,
                                           !.at = CallFor(b, i)]
          PROVE  /\ JobPending' \subseteq JobPending /\ job'.snap = job.snap
                 /\ job.at = "expire" /\ job'.at \in {"delete", "terminate", "mark"}
      <3>1. CallFor(b, i) \in {"delete", "terminate", "mark"}
        BY DEF CallFor
      <3>2. job.at = "expire" /\ b \in job.todo
        BY <1>4 DEF LookupInactive
      <3> QED BY <2>2, <3>1, <3>2
    <2> QED BY <1>4, <2>1, <2>2 DEF LookupInactive
  <1>5. CASE MarkTerminated
    BY <1>5 DEF MarkTerminated, SaveRecord, Passed
  <1>6. CASE EndEntitlement
    <2>1. /\ JobPending' \subseteq JobPending /\ job'.snap = job.snap
          /\ job.at \in {"delete", "terminate"} /\ job'.at \in {"expire", "mark"}
      BY <1>6 DEF EndEntitlement, Passed, Goes
    <2> QED BY <2>1 DEF SaveRecord
  <1> QED BY <1>1, <1>2, <1>3, <1>4, <1>5, <1>6 DEF SyncNext, PassStep, SaveRecord

-----------------------------------------------------------------------------
(* Every step keeps the invariant.                                         *)

LEMMA OwnAgreementKept ==
    ASSUME TypeOK, Shape, OwnAgreement, OrderRecorded, Next
    PROVE  OwnAgreement'
  <1> SUFFICES ASSUME NEW a \in Accounts \ moved'
               PROVE  /\ \A g \in Agreements : records'[g][a].status # "none" => home'[a] = g
                      /\ a \in JobPending' \/ job'.snap[a].status # "none" => home'[a] = job'.g
    BY DEF OwnAgreement
  <1>1. a \in Accounts \ moved /\ home'[a] = home[a]
    BY OneWay
  <1>2. ASSUME NEW g \in Agreements, records'[g][a].status # "none"
        PROVE  home'[a] = g
    <2>1. CASE records[g][a].status # "none"
      BY <1>1, <2>1 DEF OwnAgreement
    <2>2. CASE (SaveRecord \/ MarkTerminated) /\ g = job.g /\ a = job.a
      BY <1>1, <2>2 DEF OwnAgreement, JobPending, JobHolds, SaveRecord, MarkTerminated
    <2>3. CASE MarkRecord /\ g = order.g /\ a = order.a
      BY <1>1, <2>1, <2>3 DEF OrderRecorded, OrderPending, OrderHolds, MarkRecord
    <2> QED BY <1>2, <2>1, <2>2, <2>3, RecordSteps
  <1>3. ASSUME a \in JobPending' \/ job'.snap[a].status # "none"
        PROVE  home'[a] = job'.g
    <2>1. CASE job' = job
      BY <1>1, <1>3, <2>1 DEF OwnAgreement, JobPending
    <2>2. CASE FetchAgreements \/ NextAgreement \/ SyncEnds \/ SyncDies
      BY <1>3, <2>2, JobLeaves DEF JobPending, JobHolds, NoRecords, Record
    <2>3. ASSUME NEW g \in Agreements, SynchronizeAccounts(g) PROVE home'[a] = job'.g
      <3>1. /\ job'.g = g /\ job'.snap = records[g] /\ job'.at = "account"
            /\ job'.todo \subseteq {b \in used : home[b] = g}
        BY <2>3 DEF SynchronizeAccounts, TypeOK, JobType
      <3> QED BY <1>1, <1>3, <3>1 DEF OwnAgreement, JobPending, JobHolds
    <2>4. CASE ManageTerminatedAccounts
      <3>1. job'.g = job.g /\ job'.snap = NoRecords /\ job'.at = "expire" /\ job'.todo = Inactive
        BY <2>4 DEF ManageTerminatedAccounts, TypeOK, JobType
      <3>2. a \in Inactive
        BY <1>3, <3>1 DEF JobPending, JobHolds, NoRecords, Record
      <3> QED BY <1>1, <3>1, <3>2 DEF OwnAgreement, Inactive
    <2>5. CASE /\ SyncNext /\ JobPending' \subseteq JobPending /\ job'.g = job.g
               /\ job'.snap[a].status # "none" => job.snap[a].status # "none"
      BY <1>1, <1>3, <2>5 DEF OwnAgreement
    <2>6. ASSUME SyncNext,
                 ~(FetchAgreements \/ NextAgreement \/ SyncEnds \/ SyncDies),
                 ~\E g \in Agreements : SynchronizeAccounts(g), ~ManageTerminatedAccounts
          PROVE  /\ JobPending' \subseteq JobPending /\ job'.g = job.g
                 /\ job'.snap[a].status # "none" => job.snap[a].status # "none"
      BY <1>1, <2>6, JobNarrows, JobStays
    <2> QED BY <2>1, <2>2, <2>3, <2>4, <2>5, <2>6, WhoMoves
  <1> QED BY <1>2, <1>3

LEMMA AgeIsSilenceKept ==
    ASSUME TypeOK, Shape, OwnAgreement, AgeIsSilence, Next
    PROVE  AgeIsSilence'
  <1> SUFFICES ASSUME NEW a \in Accounts \ moved'
               PROVE  /\ \A g \in Agreements :
                            records'[g][a].status = "Active" => records'[g][a].age <= silent'[a]
                      /\ job'.snap[a].status = "Active" => job'.snap[a].age <= silent'[a]
                      /\ job'.at \in {"expire", "delete", "terminate", "mark"}
                            /\ a \in JobPending' => silent'[a] = Inactivity
    BY DEF AgeIsSilence
  <1>1. a \in Accounts \ moved
    BY OneWay
  <1>2. /\ silent[a] \in 0..Inactivity /\ Inactivity \in Nat
        /\ \A g \in Agreements : records[g][a].age \in 0..Inactivity
        /\ job.snap[a].age \in 0..Inactivity
    BY <1>1, FinOpsAssumption DEF TypeOK, RecordsType, Records, JobType
  <1>3. \/ silent'[a] = silent[a]
        \/ SaveRecord /\ a = job.a /\ silent'[a] = 0
        \/ MonthPasses /\ silent'[a] = OneMore(silent[a])
    <2>1. silent' = silent \/ SaveRecord \/ MonthPasses
      BY DEF Next, SyncNext, PassStep, FetchAgreements, SynchronizeAccounts, GetEntitlement,
           Served, CreateEntitlement, ManageTerminatedAccounts, LookupInactive,
           EndEntitlement, MarkTerminated, NextAgreement, SyncEnds, SyncDies, StoreSame,
           storeVars, OrderStep, StartStep, LookupRecord, EndRecorded, MarkRecord,
           CompleteOrder, StepStops, OrderKeep, Environment, EndOrdered, OrderFails,
           AgreementLost, UsageAppears, AccountMoves, FfcActivates, MptKeep, AwsKeep
    <2> QED BY <1>1, <2>1 DEF SaveRecord, MonthPasses, TypeOK
  <1>4. ASSUME NEW g \in Agreements, records'[g][a].status = "Active"
        PROVE  records'[g][a].age <= silent'[a]
    <2>1. CASE records'[g][a] = Record("Active")
      BY <1>2, <1>3, <2>1 DEF Record, OneMore
    <2>2. CASE records'[g][a] = records[g][a] /\ SaveRecord /\ a = job.a
      <3>1. home[a] = job.g /\ home[a] = g /\ job.g \in Agreements
        BY <1>1, <1>4, <2>2 DEF OwnAgreement, JobPending, JobHolds, SaveRecord, Shape
      <3>2. records'[g][a] = Record("Active")
        BY <2>2, <3>1, SavedRecord
      <3> QED BY <2>1, <3>2
    <2>3. CASE records'[g][a] = records[g][a] /\ ~(SaveRecord /\ a = job.a)
      BY <1>1, <1>2, <1>3, <1>4, <2>3 DEF AgeIsSilence, OneMore
    <2>4. CASE MonthPasses /\ records'[g][a].status = records[g][a].status
               /\ records'[g][a].age = OneMore(records[g][a].age)
      <3>1. silent'[a] = OneMore(silent[a])
        BY <1>1, <2>4 DEF MonthPasses, TypeOK
      <3>2. records[g][a].age <= silent[a]
        BY <1>1, <1>4, <2>4 DEF AgeIsSilence
      <3> QED BY <1>2, <2>4, <3>1, <3>2 DEF OneMore
    <2> QED BY <1>1, <1>4, <2>1, <2>2, <2>3, <2>4, RecordSteps DEF Record
  <1>5. ASSUME job'.snap[a].status = "Active" PROVE job'.snap[a].age <= silent'[a]
    <2>1. CASE job'.snap[a] = Record("Active")
      BY <1>2, <1>3, <2>1 DEF Record, OneMore
    <2>2. CASE job'.snap[a] = job.snap[a] /\ ~(SaveRecord /\ a = job.a)
      BY <1>1, <1>2, <1>3, <1>5, <2>2 DEF AgeIsSilence, OneMore
    <2>3. CASE job'.snap = NoRecords
      BY <1>1, <1>5, <2>3 DEF NoRecords, Record
    <2>4. ASSUME NEW g \in Agreements, SynchronizeAccounts(g)
          PROVE  job'.snap[a].age <= silent'[a]
      <3>1. job'.snap = records[g] /\ silent' = silent
        BY <2>4 DEF SynchronizeAccounts, StoreSame, storeVars, TypeOK, JobType
      <3>2. job'.snap[a] = records[g][a] /\ silent'[a] = silent[a]
        BY <3>1
      <3> QED BY <1>1, <1>5, <3>2 DEF AgeIsSilence
    <2>5. CASE SaveRecord /\ a = job.a /\ job'.snap[a] = job.snap[a]
               /\ job.snap[a].status = "none"
      BY <1>5, <2>5
    <2>6. ManageTerminatedAccounts => job'.snap = NoRecords
      BY DEF ManageTerminatedAccounts, TypeOK, JobType
    <2>7. job' = job => ~SaveRecord
      BY DEF SaveRecord, TypeOK, JobType
    <2> QED BY <1>1, <2>1, <2>2, <2>3, <2>4, <2>5, <2>6, <2>7, WhoMoves, JobLeaves, JobNarrows
  <1>6. ASSUME job'.at \in {"expire", "delete", "terminate", "mark"}, a \in JobPending'
        PROVE  silent'[a] = Inactivity
    <2>1. CASE ManageTerminatedAccounts
      <3>1. a \in Inactive /\ silent' = silent
        BY <1>6, <2>1 DEF ManageTerminatedAccounts, JobPending, JobHolds, StoreSame, storeVars,
                           TypeOK, JobType
      <3> QED BY <1>1, <1>2, <3>1 DEF AgeIsSilence, Inactive
    <2>2. CASE /\ job.at \in {"expire", "delete", "terminate", "mark"}
               /\ JobPending' \subseteq JobPending
      <3>1. silent'[a] = silent[a]
        BY <1>3, <2>2 DEF SaveRecord, MonthPasses
      <3> QED BY <1>1, <1>6, <2>2, <3>1 DEF AgeIsSilence
    <2>3. job' = job => JobPending' = JobPending
      BY DEF JobPending
    <2>4. ASSUME NEW g \in Agreements, SynchronizeAccounts(g) PROVE job'.at = "account"
      BY <2>4 DEF SynchronizeAccounts, TypeOK, JobType
    <2> QED BY <1>6, <2>1, <2>2, <2>3, <2>4, WhoMoves, JobLeaves, JobNarrows
  <1> QED BY <1>4, <1>5, <1>6

LEMMA OrderRecordedKept ==
    ASSUME TypeOK, Shape, OrderRecorded, Next
    PROVE  OrderRecorded'
  <1>1. \A g \in Agreements, a \in Accounts :
           records[g][a].status # "none" => records'[g][a].status # "none"
    BY RecordSteps DEF Record
  <1> USE DEF OrderRecorded, OrderPending, OrderHolds
  <1>2. CASE order' = order
    BY <1>1, <1>2 DEF Shape, TypeOK, OrderType
  <1>3. ASSUME NEW g \in Agreements, StartStep(g) PROVE OrderRecorded'
    BY <1>3 DEF StartStep, IdleOrder
  <1>4. ASSUME NEW b \in Accounts, LookupRecord(b) PROVE OrderRecorded'
    <2>1. /\ order'.g = order.g /\ order'.a = b /\ order'.todo = order.todo \ {b}
          /\ order.at # "idle" /\ b \in order.todo /\ records' = records
      BY <1>4 DEF LookupRecord, TypeOK, OrderType
    <2> QED BY <2>1
  <1>5. CASE CompleteOrder \/ StepStops
    BY <1>5 DEF CompleteOrder, StepStops, IdleOrder
  <1>6. CASE EndRecorded
    <2>1. CASE order' = IdleOrder
      BY <2>1 DEF IdleOrder
    <2>2. CASE OrderGoes("mark")
      <3>1. /\ order'.g = order.g /\ order'.a = order.a /\ order'.todo = order.todo
            /\ order.at \in {"delete", "terminate"} /\ records' = records
        BY <1>6, <2>2 DEF OrderGoes, EndRecorded, TypeOK, OrderType
      <3> QED BY <3>1
    <2> QED BY <1>6, <2>1, <2>2 DEF EndRecorded
  <1>7. CASE MarkRecord
    <2>1. /\ order'.g = order.g /\ order'.todo = order.todo /\ order'.at = "each"
          /\ order.at = "mark" /\ order.todo \subseteq Accounts /\ order.g \in Agreements
      BY <1>7 DEF MarkRecord, TypeOK, OrderType, Shape
    <2> QED BY <1>1, <2>1
  <1> QED BY <1>2, <1>3, <1>4, <1>5, <1>6, <1>7, WhoMoves DEF OrderStep

LEMMA OrderEndsKept ==
    ASSUME TypeOK, Shape, OwnAgreement, OrderRecorded, OneLive, OrderAlone, OrderEnds, Next
    PROVE  OrderEnds'
  <1> SUFFICES ASSUME order'.at # "idle", ~order'.met, NEW a \in Accounts \ moved',
                      records'[order'.g][a].status # "none", a \notin order'.todo,
                      ~(order'.at \in {"delete", "terminate"} /\ order'.a = a)
               PROVE  Ended(a)'
    BY DEF OrderEnds
  <1>1. a \in Accounts \ moved
    BY OneWay
  <1>2. ASSUME order.at # "idle", ~order.met, records[order.g][a].status # "none", a \notin order.todo,
               ~(order.at \in {"delete", "terminate"} /\ order.a = a)
        PROVE  Ended(a)'
    <2>1. Ended(a)
      BY <1>1, <1>2 DEF OrderEnds
    <2>2. order.g \in Agreements
      BY <1>2 DEF Shape
    <2>3. ~(CreateEntitlement /\ a = job.a)
      <3>1. CreateEntitlement /\ a = job.a => home[a] = job.g
        BY <1>1 DEF OwnAgreement, JobPending, JobHolds, CreateEntitlement
      <3>2. home[a] = order.g
        BY <1>1, <1>2, <2>2 DEF OwnAgreement
      <3> QED BY <1>1, <1>2, <3>1, <3>2 DEF OrderAlone
    <2> QED BY <2>1, <2>3, EndedKept
  <1>3. CASE order' = order
    <2>1. order.g \in Agreements /\ ~MarkRecord
      BY <1>3 DEF Shape, MarkRecord, TypeOK, OrderType
    <2>2. records[order.g][a].status # "none"
      <3>1. (SaveRecord \/ MarkTerminated) => order.g # job.g
        BY <1>1, <1>3 DEF OrderAlone
      <3> QED BY <1>3, <2>1, <3>1, RecordSteps
    <2> QED BY <1>2, <1>3, <2>2
  <1>4. ASSUME NEW g \in Agreements, StartStep(g) PROVE Ended(a)'
    BY <1>4 DEF StartStep, IdleOrder
  <1>5. ASSUME NEW b \in Accounts, LookupRecord(b) PROVE Ended(a)'
    <2>1. PICK i \in Lookups(b) :
             order' = [order EXCEPT !.a = b, !.todo = @ \ {b}, !.hit = i, !.at = CallFor(b, i)]
      BY <1>5 DEF LookupRecord
    <2>2. /\ order'.g = order.g /\ order'.a = b /\ order'.todo = order.todo \ {b}
          /\ order'.met = order.met
          /\ order'.at = CallFor(b, i) /\ order.at = "each" /\ records' = records /\ ffc' = ffc
      BY <1>5, <2>1 DEF LookupRecord, TypeOK, OrderType
    <2>3. CASE a = b
      <3>1. CallFor(b, i) = "mark"
        BY <2>2, <2>3 DEF CallFor
      <3>2. Ended(a)
        BY <2>3, <3>1, LookupSaw
      <3> QED BY <2>2, <3>2 DEF Ended, Live, Kept
    <2>4. CASE a # b
      BY <1>2, <2>2, <2>4
    <2> QED BY <2>3, <2>4
  <1>6. CASE CompleteOrder \/ StepStops
    BY <1>6 DEF CompleteOrder, StepStops, IdleOrder
  <1>7. CASE EndRecorded
    <2>1. order.a \in Accounts /\ order.hit \in Ids
      BY <1>7, FinOpsAssumption DEF EndRecorded, TypeOK, Shape, OrderHolds, OrderType, Ids
    <2>2. order' # IdleOrder
      BY DEF IdleOrder
    <2>3. Fits(order.a, order.hit, order.at) /\ Ends(order.a, order.hit, order.at) /\ OrderGoes("mark")
      BY <1>7, <2>2 DEF EndRecorded
    <2>4. CASE a = order.a
      BY <2>1, <2>3, <2>4, CallEnds DEF TypeOK
    <2>5. CASE a # order.a
      <3>1. /\ order'.g = order.g /\ order'.todo = order.todo /\ order'.met = order.met
            /\ records' = records /\ order.at # "idle"
        BY <1>7, <2>3 DEF EndRecorded, OrderGoes, TypeOK, OrderType
      <3> QED BY <1>2, <2>5, <3>1
    <2> QED BY <2>4, <2>5
  <1>8. CASE MarkRecord
    <2>1. /\ order'.g = order.g /\ order'.todo = order.todo /\ order.at = "mark"
          /\ order.g \in Agreements /\ order.a \in OrderPending /\ order'.met = order.met
      BY <1>8 DEF MarkRecord, TypeOK, OrderType, Shape, OrderPending, OrderHolds
    <2>2. ~SaveRecord \/ job.g # order.g
      BY <1>1, <2>1 DEF OrderAlone
    <2>3. ~MarkTerminated \/ job.g # order.g
      BY <1>1, <2>1 DEF OrderAlone
    <2>4. records[order.g][a].status # "none"
      BY <2>1, <2>2, <2>3, RecordSteps DEF OrderRecorded
    <2> QED BY <1>2, <2>1, <2>4
  <1> QED BY <1>3, <1>4, <1>5, <1>6, <1>7, <1>8, WhoMoves DEF OrderStep

LEMMA RecordedKept ==
    ASSUME TypeOK, Shape, OwnAgreement, OrderRecorded, JobSawNone, OrderEnds, Recorded, Next
    PROVE  Recorded'
  <1> SUFFICES ASSUME NEW a \in Accounts \ moved'
               PROVE  \/ Ended(a)'
                      \/ records'[home'[a]][a].status = "Active"
                      \/ job'.at = "save" /\ job'.a = a
                      \/ a \in unrecorded'
    BY DEF Recorded
  <1>1. a \in Accounts \ moved /\ home'[a] = home[a] /\ home[a] \in Agreements
    BY OneWay DEF TypeOK
  <1>2. CASE SaveRecord /\ job.a = a
    <2>1. home[a] = job.g /\ job.g \in Agreements
      BY <1>1, <1>2 DEF OwnAgreement, JobPending, JobHolds, SaveRecord, Shape
    <2>2. records'[job.g][a] = Record("Active")
      BY <1>2, SavedRecord
    <2> QED BY <1>1, <2>1, <2>2 DEF Record
  <1>3. CASE Ended(a)
    <2>1. CASE CreateEntitlement /\ a = job.a
      BY <2>1 DEF CreateEntitlement, Goes, TypeOK, JobType
    <2> QED BY <1>1, <1>3, <2>1, EndedKept
  <1>4. CASE job.at = "save" /\ job.a = a
    <2>1. CASE job' = job
      BY <1>4, <2>1
    <2>2. CASE SyncDies
      BY <1>4, <2>2 DEF SyncDies
    <2>3. SyncNext => SaveRecord \/ SyncDies
      BY <1>4 DEF SyncNext, PassStep, FetchAgreements, SynchronizeAccounts, GetEntitlement,
           Served, CreateEntitlement, ManageTerminatedAccounts, LookupInactive,
           EndEntitlement, MarkTerminated, NextAgreement, SyncEnds
    <2> QED BY <1>2, <1>4, <2>1, <2>2, <2>3, WhoMoves
  <1>5. CASE a \in unrecorded /\ ~(SaveRecord /\ job.a = a)
    BY <1>1, <1>5, UnrecordedStays
  <1>6. CASE records[home[a]][a].status = "Active" /\ ~Ended(a)
    <2>1. ~(MarkTerminated /\ a = job.a)
      BY <1>6 DEF MarkTerminated, JobSawNone
    <2>2. CASE MarkRecord /\ home[a] = order.g /\ a = order.a
      <3>1. order.met
        BY <1>1, <1>6, <2>2 DEF MarkRecord, OrderEnds, OrderRecorded, OrderHolds
      <3> QED BY <2>2, <3>1 DEF MarkRecord
    <2> QED BY <1>1, <1>6, <2>1, <2>2, RecordSteps DEF Record
  <1> QED BY <1>1, <1>2, <1>3, <1>4, <1>5, <1>6 DEF Recorded

LEMMA InitInvariant == Init => IInv
  <1> SUFFICES ASSUME Init PROVE IInv
    OBVIOUS
  <1>1. /\ order.at = "idle" /\ order.todo = {} /\ job.at = "idle" /\ job.todo = {}
        /\ job.snap = NoRecords
    BY DEF Init, IdleOrder, IdleJob
  <1>2. \A a \in Accounts : Live(a) = {}
    BY DEF Init, Live
  <1>3. \A g \in Agreements, a \in Accounts : records[g][a].status = "none"
    BY DEF Init, NoRecords, Record
  <1>4. \A a \in Accounts : job.snap[a].status = "none"
    BY <1>1 DEF NoRecords, Record
  <1>5. OwnAgreement /\ AgeIsSilence
    BY <1>1, <1>3, <1>4 DEF OwnAgreement, AgeIsSilence, JobPending, JobHolds
  <1>6. OneLive /\ Recorded
    BY <1>2 DEF OneLive, Recorded, Ended
  <1>7. OrderRecorded /\ OrderAlone /\ OrderEnds /\ JobSawNone
    BY <1>1 DEF OrderRecorded, OrderHolds, OrderAlone, OrderEnds, JobSawNone
  <1> QED BY <1>5, <1>6, <1>7 DEF IInv

LEMMA InvariantKept == TypeOK /\ Shape /\ IInv /\ [Next]_vars => IInv'
  <1> SUFFICES ASSUME TypeOK, Shape, IInv, [Next]_vars PROVE IInv'
    OBVIOUS
  <1>1. CASE UNCHANGED vars
    BY <1>1 DEF vars, worldVars, storeVars, IInv, OwnAgreement, OrderRecorded, AgeIsSilence,
                OneLive, JobSawNone, OrderAlone, OrderEnds, Recorded, JobPending,
                OrderPending, Ended, Live, Kept
  <1>2. CASE Next
    BY <1>2, OwnAgreementKept, OrderRecordedKept, AgeIsSilenceKept, OneLiveKept,
       JobSawNoneKept, OrderAloneKept, OrderEndsKept, RecordedKept DEF IInv
  <1> QED BY <1>1, <1>2

-----------------------------------------------------------------------------
(* The theorems.                                                           *)

(* Every state satisfies the invariant.                                    *)
THEOREM Invariant == Spec => [](TypeOK /\ Shape /\ IInv)
  <1>1. Init => TypeOK /\ Shape /\ IInv
    BY InitTypes, InitInvariant
  <1>2. TypeOK /\ Shape /\ IInv /\ [Next]_vars => (TypeOK /\ Shape /\ IInv)'
    BY TypesKept, InvariantKept
  <1> QED BY <1>1, <1>2, PTL DEF Spec

(* An account has a second live entitlement only where FFC keeps a         *)
(* terminated one of it: nothing else the passes, the orders and their     *)
(* failures do makes the job create one beside another.                    *)
THEOREM NoDuplicate == Spec => []DuplicateNeedsKept
  <1>1. TypeOK /\ IInv => DuplicateNeedsKept
    <2> SUFFICES ASSUME TypeOK, IInv, NEW a \in Accounts, Kept(a) = {}
                 PROVE  ~(Cardinality(Live(a)) > 1)
      BY DEF DuplicateNeedsKept
    <2>1. \A i, k \in Live(a) : i = k
      BY DEF IInv, OneLive
    <2>2. CASE Live(a) = {}
      BY <2>2, FS_EmptySet
    <2>3. CASE Live(a) # {}
      <3>1. PICK i : Live(a) = {i}
        BY <2>1, <2>3
      <3> QED BY <3>1, FS_Singleton
    <2> QED BY <2>2, <2>3
  <1> QED BY <1>1, Invariant, PTL

(* The record that notices the inactivity of an entitlement is lost in two *)
(* ways only, and until the next pass over the account: a pass dies before *)
(* it saves it, or an order that met a pass marks it.  No failed call and  *)
(* no other crash, of the job or of the order, does it.                    *)
THEOREM LiveHasRecord == Spec => []LiveIsRecorded
  <1>1. TypeOK /\ IInv => LiveIsRecorded
    BY DEF IInv, Recorded, LiveIsRecorded, Ended
  <1> QED BY <1>1, Invariant, PTL

LEMMA LiveIsFinite ==
    ASSUME NEW a
    PROVE  Cardinality(Live(a)) \in Nat
  <1>1. IsFiniteSet(Ids)
    BY FS_Interval, FinOpsAssumption DEF Ids
  <1>2. Live(a) \subseteq Ids
    BY DEF Live
  <1> QED BY <1>1, <1>2, FS_Subset, FS_CardinalityType

(* The job ends an entitlement only after the months of inactivity, but    *)
(* for an account that has changed its organization.                       *)
THEOREM InactivityIsHonoured == Spec => InactivityHonoured
  <1>1. TypeOK /\ Shape /\ IInv /\ [Next]_vars =>
           [\A a \in Accounts :
               (job.at \in {"delete", "terminate"}
                  /\ Cardinality(Live(a)') < Cardinality(Live(a)) /\ order' = order)
               => silent[a] = Inactivity \/ a \in moved]_vars
    <2> SUFFICES ASSUME TypeOK, Shape, IInv, Next, NEW a \in Accounts, a \notin moved,
                        job.at \in {"delete", "terminate"}, order' = order,
                        Cardinality(Live(a)') < Cardinality(Live(a))
                 PROVE  silent[a] = Inactivity
      BY DEF vars
    <2>1. Live(a)' # Live(a)
      BY LiveIsFinite
    <2>2. EndEntitlement /\ a = job.a
      <3>1. ffc' # ffc
        BY <2>1 DEF Live
      <3>2. ~EndRecorded
        BY <3>1 DEF EndRecorded, OrderGoes, TypeOK, OrderType
      <3>3. ~\E b \in Accounts : FfcActivates(b)
        BY <2>1, ActivationLive DEF TypeOK
      <3>4. EndEntitlement
        BY <3>1, <3>2, <3>3
           DEF Next, SyncNext, PassStep, FetchAgreements, SynchronizeAccounts, GetEntitlement,
               Served, CreateEntitlement, SaveRecord, ManageTerminatedAccounts,
               LookupInactive, MarkTerminated, NextAgreement, SyncEnds, SyncDies, StoreSame,
               storeVars, OrderStep, StartStep, LookupRecord, MarkRecord, CompleteOrder,
               StepStops, Environment, EndOrdered, OrderFails, AgreementLost, UsageAppears,
               AccountMoves, MonthPasses, MptKeep, AwsKeep
      <3>5. job.a \in Accounts /\ job.hit \in Ids
        BY FinOpsAssumption DEF TypeOK, Shape, JobHolds, JobType, Ids
      <3>6. Fits(job.a, job.hit, job.at) /\ Ends(job.a, job.hit, job.at)
        BY <3>1, <3>4 DEF EndEntitlement
      <3>7. \A b \in Accounts \ {job.a} : Live(b)' = Live(b)
        BY <3>5, <3>6, EndsLive DEF TypeOK
      <3> QED BY <2>1, <3>4, <3>7
    <2> QED BY <2>2 DEF IInv, AgeIsSilence, JobPending, JobHolds
  <1> QED BY <1>1, Invariant, PTL DEF Spec, InactivityHonoured

(* A termination order whose step met no pass of the job over its          *)
(* agreement leaves no recorded account entitled when it completes.        *)
THEOREM OrderEndsAll == Spec => OrderEndsEntitlements
  <1>1. TypeOK /\ Shape /\ IInv /\ [Next]_vars =>
           [\A g \in Agreements :
               CompleteOrder /\ order.g = g /\ ~order.met => NoneEntitled(g)]_vars
    BY DEF IInv, OrderEnds, Ended, CompleteOrder, NoneEntitled
  <1> QED BY <1>1, Invariant, PTL DEF Spec, OrderEndsEntitlements
==============================================================================
