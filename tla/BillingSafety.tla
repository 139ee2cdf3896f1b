----------------------------- MODULE BillingSafety -----------------------------
(***************************************************************************)
(* Theorems about the billing of a month, for any authorizations, their    *)
(* agreements and views, and any number of retries, deaths and             *)
(* disturbances.                                                           *)
(***************************************************************************)
EXTENDS BillingSystem, FiniteSetTheorems, SequenceTheorems, TLAPS

-----------------------------------------------------------------------------
(* Types.                                                                  *)

(* A run about to fill a journal, or done with it, knows one that is there. *)
Shape ==
    \A r \in Runs : runs[r].at \in {"upload", "attach"} =>
        runs[r].j \in 1..Len(journals[runs[r].u])

LEMMA SetRun ==
    ASSUME runs \in [Runs -> RunType], NEW r \in Runs, NEW rec \in RunType, Set(r, rec)
    PROVE  /\ runs' \in [Runs -> RunType]
           /\ runs'[r] = rec
           /\ \A s \in Runs \ {r} : runs'[s] = runs[s]
    BY DEF Set

LEMMA ResultTypes ==
    /\ Nothing \in Results
    /\ \A gone \in SUBSET Agreements : [Nothing EXCEPT !.gone = gone] \in Results
    BY DEF Nothing, Results

LEMMA IdleTypes ==
    /\ IdleRun \in RunType
    /\ \A at \in {"idle", "next", "succeeded", "failed"} : [IdleRun EXCEPT !.at = at] \in RunType
    /\ \A auths \in SUBSET Authorizations : Start(auths) \in RunType
    BY ResultTypes DEF IdleRun, RunType, Start

LEMMA ContinueType ==
    ASSUME runs \in [Runs -> RunType], NEW r \in Runs
    PROVE  /\ Continue(r) \in RunType
           /\ Continue(r).at = "next" /\ Continue(r).auths = runs[r].auths
           /\ Continue(r).done = runs[r].done
  <1>1. runs[r].auths \in SUBSET Authorizations /\ runs[r].done \in SUBSET Authorizations
    BY DEF RunType
  <1> QED BY <1>1, ResultTypes DEF Continue, IdleRun, RunType

LEMMA FailureType ==
    ASSUME TypeOK, Failure
    PROVE  failures' \in 0..MaxDisturbances
  <1>1. IsFiniteSet(Authorizations \X Agreements)
    BY FS_Product, BillingAssumption
  <1>2. Cardinality(withdrawn) \in Nat /\ Cardinality(over) \in Nat
    BY <1>1, FS_Subset, FS_CardinalityType DEF TypeOK
  <1> QED BY <1>2, BillingAssumption DEF Failure, Disturbances, TypeOK

(* A new journal is appended, one that is there is changed in place.       *)
LEMMA AppendJournal ==
    ASSUME journals \in [Authorizations -> Seq(Journal)], NEW u \in Authorizations,
           NEW new \in Journal, journals' = [journals EXCEPT ![u] = Append(@, new)]
    PROVE  /\ journals' \in [Authorizations -> Seq(Journal)]
           /\ Len(journals'[u]) = Len(journals[u]) + 1
           /\ journals'[u][Len(journals[u]) + 1] = new
           /\ \A i \in 1..Len(journals[u]) : journals'[u][i] = journals[u][i]
           /\ \A w \in Authorizations \ {u} : journals'[w] = journals[w]
  <1>1. journals[u] \in Seq(Journal) /\ journals'[u] = Append(journals[u], new)
    OBVIOUS
  <1>2. /\ Append(journals[u], new) \in Seq(Journal)
        /\ Len(Append(journals[u], new)) = Len(journals[u]) + 1
        /\ \A i \in 1..Len(journals[u]) : Append(journals[u], new)[i] = journals[u][i]
        /\ Append(journals[u], new)[Len(journals[u]) + 1] = new
    BY <1>1, AppendProperties
  <1> QED BY <1>1, <1>2

LEMMA ChangeJournal ==
    ASSUME journals \in [Authorizations -> Seq(Journal)], NEW u \in Authorizations,
           NEW i \in 1..Len(journals[u]), NEW changed \in Journal,
           journals' = [journals EXCEPT ![u][i] = changed]
    PROVE  /\ journals' \in [Authorizations -> Seq(Journal)]
           /\ Len(journals'[u]) = Len(journals[u])
           /\ \A k \in 1..Len(journals[u]) :
                 journals'[u][k] = IF k = i THEN changed ELSE journals[u][k]
           /\ \A w \in Authorizations \ {u} : journals'[w] = journals[w]
  <1>1. journals[u] \in Seq(Journal) /\ journals'[u] = [journals[u] EXCEPT ![i] = changed]
    OBVIOUS
  <1>2. /\ [journals[u] EXCEPT ![i] = changed] \in Seq(Journal)
        /\ Len([journals[u] EXCEPT ![i] = changed]) = Len(journals[u])
        /\ \A k \in 1..Len(journals[u]) :
              [journals[u] EXCEPT ![i] = changed][k] = IF k = i THEN changed ELSE journals[u][k]
    BY <1>1, ExceptSeq
  <1> QED BY <1>1, <1>2

LEMMA JournalAt ==
    ASSUME journals \in [Authorizations -> Seq(Journal)], NEW u \in Authorizations
    PROVE  /\ Len(journals[u]) \in Nat
           /\ DOMAIN journals[u] = 1..Len(journals[u])
           /\ \A i \in 1..Len(journals[u]) : journals[u][i] \in Journal
           /\ OpenOnes(u) \subseteq 1..Len(journals[u])
  <1>1. journals[u] \in Seq(Journal)
    OBVIOUS
  <1>2. Len(journals[u]) \in Nat /\ DOMAIN journals[u] = 1..Len(journals[u])
    BY <1>1, LenProperties
  <1>3. \A i \in 1..Len(journals[u]) : journals[u][i] \in Journal
    BY <1>1, ElementOfSeq
  <1> QED BY <1>2, <1>3 DEF OpenOnes

(* The steps on journals.                                                  *)
NewJournal(r) == [name |-> runs[r].j, open |-> TRUE, filled |-> FALSE, file |-> Nothing]

LEMMA Creates ==
    ASSUME TypeOK, NEW r \in Runs, CreateJournal(r)
    PROVE  LET u == runs[r].u IN
           /\ u \in Authorizations
           /\ journals' \in [Authorizations -> Seq(Journal)]
           /\ Len(journals'[u]) = Len(journals[u]) + 1
           /\ journals'[u][Len(journals[u]) + 1] = NewJournal(r)
           /\ \A i \in 1..Len(journals[u]) : journals'[u][i] = journals[u][i]
           /\ \A w \in Authorizations \ {u} : journals'[w] = journals[w]
  <1>1. runs[r].u \in Authorizations /\ runs[r].j \in Nat
    BY DEF CreateJournal, InJournal, InJournals, TypeOK, RunType
  <1>2. NewJournal(r) \in Journal
    BY <1>1, ResultTypes DEF NewJournal, Journal
  <1>3. journals' = [journals EXCEPT ![runs[r].u] = Append(@, NewJournal(r))]
    BY DEF CreateJournal, NewJournal
  <1> QED BY <1>1, <1>2, <1>3, AppendJournal DEF TypeOK

LEMMA Uploads ==
    ASSUME TypeOK, Shape, NEW r \in Runs, UploadJournal(r)
    PROVE  LET u == runs[r].u
               changed == [journals[u][runs[r].j] EXCEPT !.filled = TRUE, !.file = runs[r].result]
           IN
           /\ u \in Authorizations /\ runs[r].j \in 1..Len(journals[u])
           /\ journals[u][runs[r].j] \in Journal /\ runs[r].result \in Results
           /\ journals' \in [Authorizations -> Seq(Journal)]
           /\ Len(journals'[u]) = Len(journals[u])
           /\ \A k \in 1..Len(journals[u]) :
                 journals'[u][k] = IF k = runs[r].j THEN changed ELSE journals[u][k]
           /\ \A w \in Authorizations \ {u} : journals'[w] = journals[w]
  <1> DEFINE u == runs[r].u
             changed == [journals[u][runs[r].j] EXCEPT !.filled = TRUE, !.file = runs[r].result]
  <1>1. u \in Authorizations /\ runs[r].result \in Results
    BY DEF UploadJournal, InJournal, InJournals, TypeOK, RunType
  <1>2. runs[r].j \in 1..Len(journals[u])
    BY DEF UploadJournal, InJournal, Shape
  <1>3. journals[u][runs[r].j] \in Journal
    BY <1>1, <1>2, JournalAt DEF TypeOK
  <1>4. changed \in Journal
    BY <1>1, <1>3 DEF Journal
  <1>5. journals' = [journals EXCEPT ![u][runs[r].j] = changed]
    BY DEF UploadJournal
  <1> HIDE DEF u, changed
  <1>6. /\ journals' \in [Authorizations -> Seq(Journal)]
        /\ Len(journals'[u]) = Len(journals[u])
        /\ \A k \in 1..Len(journals[u]) :
              journals'[u][k] = IF k = runs[r].j THEN changed ELSE journals[u][k]
        /\ \A w \in Authorizations \ {u} : journals'[w] = journals[w]
    BY <1>1, <1>2, <1>4, <1>5, ChangeJournal DEF TypeOK
  <1> QED BY <1>1, <1>2, <1>3, <1>6 DEF u, changed

LEMMA Submits ==
    ASSUME TypeOK, JournalSubmitted
    PROVE  \E u \in Authorizations : \E i \in 1..Len(journals[u]) :
           /\ journals[u][i] \in Journal /\ journals[u][i].filled
           /\ journals' \in [Authorizations -> Seq(Journal)]
           /\ Len(journals'[u]) = Len(journals[u])
           /\ \A k \in 1..Len(journals[u]) :
                 journals'[u][k] = IF k = i THEN [journals[u][i] EXCEPT !.open = FALSE]
                                   ELSE journals[u][k]
           /\ \A w \in Authorizations \ {u} : journals'[w] = journals[w]
  <1>1. PICK u \in Authorizations : \E i \in OpenOnes(u) :
           journals[u][i].filled /\ journals' = [journals EXCEPT ![u][i].open = FALSE]
    BY DEF JournalSubmitted
  <1>2. PICK i \in OpenOnes(u) :
           journals[u][i].filled /\ journals' = [journals EXCEPT ![u][i].open = FALSE]
    BY <1>1
  <1>3. i \in 1..Len(journals[u]) /\ journals[u][i] \in Journal
    BY <1>2, JournalAt DEF TypeOK
  <1>4. [journals[u][i] EXCEPT !.open = FALSE] \in Journal
    BY <1>3 DEF Journal
  <1>5. journals' = [journals EXCEPT ![u][i] = [journals[u][i] EXCEPT !.open = FALSE]]
    BY <1>2
  <1>6. /\ journals' \in [Authorizations -> Seq(Journal)]
        /\ Len(journals'[u]) = Len(journals[u])
        /\ \A k \in 1..Len(journals[u]) :
              journals'[u][k] = IF k = i THEN [journals[u][i] EXCEPT !.open = FALSE]
                                ELSE journals[u][k]
        /\ \A w \in Authorizations \ {u} : journals'[w] = journals[w]
    BY <1>3, <1>4, <1>5, ChangeJournal DEF TypeOK
  <1> QED BY <1>2, <1>3, <1>6

(* What a step does to the journals of an authorization.                   *)
Added(u) ==
    /\ Len(journals'[u]) = Len(journals[u]) + 1
    /\ \A i \in 1..Len(journals[u]) : journals'[u][i] = journals[u][i]
    /\ \E r \in Runs : /\ CreateJournal(r) /\ runs[r].u = u
                       /\ journals'[u][Len(journals[u]) + 1] = NewJournal(r)
Changed(u) ==
    /\ Len(journals'[u]) = Len(journals[u])
    /\ \A i \in 1..Len(journals[u]) :
        /\ journals'[u][i].name = journals[u][i].name
        /\ journals'[u][i].open => journals[u][i].open
        /\ journals[u][i].filled => journals'[u][i].filled
        /\ \/ /\ journals'[u][i].filled = journals[u][i].filled
              /\ journals'[u][i].file = journals[u][i].file
           \/ \E r \in Runs : /\ UploadJournal(r) /\ runs[r].u = u
                              /\ journals'[u][i].file = runs[r].result

LEMMA JournalsStep ==
    ASSUME TypeOK, Shape, Next
    PROVE  /\ journals' \in [Authorizations -> Seq(Journal)]
           /\ \A u \in Authorizations : Added(u) \/ Changed(u)
  <1>1. ASSUME NEW r \in Runs, CreateJournal(r)
        PROVE  /\ journals' \in [Authorizations -> Seq(Journal)]
               /\ \A u \in Authorizations : Added(u) \/ Changed(u)
    BY <1>1, Creates DEF Added, Changed
  <1>2. ASSUME NEW r \in Runs, UploadJournal(r)
        PROVE  /\ journals' \in [Authorizations -> Seq(Journal)]
               /\ \A u \in Authorizations : Changed(u)
    <2>1. /\ journals' \in [Authorizations -> Seq(Journal)]
          /\ runs[r].u \in Authorizations /\ runs[r].j \in 1..Len(journals[runs[r].u])
          /\ \A w \in Authorizations \ {runs[r].u} : journals'[w] = journals[w]
      BY <1>2, Uploads
    <2>2. Changed(runs[r].u)
      <3>1. [journals[runs[r].u][runs[r].j] EXCEPT !.filled = TRUE, !.file = runs[r].result]
               = [name |-> journals[runs[r].u][runs[r].j].name,
                  open |-> journals[runs[r].u][runs[r].j].open,
                  filled |-> TRUE, file |-> runs[r].result]
        BY <1>2, Uploads DEF Journal
      <3>2. /\ Len(journals'[runs[r].u]) = Len(journals[runs[r].u])
            /\ \A k \in 1..Len(journals[runs[r].u]) :
                  journals'[runs[r].u][k] =
                     IF k = runs[r].j
                     THEN [name |-> journals[runs[r].u][runs[r].j].name,
                           open |-> journals[runs[r].u][runs[r].j].open,
                           filled |-> TRUE, file |-> runs[r].result]
                     ELSE journals[runs[r].u][k]
        BY <1>2, <3>1, Uploads
      <3> QED BY <1>2, <3>2 DEF Changed
    <2> QED BY <2>1, <2>2 DEF Changed
  <1>3. CASE JournalSubmitted
    <2>1. PICK u \in Authorizations : \E i \in 1..Len(journals[u]) :
           /\ journals[u][i] \in Journal /\ journals[u][i].filled
           /\ journals' \in [Authorizations -> Seq(Journal)]
           /\ Len(journals'[u]) = Len(journals[u])
           /\ \A k \in 1..Len(journals[u]) :
                 journals'[u][k] = IF k = i THEN [journals[u][i] EXCEPT !.open = FALSE]
                                   ELSE journals[u][k]
           /\ \A w \in Authorizations \ {u} : journals'[w] = journals[w]
      BY <1>3, Submits
    <2>2. PICK i \in 1..Len(journals[u]) :
           /\ journals[u][i] \in Journal /\ journals[u][i].filled
           /\ journals' \in [Authorizations -> Seq(Journal)]
           /\ Len(journals'[u]) = Len(journals[u])
           /\ \A k \in 1..Len(journals[u]) :
                 journals'[u][k] = IF k = i THEN [journals[u][i] EXCEPT !.open = FALSE]
                                   ELSE journals[u][k]
           /\ \A w \in Authorizations \ {u} : journals'[w] = journals[w]
      BY <2>1
    <2>3. Changed(u)
      BY <2>2 DEF Changed, Journal
    <2> QED BY <2>2, <2>3 DEF Changed
  <1>4. CASE journals' = journals
    BY <1>4 DEF Changed, TypeOK
  <1>5. \/ journals' = journals \/ JournalSubmitted
        \/ \E r \in Runs : CreateJournal(r) \/ UploadJournal(r)
    BY DEF Next, StartPod, StartByHand, Step, NextAuthorization, ProcessSingleAgreement,
           Generated, GetPendingJournal, CountJournals, AttachAndNotify, FinishRun,
           AuthorizationFails, Dies, AgreementEnds, JournalsKeep
  <1> QED BY <1>1, <1>2, <1>3, <1>4, <1>5

-----------------------------------------------------------------------------
(* The steps of a run, each by the record it leaves.                       *)

(* The steps of a run that leave it out of any authorization.              *)
Leaves(r) ==
    \/ r = "cron" /\ StartPod
    \/ r = "manual" /\ StartByHand
    \/ AuthorizationFails(r)
    \/ Generated(r) /\ runs[r].result.lines = {}
    \/ AttachAndNotify(r)
    \/ FinishRun(r)
    \/ Dies(r)

LEMMA LeavesType ==
    ASSUME TypeOK, NEW r \in Runs, Leaves(r)
    PROVE  /\ runs' \in [Runs -> RunType]
           /\ runs'[r].at \in {"idle", "next", "succeeded", "failed"}
           /\ \A s \in Runs \ {r} : runs'[s] = runs[s]
  <1> DEFINE Out(rec) == rec \in RunType /\ rec.at \in {"idle", "next", "succeeded", "failed"}
  <1>1. SUFFICES \E rec : Out(rec) /\ Set(r, rec)
    BY SetRun DEF TypeOK
  <1>2. CASE r = "cron" /\ StartPod
    BY <1>2, IdleTypes DEF StartPod, Start, IdleRun
  <1>3. CASE r = "manual" /\ StartByHand
    <2>1. PICK u \in Authorizations : Set("manual", Start({u}))
      BY <1>3 DEF StartByHand
    <2> QED BY <1>3, <2>1, IdleTypes DEF Start, IdleRun
  <1>4. CASE AuthorizationFails(r) \/ (Generated(r) /\ runs[r].result.lines = {})
    BY <1>4, ContinueType DEF AuthorizationFails, Generated, TypeOK
  <1>5. CASE AttachAndNotify(r)
    <2>1. Continue(r) \in RunType /\ Continue(r).at = "next" /\ Done(r) \in SUBSET Authorizations
      BY <1>5, ContinueType
         DEF AttachAndNotify, InJournal, InJournals, Done, TypeOK, RunType
    <2>2. Out([Continue(r) EXCEPT !.done = Done(r)])
      BY <2>1 DEF RunType
    <2> QED BY <1>5, <2>2 DEF AttachAndNotify
  <1>6. CASE FinishRun(r)
    <2>1. runs[r] \in RunType
      BY DEF TypeOK
    <2>2. Out([runs[r] EXCEPT !.at = "succeeded"])
      BY <2>1 DEF RunType
    <2> QED BY <1>6, <2>2 DEF FinishRun
  <1>7. CASE Dies(r)
    BY <1>7, IdleTypes DEF Dies, AfterDeath, IdleRun
  <1> QED BY <1>2, <1>3, <1>4, <1>5, <1>6, <1>7 DEF Leaves

(* The steps within an authorization.                                      *)
Within(r) ==
    \/ NextAuthorization(r) \/ ProcessSingleAgreement(r)
    \/ Generated(r) /\ runs[r].result.lines # {}
    \/ GetPendingJournal(r) \/ CountJournals(r) \/ CreateJournal(r) \/ UploadJournal(r)

(* Which run moves.                                                        *)
LEMMA WhoMoves ==
    ASSUME Next
    PROVE  \/ \E r \in Runs : Leaves(r) \/ Within(r)
           \/ runs' = runs
    BY DEF Next, Step, Leaves, Within, Runs, JournalSubmitted, AgreementEnds, RunsKeep

LEMMA NextAuthorizationStep ==
    ASSUME TypeOK, NEW r \in Runs, NextAuthorization(r)
    PROVE  /\ runs' \in [Runs -> RunType]
           /\ \A s \in Runs \ {r} : runs'[s] = runs[s]
           /\ runs'[r].at = "agreements"
           /\ \E u \in runs[r].auths :
                /\ runs'[r].u = u /\ u \in Authorizations /\ runs'[r].auths = runs[r].auths \ {u}
                /\ runs'[r].done = runs[r].done
                /\ \E gone \in SUBSET Agreements :
                     /\ gone = {g \in Agreements : <<u, g>> \in over}
                     /\ runs'[r].todo = Agreements \ gone
                     /\ runs'[r].result = [Nothing EXCEPT !.gone = gone]
  <1>1. PICK u \in runs[r].auths :
           Set(r, [runs[r] EXCEPT !.at = "agreements", !.u = u, !.auths = @ \ {u},
                     !.todo = Agreements \ {g \in Agreements : <<u, g>> \in over}, !.usage = {},
                     !.result = [Nothing EXCEPT !.gone = {g \in Agreements : <<u, g>> \in over}]])
    BY DEF NextAuthorization
  <1> DEFINE gone == {g \in Agreements : <<u, g>> \in over}
             res == [Nothing EXCEPT !.gone = gone]
             rec == [runs[r] EXCEPT !.at = "agreements", !.u = u, !.auths = @ \ {u},
                       !.todo = Agreements \ gone, !.usage = {}, !.result = res]
  <1>2. gone \in SUBSET Agreements /\ res \in Results
    BY ResultTypes
  <1>3. runs[r] \in RunType /\ u \in Authorizations
    BY DEF TypeOK, RunType
  <1> HIDE DEF res, gone
  <1>4. /\ rec \in RunType /\ rec.at = "agreements" /\ rec.u = u /\ rec.auths = runs[r].auths \ {u}
        /\ rec.done = runs[r].done /\ rec.todo = Agreements \ gone /\ rec.result = res
    BY <1>2, <1>3 DEF RunType
  <1>5. Set(r, rec)
    BY <1>1 DEF res, gone
  <1> HIDE DEF rec
  <1>6. /\ runs' \in [Runs -> RunType] /\ runs'[r] = rec
        /\ \A s \in Runs \ {r} : runs'[s] = runs[s]
    BY <1>4, <1>5, SetRun DEF TypeOK
  <1> QED BY <1>2, <1>3, <1>4, <1>6 DEF res, gone

(* One agreement: skipped, billed in the views that were read, or failed.  *)
Fate(r, g, res) ==
    \/ res = [runs[r].result EXCEPT !.gone = @ \cup {g}] /\ <<runs[r].u, g>> \in withdrawn
    \/ \E read \in SUBSET Views :
          /\ res = [runs[r].result EXCEPT !.lines = @ \cup {g} \X read,
                                          !.mute = @ \cup {g} \X (Views \ read)]
          /\ read = Views \/ Failure
    \/ res = [runs[r].result EXCEPT !.told = @ \cup {g}] /\ Failure

LEMMA AgreementStep ==
    ASSUME TypeOK, NEW r \in Runs, ProcessSingleAgreement(r)
    PROVE  /\ runs' \in [Runs -> RunType]
           /\ \A s \in Runs \ {r} : runs'[s] = runs[s]
           /\ runs'[r].at = "agreements" /\ runs'[r].u = runs[r].u
           /\ runs'[r].auths = runs[r].auths /\ runs'[r].done = runs[r].done
           /\ \E g \in runs[r].todo :
                runs'[r].todo = runs[r].todo \ {g} /\ Fate(r, g, runs'[r].result)
  <1>1. PICK g \in runs[r].todo :
           SkipAgreement(r, g) \/ GenerateAgreement(r, g) \/ AgreementFails(r, g)
    BY DEF ProcessSingleAgreement
  <1>2. runs[r] \in RunType /\ g \in Agreements /\ runs[r].result \in Results
        /\ runs[r].at = "agreements"
    BY DEF TypeOK, RunType, ProcessSingleAgreement
  <1>3. ASSUME NEW usage \in SUBSET Usage, NEW res \in Results, Fate(r, g, res),
               Set(r, [runs[r] EXCEPT !.todo = @ \ {g}, !.usage = usage, !.result = res])
        PROVE  /\ runs' \in [Runs -> RunType]
               /\ \A s \in Runs \ {r} : runs'[s] = runs[s]
               /\ runs'[r].at = "agreements" /\ runs'[r].u = runs[r].u
               /\ runs'[r].auths = runs[r].auths /\ runs'[r].done = runs[r].done
               /\ runs'[r].todo = runs[r].todo \ {g} /\ runs'[r].result = res
    <2> DEFINE rec == [runs[r] EXCEPT !.todo = @ \ {g}, !.usage = usage, !.result = res]
    <2>1. /\ rec \in RunType /\ rec.at = "agreements" /\ rec.u = runs[r].u
          /\ rec.auths = runs[r].auths /\ rec.done = runs[r].done
          /\ rec.todo = runs[r].todo \ {g} /\ rec.result = res
      BY <1>2 DEF RunType
    <2>2. Set(r, rec)
      BY <1>3
    <2> HIDE DEF rec
    <2> QED BY <2>1, <2>2, SetRun DEF TypeOK
  <1>4. CASE SkipAgreement(r, g)
    <2> DEFINE res == [runs[r].result EXCEPT !.gone = @ \cup {g}]
    <2>1. res \in Results /\ Fate(r, g, res)
      BY <1>2, <1>4 DEF Results, Fate, SkipAgreement
    <2>2. runs[r].usage \in SUBSET Usage
      BY <1>2 DEF RunType
    <2>3. [runs[r] EXCEPT !.todo = @ \ {g}, !.usage = runs[r].usage, !.result = res]
             = [runs[r] EXCEPT !.todo = @ \ {g}, !.result.gone = @ \cup {g}]
      BY <1>2 DEF RunType, Results
    <2>4. Set(r, [runs[r] EXCEPT !.todo = @ \ {g}, !.usage = runs[r].usage, !.result = res])
      BY <1>4, <2>3 DEF SkipAgreement
    <2> HIDE DEF res
    <2> QED BY <1>1, <1>3, <2>1, <2>2, <2>4
  <1>5. CASE GenerateAgreement(r, g)
    <2>1. PICK read \in SUBSET Views :
             /\ Set(r, [runs[r] EXCEPT !.todo = @ \ {g}, !.usage = {g} \X read,
                                       !.result.lines = @ \cup {g} \X read,
                                       !.result.mute = @ \cup {g} \X (Views \ read)])
             /\ read = Views \/ Failure
      BY <1>5 DEF GenerateAgreement, Collected
    <2> DEFINE res == [runs[r].result EXCEPT !.lines = @ \cup {g} \X read,
                                             !.mute = @ \cup {g} \X (Views \ read)]
    <2>2. {g} \X read \in SUBSET Usage /\ {g} \X (Views \ read) \in SUBSET Usage
      BY <1>2 DEF Usage
    <2>3. res \in Results
      BY <1>2, <2>2 DEF Results
    <2>4. Fate(r, g, res)
      BY <2>1 DEF Fate
    <2>5. [runs[r] EXCEPT !.todo = @ \ {g}, !.usage = {g} \X read, !.result = res]
             = [runs[r] EXCEPT !.todo = @ \ {g}, !.usage = {g} \X read,
                               !.result.lines = @ \cup {g} \X read,
                               !.result.mute = @ \cup {g} \X (Views \ read)]
      BY <1>2 DEF RunType, Results
    <2>6. Set(r, [runs[r] EXCEPT !.todo = @ \ {g}, !.usage = {g} \X read, !.result = res])
      BY <2>1, <2>5
    <2> HIDE DEF res
    <2> QED BY <1>1, <1>3, <2>2, <2>3, <2>4, <2>6
  <1>6. CASE AgreementFails(r, g)
    <2>1. PICK read \in SUBSET Views :
             Set(r, [runs[r] EXCEPT !.todo = @ \ {g}, !.usage = {g} \X read,
                                    !.result.told = @ \cup {g}])
      BY <1>6 DEF AgreementFails, Collected, Notified
    <2> DEFINE res == [runs[r].result EXCEPT !.told = @ \cup {g}]
    <2>2. {g} \X read \in SUBSET Usage
      BY <1>2 DEF Usage
    <2>3. res \in Results /\ Fate(r, g, res)
      BY <1>2, <1>6 DEF Results, Fate, AgreementFails
    <2>4. [runs[r] EXCEPT !.todo = @ \ {g}, !.usage = {g} \X read, !.result = res]
             = [runs[r] EXCEPT !.todo = @ \ {g}, !.usage = {g} \X read,
                               !.result.told = @ \cup {g}]
      BY <1>2 DEF RunType, Results
    <2>5. Set(r, [runs[r] EXCEPT !.todo = @ \ {g}, !.usage = {g} \X read, !.result = res])
      BY <2>1, <2>4
    <2> HIDE DEF res
    <2> QED BY <1>1, <1>3, <2>2, <2>3, <2>5
  <1> QED BY <1>1, <1>4, <1>5, <1>6

(* The steps at the journal keep what the run has, but for where it is and *)
(* the journal it holds.                                                   *)
LEMMA JournalStep ==
    ASSUME TypeOK, NEW r \in Runs,
           \/ Generated(r) /\ runs[r].result.lines # {}
           \/ GetPendingJournal(r) \/ CountJournals(r) \/ CreateJournal(r) \/ UploadJournal(r)
    PROVE  /\ runs' \in [Runs -> RunType]
           /\ \A s \in Runs \ {r} : runs'[s] = runs[s]
           /\ runs[r].u \in Authorizations /\ runs'[r].u = runs[r].u
           /\ runs'[r].auths = runs[r].auths
           /\ runs'[r].done = runs[r].done /\ runs'[r].result = runs[r].result
           /\ \/ Generated(r) /\ runs'[r].at = "find"
              \/ /\ GetPendingJournal(r) /\ runs'[r].j \in Found(runs[r].u)
                 /\ runs'[r].at = AfterFinding(runs'[r].j)
              \/ /\ CountJournals(r) /\ runs'[r].at = "create"
                 /\ runs'[r].j = Len(journals[runs[r].u]) + 1
              \/ /\ CreateJournal(r) /\ runs'[r].at = "upload"
                 /\ runs'[r].j = Len(journals[runs[r].u]) + 1
              \/ UploadJournal(r) /\ runs'[r].at = "attach" /\ runs'[r].j = runs[r].j
  <1>1. runs[r] \in RunType /\ runs[r].u \in Authorizations
    BY DEF TypeOK, Generated, GetPendingJournal, CountJournals, CreateJournal, UploadJournal,
           InJournal, InJournals
  <1>2. Len(journals[runs[r].u]) + 1 \in Nat /\ Found(runs[r].u) \subseteq Nat
    BY <1>1, JournalAt DEF TypeOK, Found
  <1> DEFINE Moves(at, j) ==
               /\ runs' \in [Runs -> RunType]
               /\ \A s \in Runs \ {r} : runs'[s] = runs[s]
               /\ runs'[r].u = runs[r].u /\ runs'[r].auths = runs[r].auths
               /\ runs'[r].done = runs[r].done /\ runs'[r].result = runs[r].result
               /\ runs'[r].at = at /\ runs'[r].j = j
  <1>3. ASSUME NEW at \in InJournals, NEW j \in Nat, NEW usage \in SUBSET Usage,
               Set(r, [runs[r] EXCEPT !.at = at, !.j = j, !.usage = usage])
        PROVE  Moves(at, j)
    <2> DEFINE rec == [runs[r] EXCEPT !.at = at, !.j = j, !.usage = usage]
    <2>1. /\ rec \in RunType /\ rec.u = runs[r].u /\ rec.auths = runs[r].auths
          /\ rec.done = runs[r].done /\ rec.result = runs[r].result /\ rec.at = at /\ rec.j = j
      BY <1>1 DEF RunType
    <2>2. Set(r, rec)
      BY <1>3
    <2> HIDE DEF rec
    <2> QED BY <2>1, <2>2, SetRun DEF TypeOK
  <1> HIDE DEF Moves
  <1>4. runs[r].usage \in SUBSET Usage /\ {} \in SUBSET Usage /\ runs[r].j \in Nat
        /\ "find" \in InJournals /\ "create" \in InJournals
        /\ "upload" \in InJournals /\ "attach" \in InJournals
    BY <1>1 DEF RunType, InJournals
  <1>5. \A at, j : [runs[r] EXCEPT !.at = at, !.j = j, !.usage = runs[r].usage]
                      = [runs[r] EXCEPT !.j = j, !.at = at]
    BY <1>1 DEF RunType
  <1>6. \A at : [runs[r] EXCEPT !.at = at, !.j = runs[r].j, !.usage = runs[r].usage]
                   = [runs[r] EXCEPT !.at = at]
    BY <1>1 DEF RunType
  <1>7. CASE Generated(r) /\ runs[r].result.lines # {}
    <2>1. [runs[r] EXCEPT !.at = "find", !.j = runs[r].j, !.usage = {}]
             = [runs[r] EXCEPT !.at = "find", !.usage = {}]
      BY <1>1 DEF RunType
    <2>2. Set(r, [runs[r] EXCEPT !.at = "find", !.j = runs[r].j, !.usage = {}])
      BY <1>7, <2>1 DEF Generated
    <2>3. Moves("find", runs[r].j)
      BY <1>3, <1>4, <2>2
    <2> QED BY <1>1, <1>7, <2>3 DEF Moves
  <1>8. CASE GetPendingJournal(r)
    <2>1. PICK j \in Found(runs[r].u) : Set(r, [runs[r] EXCEPT !.j = j, !.at = AfterFinding(j)])
      BY <1>8 DEF GetPendingJournal
    <2>2. AfterFinding(j) \in InJournals /\ j \in Nat
      BY <1>2 DEF AfterFinding, InJournals
    <2>3. Set(r, [runs[r] EXCEPT !.at = AfterFinding(j), !.j = j, !.usage = runs[r].usage])
      BY <1>5, <2>1
    <2>4. Moves(AfterFinding(j), j)
      BY <1>3, <1>4, <2>2, <2>3
    <2> QED BY <1>1, <1>8, <2>4 DEF Moves
  <1>9. CASE CountJournals(r)
    <2>1. Set(r, [runs[r] EXCEPT !.at = "create", !.j = Len(journals[runs[r].u]) + 1,
                                 !.usage = runs[r].usage])
      BY <1>5, <1>9 DEF CountJournals, NewIndex
    <2>2. Moves("create", Len(journals[runs[r].u]) + 1)
      BY <1>2, <1>3, <1>4, <2>1
    <2> QED BY <1>1, <1>9, <2>2 DEF Moves
  <1>10. CASE CreateJournal(r)
    <2>1. Set(r, [runs[r] EXCEPT !.at = "upload", !.j = Len(journals[runs[r].u]) + 1,
                                 !.usage = runs[r].usage])
      BY <1>5, <1>10 DEF CreateJournal
    <2>2. Moves("upload", Len(journals[runs[r].u]) + 1)
      BY <1>2, <1>3, <1>4, <2>1
    <2> QED BY <1>1, <1>10, <2>2 DEF Moves
  <1>11. CASE UploadJournal(r)
    <2>1. Set(r, [runs[r] EXCEPT !.at = "attach", !.j = runs[r].j, !.usage = runs[r].usage])
      BY <1>6, <1>11 DEF UploadJournal
    <2>2. Moves("attach", runs[r].j)
      BY <1>3, <1>4, <2>1
    <2> QED BY <1>1, <1>11, <2>2 DEF Moves
  <1> QED BY <1>7, <1>8, <1>9, <1>10, <1>11

LEMMA RunsStep ==
    ASSUME TypeOK, Next
    PROVE  \/ runs' = runs
           \/ \E r \in Runs :
                /\ Leaves(r) \/ Within(r)
                /\ runs' \in [Runs -> RunType]
                /\ \A s \in Runs \ {r} : runs'[s] = runs[s]
                /\ runs'[r].at \in {"agreements"} \cup InJournals => runs'[r].u \in Authorizations
  <1>1. SUFFICES ASSUME NEW r \in Runs, Leaves(r) \/ Within(r)
                 PROVE  /\ runs' \in [Runs -> RunType]
                        /\ \A s \in Runs \ {r} : runs'[s] = runs[s]
                        /\ runs'[r].at \in {"agreements"} \cup InJournals
                              => runs'[r].u \in Authorizations
    BY WhoMoves
  <1>2. CASE Leaves(r)
    BY <1>2, LeavesType DEF InJournals
  <1>3. CASE NextAuthorization(r)
    BY <1>3, NextAuthorizationStep
  <1>4. CASE ProcessSingleAgreement(r)
    <2>1. runs[r].u \in Authorizations
      BY <1>4 DEF ProcessSingleAgreement, TypeOK
    <2> QED BY <1>4, <2>1, AgreementStep
  <1>5. CASE \/ Generated(r) /\ runs[r].result.lines # {}
             \/ GetPendingJournal(r) \/ CountJournals(r) \/ CreateJournal(r) \/ UploadJournal(r)
    BY <1>5, JournalStep
  <1> QED BY <1>1, <1>2, <1>3, <1>4, <1>5 DEF Within

LEMMA FailuresStep ==
    ASSUME Next
    PROVE  failures' = failures \/ Failure
  <1>1. ASSUME NEW r \in Runs, ProcessSingleAgreement(r)
        PROVE  failures' = failures \/ Failure
    BY <1>1 DEF ProcessSingleAgreement, SkipAgreement, GenerateAgreement, AgreementFails
  <1>2. ASSUME NEW r \in Runs, Step(r) \/ AuthorizationFails(r), ~ProcessSingleAgreement(r)
        PROVE  failures' = failures \/ Failure
    BY <1>2 DEF Step, NextAuthorization, Generated, AuthorizationFails, GetPendingJournal,
                CountJournals, CreateJournal, UploadJournal, AttachAndNotify, FinishRun
  <1>3. CASE StartPod \/ StartByHand \/ JournalSubmitted \/ AgreementEnds
             \/ \E r \in Runs : Dies(r)
    BY <1>3 DEF StartPod, StartByHand, Dies, AgreementEnds, JournalSubmitted, RunsKeep
  <1> QED BY <1>1, <1>2, <1>3 DEF Next

LEMMA WorldStep ==
    ASSUME Next
    PROVE  UNCHANGED worldVars \/ AgreementEnds
    BY DEF Next, Step, StartPod, StartByHand, Dies, JournalSubmitted, RunsKeep,
           Keep, InJournal, NextAuthorization, ProcessSingleAgreement, Generated,
           AuthorizationFails, GetPendingJournal, CountJournals, CreateJournal, UploadJournal,
           AttachAndNotify, FinishRun

LEMMA ReportStep ==
    ASSUME Next, \A r \in Runs : ~FinishRun(r)
    PROVE  report' = report
    BY DEF Next, Step, StartPod, StartByHand, Dies, JournalSubmitted, RunsKeep, AgreementEnds,
           Keep, InJournal, NextAuthorization, ProcessSingleAgreement, Generated,
           AuthorizationFails, GetPendingJournal, CountJournals, CreateJournal, UploadJournal,
           AttachAndNotify

LEMMA CountersNext ==
    ASSUME TypeOK, Next
    PROVE  /\ attempts' \in 0..BackoffLimit + 1
           /\ failures' \in 0..MaxDisturbances
           /\ deaths' \in Nat
  <1>1. failures' = failures \/ Failure
    BY FailuresStep
  <1>2. attempts \in 0..BackoffLimit + 1 /\ deaths \in Nat /\ failures \in 0..MaxDisturbances
    BY DEF TypeOK
  <1>3. CASE \E r \in Runs : Step(r) \/ AuthorizationFails(r)
    <2>1. \A r \in Runs : Step(r) \/ AuthorizationFails(r) => Keep
      BY DEF Step, InJournal, NextAuthorization, ProcessSingleAgreement, Generated,
             AuthorizationFails, GetPendingJournal, CountJournals, CreateJournal,
             UploadJournal, AttachAndNotify, FinishRun
    <2> QED BY <1>3, <2>1, <1>1, <1>2, FailureType DEF Keep
  <1>4. CASE StartPod
    BY <1>1, <1>2, <1>4, FailureType, BillingAssumption DEF StartPod
  <1>5. CASE StartByHand \/ JournalSubmitted \/ AgreementEnds
    BY <1>2, <1>5 DEF StartByHand, JournalSubmitted, AgreementEnds, RunsKeep
  <1>6. CASE \E r \in Runs : Dies(r)
    BY <1>2, <1>6 DEF Dies
  <1> QED BY <1>3, <1>4, <1>5, <1>6 DEF Next

LEMMA SetsNext ==
    ASSUME TypeOK, Next
    PROVE  /\ withdrawn' \subseteq Authorizations \X Agreements
           /\ over' \subseteq Authorizations \X Agreements
           /\ report' \subseteq Authorizations
           /\ crossed' \subseteq Authorizations
  <1>1. UNCHANGED worldVars \/ AgreementEnds
    BY WorldStep
  <1>2. /\ withdrawn' \subseteq Authorizations \X Agreements
        /\ over' \subseteq Authorizations \X Agreements
    BY <1>1 DEF TypeOK, worldVars, AgreementEnds
  <1>3. report' = report \/ \E r \in Runs : report' = runs[r].done
    BY DEF Next, Step, StartPod, StartByHand, Dies, JournalSubmitted, RunsKeep, AgreementEnds,
           Keep, InJournal, NextAuthorization, ProcessSingleAgreement, Generated,
           AuthorizationFails, GetPendingJournal, CountJournals, CreateJournal, UploadJournal,
           AttachAndNotify, FinishRun
  <1>4. \/ crossed' = crossed
        \/ \E r \in Runs : GetPendingJournal(r) /\ crossed' = crossed \cup {runs[r].u}
    BY DEF Next, Step, StartPod, StartByHand, Dies, JournalSubmitted, RunsKeep, AgreementEnds,
           JournalsKeep, NextAuthorization, ProcessSingleAgreement, Generated,
           AuthorizationFails, GetPendingJournal, CountJournals, CreateJournal, UploadJournal,
           AttachAndNotify, FinishRun
  <1>5. \A r \in Runs : GetPendingJournal(r) => runs[r].u \in Authorizations
    BY DEF GetPendingJournal, InJournal, InJournals, TypeOK
  <1>6. \A r \in Runs : runs[r].done \subseteq Authorizations
    BY DEF TypeOK, RunType
  <1> QED BY <1>2, <1>3, <1>4, <1>5, <1>6 DEF TypeOK

LEMMA ShapeNext ==
    ASSUME TypeOK, Shape, Next
    PROVE  Shape'
  <1>1. SUFFICES ASSUME NEW s \in Runs, runs'[s].at \in {"upload", "attach"}
                 PROVE  runs'[s].j \in 1..Len(journals'[runs'[s].u])
    BY DEF Shape
  <1>2. \A u \in Authorizations : /\ Len(journals[u]) \in Nat /\ Len(journals'[u]) \in Nat
                                  /\ Len(journals[u]) <= Len(journals'[u])
    <2>1. \A u \in Authorizations : Len(journals[u]) \in Nat
      BY JournalAt DEF TypeOK
    <2> QED BY <2>1, JournalsStep DEF Added, Changed
  <1>3. CASE runs'[s] = runs[s]
    <2>1. runs[s].u \in Authorizations /\ runs[s].j \in 1..Len(journals[runs[s].u])
      BY <1>1, <1>3 DEF Shape, TypeOK, InJournals
    <2> QED BY <1>2, <1>3, <2>1
  <1>4. CASE runs'[s] # runs[s]
    <2>1. Leaves(s) \/ Within(s)
      BY <1>4, RunsStep
    <2>2. ~Leaves(s)
      BY <1>1, LeavesType
    <2>3. ~NextAuthorization(s) /\ ~ProcessSingleAgreement(s)
      BY <1>1, NextAuthorizationStep, AgreementStep
    <2>4. \/ Generated(s) /\ runs[s].result.lines # {}
          \/ GetPendingJournal(s) \/ CountJournals(s) \/ CreateJournal(s) \/ UploadJournal(s)
      BY <2>1, <2>2, <2>3 DEF Within
    <2>5. runs[s].u \in Authorizations /\ runs'[s].u = runs[s].u
      BY <2>4, JournalStep
    <2>6. CASE GetPendingJournal(s) /\ runs'[s].j \in Found(runs[s].u)
               /\ runs'[s].at = AfterFinding(runs'[s].j)
      <3>1. runs'[s].j \in OpenOnes(runs[s].u)
        BY <1>1, <2>6 DEF AfterFinding, Found
      <3>2. runs'[s].j \in 1..Len(journals[runs[s].u])
        BY <2>5, <3>1, JournalAt DEF TypeOK
      <3> QED BY <1>2, <2>5, <3>2
    <2>7. CASE CreateJournal(s) /\ runs'[s].j = Len(journals[runs[s].u]) + 1
      BY <1>2, <2>5, <2>7, Creates
    <2>8. CASE UploadJournal(s) /\ runs'[s].j = runs[s].j
      <3>1. runs[s].j \in 1..Len(journals[runs[s].u])
        BY <2>8, Uploads
      <3> QED BY <1>2, <2>5, <2>8, <3>1
    <2> QED BY <1>1, <2>4, <2>6, <2>7, <2>8, JournalStep
  <1> QED BY <1>3, <1>4

LEMMA InitTypes ==
    ASSUME Init
    PROVE  TypeOK /\ Shape
  <1>1. \A r \in Runs : runs[r] = IdleRun
    BY DEF Init
  <1>2. journals \in [Authorizations -> Seq(Journal)]
    BY EmptySeq DEF Init
  <1>3. runs \in [Runs -> RunType]
    BY IdleTypes DEF Init
  <1>4. \A r \in Runs : runs[r].at = "idle"
    BY <1>1 DEF IdleRun
  <1> QED BY <1>2, <1>3, <1>4, BillingAssumption DEF Init, TypeOK, Shape, InJournals

LEMMA TypesNext ==
    ASSUME TypeOK, Shape, [Next]_vars
    PROVE  TypeOK' /\ Shape'
  <1>1. CASE Next
    <2>1. /\ runs' \in [Runs -> RunType]
          /\ \A r \in Runs : runs'[r].at \in {"agreements"} \cup InJournals
                                => runs'[r].u \in Authorizations
      BY <1>1, RunsStep DEF TypeOK
    <2> QED BY <1>1, <2>1, JournalsStep, CountersNext, SetsNext, ShapeNext DEF TypeOK
  <1>2. CASE UNCHANGED vars
    BY <1>2 DEF TypeOK, Shape, vars, worldVars
  <1> QED BY <1>1, <1>2

(* Every state is of the types its variables were declared with, and a run *)
(* never fills a journal that is not there.                                *)
THEOREM TypeCorrect == Spec => [](TypeOK /\ Shape)
  <1>1. Init => TypeOK /\ Shape
    BY InitTypes
  <1>2. TypeOK /\ Shape /\ [Next]_vars => (TypeOK /\ Shape)'
    BY TypesNext
  <1> QED BY <1>1, <1>2, PTL DEF Spec

-----------------------------------------------------------------------------
(* The inductive invariant.                                                *)

(* While one run looks for the journal of an authorization and has found   *)
(* none, there is none open and no other run looks for it.                 *)
OneOpen ==
    \A u \in Authorizations \ crossed :
        /\ \A i \in 1..Len(journals[u]) : journals[u][i].name = i
        /\ \A i, k \in OpenOnes(u) : i = k
        /\ \A r \in Runs : Looking(r, u) =>
              /\ OpenOnes(u) = {}
              /\ \A s \in Runs \ {r} : ~Looking(s, u)
              /\ runs[r].at = "create" => runs[r].j = Len(journals[u]) + 1

(* The agreements still to do have no fate, those done have one.           *)
FatesOf(run) ==
    /\ run.at = "agreements" =>
          \A g \in Agreements, v \in Views :
              IF g \in run.todo THEN Fates(run.result, g, v) = {}
              ELSE \E f \in Fates(run.result, g, v) : Fates(run.result, g, v) = {f}
    /\ run.at \in InJournals => Accounted(run.result)

RunAccounts == \A r \in Runs : FatesOf(runs[r])

(* Where nothing was swallowed, a run bills all it has done and a journal  *)
(* with a file has all usage.                                              *)
LinesOf(run) ==
    /\ run.at = "agreements" => run.result.lines = (Agreements \ run.todo) \X Views
    /\ run.at \in InJournals => run.result.lines = Usage

BillsAll ==
    Undisturbed =>
        /\ \A r \in Runs : LinesOf(runs[r])
        /\ \A u \in Authorizations : \A i \in 1..Len(journals[u]) :
              journals[u][i].filled => journals[u][i].file.lines = Usage

(* What a run is done with has a file, and a pod has, to do or done, all   *)
(* authorizations.                                                         *)
HasFile(js) == \E i \in 1..Len(js) : js[i].filled

HasFiles ==
    \A r \in Runs : /\ \A u \in runs[r].done : HasFile(journals[u])
                    /\ runs[r].at = "attach" => HasFile(journals[runs[r].u])

AllOf(run) ==
    /\ run.at \in {"next", "succeeded"} => Authorizations = run.auths \cup run.done
    /\ run.at \in {"agreements"} \cup InJournals =>
          Authorizations = run.auths \cup run.done \cup {run.u}
    /\ run.at = "succeeded" => run.auths = {}

Progress == Undisturbed => AllOf(runs["cron"])

Reported ==
    Undisturbed /\ runs["cron"].at = "succeeded" /\ runs["manual"].at = "idle" =>
        report = Authorizations

IInv == OneOpen /\ RunAccounts /\ FileIsAccounted /\ BillsAll /\ HasFiles /\ Progress /\ Reported

-----------------------------------------------------------------------------
(* One open journal.                                                       *)

LEMMA LookingStep ==
    ASSUME TypeOK, Next, NEW r \in Runs, NEW u \in Authorizations, Looking(r, u)'
    PROVE  \/ runs'[r] = runs[r] /\ Looking(r, u)
           \/ /\ GetPendingJournal(r) /\ runs[r].u = u /\ runs'[r].at = "count"
              /\ OpenOnes(u) = {} /\ \A s \in Runs \ {r} : runs'[s] = runs[s]
           \/ /\ CountJournals(r) /\ Looking(r, u) /\ runs'[r].j = Len(journals[u]) + 1
              /\ \A s \in Runs \ {r} : runs'[s] = runs[s]
  <1>1. runs'[r].u = u /\ runs'[r].at \in {"count", "create"}
    BY DEF Looking
  <1>2. CASE runs'[r] = runs[r]
    BY <1>1, <1>2 DEF Looking
  <1>3. CASE runs'[r] # runs[r]
    <2>1. Leaves(r) \/ Within(r)
      BY <1>3, RunsStep
    <2>2. ~Leaves(r) /\ ~NextAuthorization(r) /\ ~ProcessSingleAgreement(r)
      BY <1>1, LeavesType, NextAuthorizationStep, AgreementStep
    <2>3. \/ Generated(r) /\ runs[r].result.lines # {}
          \/ GetPendingJournal(r) \/ CountJournals(r) \/ CreateJournal(r) \/ UploadJournal(r)
      BY <2>1, <2>2 DEF Within
    <2>4. runs[r].u = u /\ \A s \in Runs \ {r} : runs'[s] = runs[s]
      BY <1>1, <2>3, JournalStep
    <2>5. CASE /\ GetPendingJournal(r) /\ runs'[r].j \in Found(runs[r].u)
               /\ runs'[r].at = AfterFinding(runs'[r].j)
      <3>1. runs'[r].j = 0 /\ runs'[r].at = "count"
        BY <1>1, <2>5 DEF AfterFinding
      <3>2. 0 \notin OpenOnes(u)
        BY JournalAt DEF TypeOK
      <3> QED BY <2>4, <2>5, <3>1, <3>2 DEF Found
    <2>6. CASE CountJournals(r) /\ runs'[r].j = Len(journals[runs[r].u]) + 1
      BY <2>4, <2>6 DEF CountJournals, InJournal, Looking
    <2> QED BY <1>1, <2>3, <2>5, <2>6, JournalStep
  <1> QED BY <1>2, <1>3

LEMMA CrossedStep ==
    ASSUME TypeOK, Next
    PROVE  crossed \subseteq crossed'
  <1>1. \/ crossed' = crossed
        \/ \E r \in Runs : GetPendingJournal(r)
    BY DEF Next, Step, StartPod, StartByHand, Dies, JournalSubmitted, RunsKeep, AgreementEnds,
           JournalsKeep, NextAuthorization, ProcessSingleAgreement, Generated,
           AuthorizationFails, GetPendingJournal, CountJournals, CreateJournal, UploadJournal,
           AttachAndNotify, FinishRun
  <1> QED BY <1>1 DEF GetPendingJournal

LEMMA FindingCrosses ==
    ASSUME TypeOK, NEW r \in Runs, NEW s \in Runs \ {r}, NEW u \in Authorizations \ crossed',
           GetPendingJournal(r), runs[r].u = u, runs'[r].at = "count"
    PROVE  ~Looking(s, u)
  <1>1. PICK j \in Found(runs[r].u) :
           /\ Set(r, [runs[r] EXCEPT !.j = j, !.at = AfterFinding(j)])
           /\ crossed' = IF j = 0 /\ \E t \in Runs \ {r} : Looking(t, runs[r].u)
                         THEN crossed \cup {runs[r].u} ELSE crossed
    BY DEF GetPendingJournal
  <1>2. runs[r] \in RunType /\ runs'[r] = [runs[r] EXCEPT !.j = j, !.at = AfterFinding(j)]
    BY <1>1 DEF Set, TypeOK
  <1>3. runs'[r].at = AfterFinding(j)
    BY <1>2 DEF RunType
  <1>4. j = 0
    BY <1>3 DEF AfterFinding
  <1> QED BY <1>1, <1>4

LEMMA OneOpenNext ==
    ASSUME TypeOK, Shape, OneOpen, Next
    PROVE  OneOpen'
  <1>1. SUFFICES ASSUME NEW u \in Authorizations \ crossed'
        PROVE  /\ \A i \in 1..Len(journals'[u]) : journals'[u][i].name = i
               /\ \A i, k \in OpenOnes(u)' : i = k
               /\ \A r \in Runs : Looking(r, u)' =>
                     /\ OpenOnes(u)' = {}
                     /\ \A s \in Runs \ {r} : ~Looking(s, u)'
                     /\ runs'[r].at = "create" => runs'[r].j = Len(journals'[u]) + 1
    BY DEF OneOpen
  <1>2. u \in Authorizations \ crossed
    BY CrossedStep
  <1>3. /\ \A i \in 1..Len(journals[u]) : journals[u][i].name = i
        /\ \A i, k \in OpenOnes(u) : i = k
        /\ \A r \in Runs : Looking(r, u) =>
              /\ OpenOnes(u) = {}
              /\ \A s \in Runs \ {r} : ~Looking(s, u)
              /\ runs[r].at = "create" => runs[r].j = Len(journals[u]) + 1
    BY <1>2 DEF OneOpen
  <1>4. Len(journals[u]) \in Nat /\ Len(journals'[u]) \in Nat
        /\ DOMAIN journals[u] = 1..Len(journals[u])
        /\ DOMAIN journals'[u] = 1..Len(journals'[u])
    <2>1. journals[u] \in Seq(Journal) /\ journals'[u] \in Seq(Journal)
      BY <1>1, JournalsStep DEF TypeOK
    <2> QED BY <2>1, LenProperties
  <1>5. CASE Changed(u)
    <2>1. OpenOnes(u)' \subseteq OpenOnes(u)
      BY <1>4, <1>5 DEF Changed, OpenOnes
    <2>2. \A i \in 1..Len(journals'[u]) : journals'[u][i].name = i
      BY <1>3, <1>5 DEF Changed
    <2>3. ASSUME NEW r \in Runs, Looking(r, u)'
          PROVE  /\ OpenOnes(u) = {}
                 /\ \A s \in Runs \ {r} : ~Looking(s, u)'
                 /\ runs'[r].at = "create" => runs'[r].j = Len(journals[u]) + 1
      <3>1. CASE runs'[r] = runs[r] /\ Looking(r, u)
        <4>1. \A s \in Runs \ {r} : ~Looking(s, u)
          BY <1>3, <3>1
        <4>2. \A s \in Runs \ {r} : ~Looking(s, u)'
          BY <1>1, <3>1, <4>1, LookingStep, FindingCrosses
        <4> QED BY <1>3, <3>1, <4>2
      <3>2. CASE /\ GetPendingJournal(r) /\ runs[r].u = u /\ runs'[r].at = "count"
                 /\ OpenOnes(u) = {} /\ \A s \in Runs \ {r} : runs'[s] = runs[s]
        BY <1>1, <3>2, FindingCrosses DEF Looking
      <3>3. CASE /\ CountJournals(r) /\ Looking(r, u) /\ runs'[r].j = Len(journals[u]) + 1
                 /\ \A s \in Runs \ {r} : runs'[s] = runs[s]
        BY <1>3, <3>3 DEF Looking
      <3> QED BY <2>3, <3>1, <3>2, <3>3, LookingStep
    <2>4. Len(journals'[u]) = Len(journals[u])
      BY <1>5 DEF Changed
    <2> QED BY <1>3, <2>1, <2>2, <2>3, <2>4
  <1>6. CASE Added(u)
    <2>1. PICK r \in Runs : /\ CreateJournal(r) /\ runs[r].u = u
                            /\ journals'[u][Len(journals[u]) + 1] = NewJournal(r)
      BY <1>6 DEF Added
    <2>2. Looking(r, u) /\ runs[r].at = "create"
      BY <2>1 DEF CreateJournal, InJournal, Looking
    <2>3. runs[r].j = Len(journals[u]) + 1 /\ OpenOnes(u) = {}
          /\ \A s \in Runs \ {r} : ~Looking(s, u)
      BY <1>3, <2>2
    <2>4. runs'[r].at = "upload" /\ \A s \in Runs \ {r} : runs'[s] = runs[s]
      <3>1. runs'[r].at = "upload"
        <4>1. runs' = [runs EXCEPT ![r] =
                          [runs[r] EXCEPT !.j = Len(journals[u]) + 1, !.at = "upload"]]
          BY <2>1 DEF CreateJournal, Set
        <4> QED BY <4>1 DEF TypeOK, RunType
      <3> QED BY <2>1, <3>1, JournalStep
    <2>5. \A s \in Runs : ~Looking(s, u)'
      BY <2>3, <2>4 DEF Looking
    <2>6. /\ Len(journals'[u]) = Len(journals[u]) + 1
          /\ \A i \in 1..Len(journals[u]) : journals'[u][i] = journals[u][i]
          /\ journals'[u][Len(journals[u]) + 1].name = Len(journals[u]) + 1
      BY <1>6, <2>1, <2>3 DEF Added, NewJournal
    <2>7. \A i \in 1..Len(journals'[u]) :
             i \in 1..Len(journals[u]) \/ i = Len(journals[u]) + 1
      BY <1>4, <2>6
    <2>8. \A i \in 1..Len(journals'[u]) : journals'[u][i].name = i
      BY <1>3, <2>6, <2>7
    <2>9. \A i \in OpenOnes(u)' : i = Len(journals[u]) + 1
      BY <1>4, <2>3, <2>6, <2>7 DEF OpenOnes
    <2> QED BY <2>5, <2>8, <2>9
  <1> QED BY <1>1, <1>5, <1>6, JournalsStep

-----------------------------------------------------------------------------
(* Every usage accounted for once.                                         *)

(* A run within an authorization, and how it got there.                    *)
LEMMA WithinStep ==
    ASSUME TypeOK, Next, NEW r \in Runs
    PROVE  \/ runs'[r] = runs[r]
           \/ runs'[r].at \notin {"agreements"} \cup InJournals
           \/ NextAuthorization(r)
           \/ ProcessSingleAgreement(r)
           \/ /\ Generated(r) /\ runs'[r].result = runs[r].result /\ runs'[r].u = runs[r].u
              /\ runs'[r].at \in InJournals
           \/ /\ runs[r].at \in InJournals /\ runs'[r].at \in InJournals
              /\ runs'[r].u = runs[r].u /\ runs'[r].result = runs[r].result
  <1>1. SUFFICES ASSUME runs'[r] # runs[r], runs'[r].at \in {"agreements"} \cup InJournals,
                        ~NextAuthorization(r), ~ProcessSingleAgreement(r)
                 PROVE  \/ /\ Generated(r) /\ runs'[r].result = runs[r].result
                           /\ runs'[r].u = runs[r].u /\ runs'[r].at \in InJournals
                        \/ /\ runs[r].at \in InJournals /\ runs'[r].at \in InJournals
                           /\ runs'[r].u = runs[r].u /\ runs'[r].result = runs[r].result
    OBVIOUS
  <1>2. Leaves(r) \/ Within(r)
    BY <1>1, RunsStep
  <1>3. ~Leaves(r)
    BY <1>1, LeavesType DEF InJournals
  <1>4. \/ Generated(r) /\ runs[r].result.lines # {}
        \/ GetPendingJournal(r) \/ CountJournals(r) \/ CreateJournal(r) \/ UploadJournal(r)
    BY <1>1, <1>2, <1>3 DEF Within
  <1>5. runs'[r].u = runs[r].u /\ runs'[r].result = runs[r].result
    BY <1>4, JournalStep
  <1>6. runs'[r].at \in InJournals
    BY <1>4, JournalStep DEF InJournals, AfterFinding
  <1>7. GetPendingJournal(r) \/ CountJournals(r) \/ CreateJournal(r) \/ UploadJournal(r)
           => runs[r].at \in InJournals
    BY DEF GetPendingJournal, CountJournals, CreateJournal, UploadJournal, InJournal, InJournals
  <1> QED BY <1>4, <1>5, <1>6, <1>7

LEMMA OneFate ==
    ASSUME TypeOK, RunAccounts, NEW r \in Runs, ProcessSingleAgreement(r)
    PROVE  \A g \in Agreements, v \in Views :
              IF g \in runs'[r].todo THEN Fates(runs'[r].result, g, v) = {}
              ELSE \E f \in Fates(runs'[r].result, g, v) : Fates(runs'[r].result, g, v) = {f}
  <1>1. PICK h \in runs[r].todo :
           runs'[r].todo = runs[r].todo \ {h} /\ Fate(r, h, runs'[r].result)
    BY AgreementStep
  <1>2. runs[r].result \in Results /\ runs[r].at = "agreements" /\ h \in Agreements
    BY <1>1 DEF TypeOK, RunType, ProcessSingleAgreement
  <1>3. \A g \in Agreements, v \in Views :
           IF g \in runs[r].todo THEN Fates(runs[r].result, g, v) = {}
           ELSE \E f \in Fates(runs[r].result, g, v) : Fates(runs[r].result, g, v) = {f}
    BY <1>2 DEF RunAccounts, FatesOf
  <1> DEFINE old == runs[r].result
             new == runs'[r].result
  <1>4. \A g \in Agreements \ {h}, v \in Views : Fates(new, g, v) = Fates(old, g, v)
    <2>1. SUFFICES ASSUME NEW g \in Agreements \ {h}, NEW v \in Views
                   PROVE  /\ <<g, v>> \in new.lines <=> <<g, v>> \in old.lines
                          /\ <<g, v>> \in new.mute <=> <<g, v>> \in old.mute
                          /\ g \in new.told <=> g \in old.told
                          /\ g \in new.gone <=> g \in old.gone
      BY DEF Fates
    <2>2. CASE new = [old EXCEPT !.gone = @ \cup {h}] \/ new = [old EXCEPT !.told = @ \cup {h}]
      BY <1>2, <2>2 DEF Results
    <2>3. ASSUME NEW read \in SUBSET Views,
                 new = [old EXCEPT !.lines = @ \cup {h} \X read,
                                   !.mute = @ \cup {h} \X (Views \ read)]
          PROVE  /\ <<g, v>> \in new.lines <=> <<g, v>> \in old.lines
                 /\ <<g, v>> \in new.mute <=> <<g, v>> \in old.mute
                 /\ g \in new.told <=> g \in old.told
                 /\ g \in new.gone <=> g \in old.gone
      BY <1>2, <2>3 DEF Results
    <2> QED BY <1>1, <2>2, <2>3 DEF Fate
  <1>5. \A v \in Views : \E f \in Fates(new, h, v) : Fates(new, h, v) = {f}
    <2>1. \A v \in Views : /\ <<h, v>> \notin old.lines /\ <<h, v>> \notin old.mute
                           /\ h \notin old.told /\ h \notin old.gone
      BY <1>1, <1>2, <1>3 DEF Fates
    <2>2. CASE new = [old EXCEPT !.gone = @ \cup {h}]
      <3>1. \A v \in Views : Fates(new, h, v) = {"gone"}
        BY <1>2, <2>1, <2>2 DEF Fates, Results
      <3> QED BY <3>1
    <2>3. CASE new = [old EXCEPT !.told = @ \cup {h}]
      <3>1. \A v \in Views : Fates(new, h, v) = {"told"}
        BY <1>2, <2>1, <2>3 DEF Fates, Results
      <3> QED BY <3>1
    <2>4. ASSUME NEW read \in SUBSET Views,
                 new = [old EXCEPT !.lines = @ \cup {h} \X read,
                                   !.mute = @ \cup {h} \X (Views \ read)]
          PROVE  \A v \in Views : \E f \in Fates(new, h, v) : Fates(new, h, v) = {f}
      <3>1. \A v \in read : Fates(new, h, v) = {"billed"}
        BY <1>2, <2>1, <2>4 DEF Fates, Results
      <3>2. \A v \in Views \ read : Fates(new, h, v) = {"mute"}
        BY <1>2, <2>1, <2>4 DEF Fates, Results
      <3> QED BY <3>1, <3>2
    <2> QED BY <1>1, <2>2, <2>3, <2>4 DEF Fate
  <1>6. \A g \in Agreements \ {h} : g \in runs'[r].todo <=> g \in runs[r].todo
    BY <1>1
  <1>7. h \notin runs'[r].todo
    BY <1>1
  <1> QED BY <1>3, <1>4, <1>5, <1>6, <1>7

LEMMA RunAccountsNext ==
    ASSUME TypeOK, RunAccounts, Next
    PROVE  RunAccounts'
  <1>1. SUFFICES ASSUME NEW r \in Runs PROVE FatesOf(runs'[r])
    BY DEF RunAccounts, FatesOf, Accounted, Fates
  <1>2. CASE runs'[r] = runs[r]
    BY <1>2 DEF RunAccounts
  <1>3. CASE runs'[r].at \notin {"agreements"} \cup InJournals
    BY <1>3 DEF FatesOf
  <1>4. CASE NextAuthorization(r)
    <2>1. PICK u \in runs[r].auths : \E gone \in SUBSET Agreements :
             runs'[r].todo = Agreements \ gone /\ runs'[r].result = [Nothing EXCEPT !.gone = gone]
      BY <1>4, NextAuthorizationStep
    <2>2. PICK gone \in SUBSET Agreements :
             runs'[r].todo = Agreements \ gone /\ runs'[r].result = [Nothing EXCEPT !.gone = gone]
      BY <2>1
    <2>3. runs'[r].result = [lines |-> {}, mute |-> {}, told |-> {}, gone |-> gone]
      BY <2>2 DEF Nothing
    <2>4. \A g \in Agreements, v \in Views :
             Fates(runs'[r].result, g, v) = IF g \in gone THEN {"gone"} ELSE {}
      BY <2>3 DEF Fates
    <2>5. runs'[r].at = "agreements"
      BY <1>4, NextAuthorizationStep
    <2> QED BY <2>2, <2>4, <2>5 DEF FatesOf, InJournals
  <1>5. CASE ProcessSingleAgreement(r)
    BY <1>5, OneFate, AgreementStep DEF FatesOf, InJournals
  <1>6. CASE Generated(r) /\ runs'[r].result = runs[r].result /\ runs'[r].at \in InJournals
    <2>1. runs[r].at = "agreements" /\ runs[r].todo = {}
      BY <1>6 DEF Generated
    <2>2. Accounted(runs[r].result)
      BY <2>1 DEF RunAccounts, FatesOf, Accounted
    <2> QED BY <1>6, <2>2 DEF FatesOf, InJournals
  <1>7. CASE /\ runs[r].at \in InJournals /\ runs'[r].at \in InJournals
             /\ runs'[r].result = runs[r].result
    BY <1>7 DEF RunAccounts, FatesOf, InJournals
  <1> QED BY <1>2, <1>3, <1>4, <1>5, <1>6, <1>7, WithinStep

LEMMA FilesNext ==
    ASSUME TypeOK, Shape, RunAccounts, FileIsAccounted, Next
    PROVE  FileIsAccounted'
  <1>1. /\ journals' \in [Authorizations -> Seq(Journal)]
        /\ \A u \in Authorizations : Added(u) \/ Changed(u)
    BY JournalsStep
  <1>2. SUFFICES ASSUME NEW u \in Authorizations, NEW i \in 1..Len(journals'[u]),
                        journals'[u][i].filled
                 PROVE  Accounted(journals'[u][i].file)
    <2>1. \A u \in Authorizations : DOMAIN journals'[u] = 1..Len(journals'[u])
      BY <1>1, LenProperties
    <2> QED BY <1>2, <2>1 DEF FileIsAccounted, Accounted, Fates
  <1>3. \A k \in 1..Len(journals[u]) : journals[u][k].filled => Accounted(journals[u][k].file)
    BY JournalAt DEF TypeOK, FileIsAccounted
  <1>4. Len(journals[u]) \in Nat
    BY JournalAt DEF TypeOK
  <1>5. CASE Added(u)
    BY <1>2, <1>3, <1>4, <1>5 DEF Added, NewJournal
  <1>6. CASE Changed(u)
    <2>1. \A r \in Runs : UploadJournal(r) => Accounted(runs[r].result)
      BY DEF UploadJournal, InJournal, InJournals, RunAccounts, FatesOf
    <2> QED BY <1>2, <1>3, <1>6, <2>1 DEF Changed
  <1> QED BY <1>1, <1>5, <1>6

-----------------------------------------------------------------------------
(* What a job bills.                                                       *)

LEMMA UndisturbedStep ==
    ASSUME TypeOK, Next, Undisturbed'
    PROVE  Undisturbed /\ ~Failure
  <1>1. failures' = failures \/ Failure
    BY FailuresStep
  <1>2. ~Failure
    BY DEF Failure, Undisturbed, TypeOK
  <1>3. withdrawn \subseteq withdrawn' /\ over \subseteq over'
    BY WorldStep DEF worldVars, AgreementEnds
  <1> QED BY <1>1, <1>2, <1>3 DEF Undisturbed

LEMMA BillsAllNext ==
    ASSUME TypeOK, Shape, BillsAll, Next
    PROVE  BillsAll'
  <1>1. SUFFICES ASSUME Undisturbed'
        PROVE  /\ \A r \in Runs : LinesOf(runs'[r])
               /\ \A u \in Authorizations : \A i \in 1..Len(journals'[u]) :
                     journals'[u][i].filled => journals'[u][i].file.lines = Usage
    BY DEF BillsAll, LinesOf, Usage
  <1>2. Undisturbed /\ ~Failure
    BY <1>1, UndisturbedStep
  <1>3. ASSUME NEW r \in Runs PROVE LinesOf(runs'[r])
    <2>1. CASE runs'[r] = runs[r]
      BY <1>2, <2>1 DEF BillsAll
    <2>2. CASE runs'[r].at \notin {"agreements"} \cup InJournals
      BY <2>2 DEF LinesOf
    <2>3. CASE NextAuthorization(r)
      <3>1. PICK u \in runs[r].auths : \E gone \in SUBSET Agreements :
               /\ gone = {g \in Agreements : <<u, g>> \in over}
               /\ runs'[r].todo = Agreements \ gone
               /\ runs'[r].result = [Nothing EXCEPT !.gone = gone]
        BY <2>3, NextAuthorizationStep
      <3>2. runs'[r].todo = Agreements /\ runs'[r].result.lines = {}
        BY <1>2, <3>1 DEF Undisturbed, Nothing
      <3>3. runs'[r].at = "agreements"
        BY <2>3, NextAuthorizationStep
      <3> QED BY <3>2, <3>3 DEF LinesOf, InJournals
    <2>4. CASE ProcessSingleAgreement(r)
      <3>1. PICK g \in runs[r].todo :
               runs'[r].todo = runs[r].todo \ {g} /\ Fate(r, g, runs'[r].result)
        BY <2>4, AgreementStep
      <3>2. runs'[r].at = "agreements" /\ runs[r].at = "agreements"
        BY <2>4, AgreementStep DEF ProcessSingleAgreement
      <3>3. runs[r].result \in Results /\ runs[r].todo \subseteq Agreements
        BY DEF TypeOK, RunType
      <3>4. runs[r].result.lines = (Agreements \ runs[r].todo) \X Views
        BY <1>2, <3>2 DEF BillsAll, LinesOf
      <3>5. runs'[r].result.lines = runs[r].result.lines \cup {g} \X Views
        BY <1>2, <3>1, <3>3 DEF Fate, Undisturbed, Results
      <3>6. runs'[r].result.lines = (Agreements \ runs'[r].todo) \X Views
        <4>1. Agreements \ runs'[r].todo = (Agreements \ runs[r].todo) \cup {g}
          BY <3>1, <3>3
        <4> QED BY <3>4, <3>5, <4>1
      <3> QED BY <3>2, <3>6 DEF LinesOf, InJournals
    <2>5. CASE Generated(r) /\ runs'[r].result = runs[r].result /\ runs'[r].at \in InJournals
      <3>1. runs[r].at = "agreements" /\ runs[r].todo = {}
        BY <2>5 DEF Generated
      <3>2. runs[r].result.lines = Usage
        BY <1>2, <3>1 DEF BillsAll, LinesOf, Usage
      <3> QED BY <2>5, <3>2 DEF LinesOf, InJournals
    <2>6. CASE /\ runs[r].at \in InJournals /\ runs'[r].at \in InJournals
               /\ runs'[r].result = runs[r].result
      BY <1>2, <2>6 DEF BillsAll, LinesOf, InJournals
    <2> QED BY <2>1, <2>2, <2>3, <2>4, <2>5, <2>6, WithinStep
  <1>4. ASSUME NEW u \in Authorizations, NEW i \in 1..Len(journals'[u]), journals'[u][i].filled
        PROVE  journals'[u][i].file.lines = Usage
    <2>1. Len(journals[u]) \in Nat
      BY JournalAt DEF TypeOK
    <2>2. \A k \in 1..Len(journals[u]) : journals[u][k].filled => journals[u][k].file.lines = Usage
      BY <1>2 DEF BillsAll
    <2>3. CASE Added(u)
      BY <1>4, <2>1, <2>2, <2>3 DEF Added, NewJournal
    <2>4. CASE Changed(u)
      <3>1. \A r \in Runs : UploadJournal(r) => runs[r].result.lines = Usage
        BY <1>2 DEF UploadJournal, InJournal, InJournals, BillsAll, LinesOf
      <3> QED BY <1>4, <2>2, <2>4, <3>1 DEF Changed
    <2> QED BY <2>3, <2>4, JournalsStep
  <1> QED BY <1>3, <1>4

LEMMA LeavesDone ==
    ASSUME TypeOK, NEW r \in Runs, Leaves(r)
    PROVE  \/ runs'[r].done \subseteq runs[r].done
           \/ AttachAndNotify(r) /\ runs'[r].done = runs[r].done \cup {runs[r].u}
  <1>1. CASE AttachAndNotify(r)
    <2>1. runs'[r] = [Continue(r) EXCEPT !.done = Done(r)]
      BY <1>1 DEF AttachAndNotify, Set, TypeOK
    <2> QED BY <1>1, <2>1, ContinueType DEF Done, TypeOK, RunType
  <1>2. CASE AuthorizationFails(r) \/ (Generated(r) /\ runs[r].result.lines = {})
    <2>1. runs'[r] = Continue(r)
      BY <1>2 DEF AuthorizationFails, Generated, Set, TypeOK
    <2> QED BY <2>1, ContinueType DEF TypeOK
  <1>3. CASE FinishRun(r)
    <2>1. runs[r] \in RunType /\ runs'[r] = [runs[r] EXCEPT !.at = "succeeded"]
      BY <1>3 DEF FinishRun, Set, TypeOK
    <2> QED BY <2>1 DEF RunType
  <1>4. CASE Dies(r)
    <2>1. runs'[r] = AfterDeath(r)
      BY <1>4 DEF Dies, Set, TypeOK
    <2> QED BY <2>1 DEF AfterDeath, IdleRun
  <1>5. CASE \/ r = "cron" /\ StartPod
             \/ r = "manual" /\ StartByHand
    <2>1. \E auths : runs'[r] = Start(auths)
      BY <1>5 DEF StartPod, StartByHand, Set, TypeOK
    <2> QED BY <2>1 DEF Start, IdleRun
  <1> QED BY <1>1, <1>2, <1>3, <1>4, <1>5 DEF Leaves

LEMMA HasFilesNext ==
    ASSUME TypeOK, Shape, HasFiles, Next
    PROVE  HasFiles'
  <1>1. \A u \in Authorizations : HasFile(journals[u]) => HasFile(journals'[u])
    <2> SUFFICES ASSUME NEW u \in Authorizations, HasFile(journals[u]) PROVE HasFile(journals'[u])
      OBVIOUS
    <2>1. Len(journals[u]) \in Nat
      BY JournalAt DEF TypeOK
    <2> QED BY <2>1, JournalsStep DEF HasFile, Added, Changed
  <1>2. SUFFICES ASSUME NEW r \in Runs
        PROVE  /\ \A u \in runs'[r].done : HasFile(journals'[u])
               /\ runs'[r].at = "attach" => HasFile(journals'[runs'[r].u])
    BY DEF HasFiles, HasFile
  <1>3. \A u \in runs[r].done : u \in Authorizations /\ HasFile(journals'[u])
    BY <1>1 DEF HasFiles, TypeOK, RunType
  <1>4. CASE runs'[r] = runs[r]
    <2>1. runs[r].at = "attach" => runs[r].u \in Authorizations
      BY DEF TypeOK, InJournals
    <2> QED BY <1>1, <1>3, <1>4, <2>1 DEF HasFiles
  <1>5. CASE Leaves(r)
    <2>1. runs'[r].at # "attach"
      BY <1>5, LeavesType
    <2>2. \/ runs'[r].done \subseteq runs[r].done
          \/ AttachAndNotify(r) /\ runs'[r].done = runs[r].done \cup {runs[r].u}
      BY <1>5, LeavesDone
    <2>3. AttachAndNotify(r) => runs[r].u \in Authorizations /\ HasFile(journals[runs[r].u])
      <3>1. AttachAndNotify(r) => runs[r].at = "attach"
        BY DEF AttachAndNotify, InJournal
      <3>2. runs[r].at = "attach" => runs[r].u \in Authorizations
        BY DEF TypeOK, InJournals
      <3> QED BY <3>1, <3>2 DEF HasFiles
    <2> QED BY <1>1, <1>3, <2>1, <2>2, <2>3
  <1>6. CASE NextAuthorization(r) \/ ProcessSingleAgreement(r)
    BY <1>3, <1>6, NextAuthorizationStep, AgreementStep
  <1>7. CASE \/ Generated(r) /\ runs[r].result.lines # {}
             \/ GetPendingJournal(r) \/ CountJournals(r) \/ CreateJournal(r) \/ UploadJournal(r)
    <2>1. runs'[r].done = runs[r].done
      BY <1>7, JournalStep
    <2>2. ASSUME runs'[r].at = "attach" PROVE UploadJournal(r) /\ runs'[r].u = runs[r].u
      BY <1>7, <2>2, JournalStep DEF AfterFinding
    <2>3. UploadJournal(r) => HasFile(journals'[runs[r].u])
      <3> SUFFICES ASSUME UploadJournal(r) PROVE HasFile(journals'[runs[r].u])
        OBVIOUS
      <3> DEFINE u == runs[r].u
      <3>1. /\ runs[r].j \in 1..Len(journals[u]) /\ journals[u][runs[r].j] \in Journal
            /\ Len(journals'[u]) = Len(journals[u])
            /\ journals'[u][runs[r].j] = [journals[u][runs[r].j] EXCEPT
                                             !.filled = TRUE, !.file = runs[r].result]
        BY Uploads
      <3>2. journals'[u][runs[r].j].filled
        BY <3>1 DEF Journal
      <3> HIDE DEF u
      <3>3. \E i \in 1..Len(journals'[u]) : journals'[u][i].filled
        BY <3>1, <3>2
      <3> QED BY <3>3 DEF HasFile, u
    <2>4. runs'[r].at = "attach" => HasFile(journals'[runs'[r].u])
      BY <2>2, <2>3 DEF HasFile
    <2> QED BY <1>3, <2>1, <2>4
  <1> QED BY <1>4, <1>5, <1>6, <1>7, RunsStep DEF Within

LEMMA ProgressNext ==
    ASSUME TypeOK, BillsAll, Progress, Next
    PROVE  Progress'
  <1>1. SUFFICES ASSUME Undisturbed' PROVE AllOf(runs'["cron"])
    BY DEF Progress, AllOf
  <1> DEFINE r == "cron"
  <1>2. r \in Runs /\ Undisturbed /\ ~Failure /\ AllOf(runs[r])
    BY <1>1, UndisturbedStep DEF Progress, Runs
  <1> HIDE DEF r
  <1>3. AllOf(runs'[r])
    <2>1. CASE runs'[r] = runs[r]
      BY <1>2, <2>1
    <2>2. CASE Leaves(r)
      <3>1. CASE StartPod
        <4>1. runs'["cron"] = Start(Authorizations)
          BY <3>1 DEF StartPod, Set, TypeOK, Runs
        <4> QED BY <4>1 DEF r, Start, IdleRun, AllOf, InJournals
      <3>2. CASE AttachAndNotify(r)
        <4>1. runs'[r] = [Continue(r) EXCEPT !.done = Done(r)] /\ runs[r].at = "attach"
          BY <1>2, <3>2 DEF AttachAndNotify, InJournal, Set, TypeOK
        <4>2. Continue(r) \in RunType /\ Continue(r).at = "next"
              /\ Continue(r).auths = runs[r].auths
          BY <1>2, ContinueType DEF TypeOK
        <4>3. runs'[r].at = "next" /\ runs'[r].auths = runs[r].auths
              /\ runs'[r].done = runs[r].done \cup {runs[r].u}
          BY <4>1, <4>2 DEF Done, RunType
        <4> QED BY <1>2, <4>1, <4>3 DEF AllOf, InJournals
      <3>3. CASE FinishRun(r)
        <4>1. runs[r] \in RunType /\ runs'[r] = [runs[r] EXCEPT !.at = "succeeded"]
          BY <1>2, <3>3 DEF FinishRun, Set, TypeOK
        <4>2. runs'[r].at = "succeeded" /\ runs'[r].auths = runs[r].auths
              /\ runs'[r].done = runs[r].done
          BY <4>1 DEF RunType
        <4>3. runs[r].at = "next" /\ runs[r].auths = {}
          BY <3>3 DEF FinishRun
        <4> QED BY <1>2, <4>2, <4>3 DEF AllOf, InJournals
      <3>4. CASE Dies(r)
        <4>1. runs'[r] = AfterDeath(r)
          BY <1>2, <3>4 DEF Dies, Set, TypeOK
        <4>2. runs'[r].at \in {"idle", "failed"}
          BY <4>1 DEF AfterDeath, IdleRun
        <4> QED BY <4>2 DEF AllOf, InJournals
      <3>5. ~AuthorizationFails(r)
        BY <1>2 DEF AuthorizationFails
      <3>6. ~(Generated(r) /\ runs[r].result.lines = {})
        <4> SUFFICES ASSUME Generated(r), runs[r].result.lines = {} PROVE FALSE
          OBVIOUS
        <4>1. runs[r].at = "agreements" /\ runs[r].todo = {}
          BY DEF Generated
        <4>2. LinesOf(runs[r])
          BY <1>2 DEF BillsAll
        <4>3. runs[r].result.lines = (Agreements \ {}) \X Views
          BY <4>1, <4>2 DEF LinesOf
        <4>4. \E g \in Agreements : \E v \in Views : <<g, v>> \in (Agreements \ {}) \X Views
          BY BillingAssumption
        <4> QED BY <4>3, <4>4
      <3>7. ~(r = "manual")
        BY DEF r
      <3> QED BY <2>2, <3>1, <3>2, <3>3, <3>4, <3>5, <3>6, <3>7 DEF Leaves
    <2>3. CASE NextAuthorization(r)
      <3>1. \E u \in runs[r].auths : runs'[r].u = u /\ runs'[r].auths = runs[r].auths \ {u}
        BY <1>2, <2>3, NextAuthorizationStep
      <3>2. runs'[r].at = "agreements" /\ runs'[r].done = runs[r].done /\ runs[r].at = "next"
        BY <1>2, <2>3, NextAuthorizationStep DEF NextAuthorization
      <3> QED BY <1>2, <3>1, <3>2 DEF AllOf
    <2>4. CASE ProcessSingleAgreement(r)
      <3>1. /\ runs'[r].at = "agreements" /\ runs'[r].u = runs[r].u
            /\ runs'[r].auths = runs[r].auths /\ runs'[r].done = runs[r].done
            /\ runs[r].at = "agreements"
        BY <1>2, <2>4, AgreementStep DEF ProcessSingleAgreement
      <3> QED BY <1>2, <3>1 DEF AllOf
    <2>5. CASE \/ Generated(r) /\ runs[r].result.lines # {}
               \/ GetPendingJournal(r) \/ CountJournals(r) \/ CreateJournal(r)
               \/ UploadJournal(r)
      <3>1. /\ runs'[r].u = runs[r].u /\ runs'[r].auths = runs[r].auths
            /\ runs'[r].done = runs[r].done
        BY <1>2, <2>5, JournalStep
      <3>2. runs'[r].at \in InJournals
        BY <1>2, <2>5, JournalStep DEF InJournals, AfterFinding
      <3>3. runs[r].at \in {"agreements"} \cup InJournals
        BY <2>5 DEF Generated, GetPendingJournal, CountJournals, CreateJournal, UploadJournal,
                    InJournal, InJournals
      <3> QED BY <1>2, <3>1, <3>2, <3>3 DEF AllOf, InJournals
    <2> QED BY <1>2, <2>1, <2>2, <2>3, <2>4, <2>5, RunsStep DEF Within
  <1> QED BY <1>3 DEF r

LEMMA ReportedNext ==
    ASSUME TypeOK, Progress, Reported, Next
    PROVE  Reported'
  <1>1. SUFFICES ASSUME Undisturbed', runs'["cron"].at = "succeeded", runs'["manual"].at = "idle"
                 PROVE  report' = Authorizations
    BY DEF Reported
  <1>2. Undisturbed /\ ~Failure /\ AllOf(runs["cron"])
    BY <1>1, UndisturbedStep DEF Progress
  <1>3. "cron" \in Runs /\ "manual" \in Runs
    BY DEF Runs
  <1>4. runs'["manual"] = runs["manual"]
    <2>1. ASSUME Leaves("manual") PROVE FALSE
      <3>1. CASE StartByHand
        <4>1. \E u \in Authorizations : runs'["manual"] = Start({u})
          BY <1>3, <3>1 DEF StartByHand, Set, TypeOK
        <4> QED BY <1>1, <4>1 DEF Start, IdleRun
      <3>2. CASE AttachAndNotify("manual") \/ AuthorizationFails("manual") \/ Generated("manual")
        <4>1. runs'["manual"].at # "idle"
          <5>1. runs'["manual"] = [Continue("manual") EXCEPT !.done = Done("manual")]
                \/ runs'["manual"] = Continue("manual")
                \/ runs'["manual"] = [runs["manual"] EXCEPT !.at = "find", !.usage = {}]
            BY <1>3, <3>2 DEF AttachAndNotify, AuthorizationFails, Generated, Set, TypeOK
          <5>2. runs["manual"] \in RunType /\ Continue("manual") \in RunType
                /\ Continue("manual").at = "next"
            BY <1>3, ContinueType DEF TypeOK
          <5> QED BY <5>1, <5>2 DEF RunType
        <4> QED BY <1>1, <4>1
      <3>3. CASE FinishRun("manual")
        <4>1. runs["manual"] \in RunType
              /\ runs'["manual"] = [runs["manual"] EXCEPT !.at = "succeeded"]
          BY <1>3, <3>3 DEF FinishRun, Set, TypeOK
        <4> QED BY <1>1, <4>1 DEF RunType
      <3>4. CASE Dies("manual")
        <4>1. runs'["manual"] = AfterDeath("manual")
          BY <1>3, <3>4 DEF Dies, Set, TypeOK
        <4> QED BY <1>1, <4>1 DEF AfterDeath, IdleRun
      <3> QED BY <2>1, <3>1, <3>2, <3>3, <3>4 DEF Leaves
    <2>2. ASSUME Within("manual") PROVE FALSE
      <3>1. runs'["manual"].at \in {"agreements"} \cup InJournals
        BY <1>3, <2>2, NextAuthorizationStep, AgreementStep, JournalStep
           DEF Within, InJournals, AfterFinding
      <3> QED BY <1>1, <3>1 DEF InJournals
    <2> QED BY <1>3, <2>1, <2>2, RunsStep
  <1>5. CASE FinishRun("cron")
    <2>1. report' = IF runs["cron"].done = {} THEN report ELSE runs["cron"].done
      BY <1>2, <1>5 DEF FinishRun
    <2>2. runs["cron"].done = Authorizations
      BY <1>2, <1>5 DEF FinishRun, AllOf
    <2> QED BY <2>1, <2>2 DEF TypeOK
  <1>6. CASE ~FinishRun("cron")
    <2>1. runs["cron"].at = "succeeded"
      <3>1. CASE Leaves("cron")
        <4>1. CASE StartPod
          <5>1. runs'["cron"] = Start(Authorizations)
            BY <1>3, <4>1 DEF StartPod, Set, TypeOK
          <5> QED BY <1>1, <5>1 DEF Start, IdleRun
        <4>2. CASE AttachAndNotify("cron") \/ AuthorizationFails("cron") \/ Generated("cron")
          <5>1. runs'["cron"] = [Continue("cron") EXCEPT !.done = Done("cron")]
                \/ runs'["cron"] = Continue("cron")
                \/ runs'["cron"] = [runs["cron"] EXCEPT !.at = "find", !.usage = {}]
            BY <1>3, <4>2 DEF AttachAndNotify, AuthorizationFails, Generated, Set, TypeOK
          <5>2. runs["cron"] \in RunType /\ Continue("cron") \in RunType
                /\ Continue("cron").at = "next"
            BY <1>3, ContinueType DEF TypeOK
          <5> QED BY <1>1, <5>1, <5>2 DEF RunType
        <4>3. CASE Dies("cron")
          <5>1. runs'["cron"] = AfterDeath("cron")
            BY <1>3, <4>3 DEF Dies, Set, TypeOK
          <5> QED BY <1>1, <5>1 DEF AfterDeath, IdleRun
        <4> QED BY <1>6, <3>1, <4>1, <4>2, <4>3 DEF Leaves
      <3>2. CASE Within("cron")
        <4>1. runs'["cron"].at \in {"agreements"} \cup InJournals
          BY <1>3, <3>2, NextAuthorizationStep, AgreementStep, JournalStep
             DEF Within, InJournals, AfterFinding
        <4> QED BY <1>1, <4>1 DEF InJournals
      <3> QED BY <1>1, <1>3, <3>1, <3>2, RunsStep
    <2>2. report' = report
      <3>1. ~FinishRun("manual")
        <4> SUFFICES ASSUME FinishRun("manual") PROVE FALSE
          OBVIOUS
        <4>1. runs["manual"].at = "next"
          BY DEF FinishRun
        <4> QED BY <1>1, <1>4, <4>1
      <3>2. \A r \in Runs : ~FinishRun(r)
        BY <1>6, <3>1 DEF Runs
      <3> QED BY <3>2, ReportStep
    <2> QED BY <1>1, <1>2, <1>4, <2>1, <2>2 DEF Reported
  <1> QED BY <1>5, <1>6

-----------------------------------------------------------------------------
(* The theorems.                                                           *)

(* The inductive invariant is one.                                         *)
THEOREM Invariant == Spec => [](TypeOK /\ Shape /\ IInv)
  <1>1. Init => TypeOK /\ Shape /\ IInv
    <2> SUFFICES ASSUME Init PROVE TypeOK /\ Shape /\ IInv
      OBVIOUS
    <2>1. TypeOK /\ Shape
      BY InitTypes
    <2>2. /\ \A r \in Runs : runs[r].at = "idle" /\ runs[r].done = {}
          /\ \A r \in Runs, u \in Authorizations : ~Looking(r, u)
      BY DEF Init, IdleRun, Looking
    <2>3. \A u \in Authorizations : Len(journals[u]) = 0 /\ OpenOnes(u) = {}
                                    /\ DOMAIN journals[u] = {}
      BY DEF Init, OpenOnes
    <2>4. OneOpen /\ FileIsAccounted
      BY <2>2, <2>3 DEF OneOpen, FileIsAccounted
    <2>5. RunAccounts /\ HasFiles /\ Progress /\ Reported
      BY <2>2 DEF RunAccounts, FatesOf, HasFiles, Progress, AllOf, Reported, InJournals, Runs
    <2>6. BillsAll
      BY <2>2, <2>3 DEF BillsAll, LinesOf, InJournals
    <2> QED BY <2>1, <2>4, <2>5, <2>6 DEF IInv
  <1>2. TypeOK /\ Shape /\ IInv /\ [Next]_vars => (TypeOK /\ Shape /\ IInv)'
    <2>1. ASSUME TypeOK, Shape, IInv, Next PROVE IInv'
      BY <2>1, OneOpenNext, RunAccountsNext, FilesNext, BillsAllNext, HasFilesNext,
         ProgressNext, ReportedNext DEF IInv
    <2>2. ASSUME IInv, UNCHANGED vars PROVE IInv'
      <3>1. OneOpen'
        BY <2>2 DEF IInv, vars, worldVars, OneOpen, OpenOnes, Looking
      <3>2. RunAccounts' /\ FileIsAccounted'
        <4>1. RunAccounts /\ FileIsAccounted /\ runs' = runs /\ journals' = journals
          BY <2>2 DEF IInv, vars
        <4>2. RunAccounts'
          <5>1. SUFFICES ASSUME NEW r \in Runs PROVE FatesOf(runs'[r])
            BY DEF RunAccounts, FatesOf, Accounted, Fates
          <5> QED BY <4>1 DEF RunAccounts
        <4>3. FileIsAccounted'
          BY <4>1 DEF FileIsAccounted, Accounted, Fates
        <4> QED BY <4>2, <4>3
      <3>3. BillsAll' /\ Progress' /\ Reported'
        BY <2>2 DEF IInv, vars, worldVars, BillsAll, LinesOf, Usage, Undisturbed,
                    Progress, AllOf, Reported
      <3>4. HasFiles'
        BY <2>2 DEF IInv, vars, worldVars, HasFiles, HasFile
      <3> QED BY <3>1, <3>2, <3>3, <3>4 DEF IInv
    <2> QED BY <2>1, <2>2, TypesNext
  <1> QED BY <1>1, <1>2, PTL DEF Spec

(* An authorization has one open journal, and journals of different names, *)
(* unless two runs have looked for it before either created one.           *)
THEOREM OneJournal == Spec => []OneOpenJournal
  <1>1. TypeOK /\ Shape /\ IInv => OneOpenJournal
    <2> SUFFICES ASSUME TypeOK, IInv, NEW u \in Authorizations \ crossed
                 PROVE  /\ \A i, k \in OpenOnes(u) : i = k
                        /\ \A i, k \in DOMAIN journals[u] :
                              journals[u][i].name = journals[u][k].name => i = k
      BY DEF OneOpenJournal
    <2>1. DOMAIN journals[u] = 1..Len(journals[u])
      BY JournalAt DEF TypeOK
    <2> QED BY <2>1 DEF IInv, OneOpen
  <1> QED BY <1>1, Invariant, PTL

(* The file of a journal accounts for all usage of its authorization, each *)
(* in one way.                                                             *)
THEOREM FilesAccount == Spec => []FileIsAccounted
  <1>1. IInv => FileIsAccounted
    BY DEF IInv
  <1> QED BY <1>1, Invariant, PTL

(* A job that succeeds, after any number of pods that died, has billed all *)
(* usage of every authorization, where nothing else went wrong.            *)
THEOREM JobBillsAll == Spec => []RetriedJobBillsAll
  <1>1. TypeOK /\ Shape /\ IInv => RetriedJobBillsAll
    <2> SUFFICES ASSUME TypeOK, IInv, Undisturbed, runs["cron"].at = "succeeded",
                        NEW u \in Authorizations
                 PROVE  \E i \in DOMAIN journals[u] :
                           journals[u][i].filled /\ journals[u][i].file.lines = Usage
      BY DEF RetriedJobBillsAll
    <2>1. u \in runs["cron"].done /\ "cron" \in Runs
      BY DEF IInv, Progress, AllOf, Runs
    <2>2. HasFile(journals[u])
      BY <2>1 DEF IInv, HasFiles
    <2>3. DOMAIN journals[u] = 1..Len(journals[u])
      BY JournalAt DEF TypeOK
    <2>4. \A i \in 1..Len(journals[u]) :
             journals[u][i].filled => journals[u][i].file.lines = Usage
      BY DEF IInv, BillsAll
    <2> QED BY <2>2, <2>3, <2>4 DEF HasFile
  <1> QED BY <1>1, Invariant, PTL

(* The report of the month has every authorization that has a journal.     *)
THEOREM ReportCovers == Spec => []ReportCoversJournals
  <1>1. IInv => ReportCoversJournals
    BY DEF IInv, Reported, ReportCoversJournals
  <1> QED BY <1>1, Invariant, PTL
==============================================================================
