---------------------------- MODULE BillingSystem ----------------------------
(***************************************************************************)
(* The journals a billing run finds, creates and fills, the end of the     *)
(* run, what goes on around it, and what must be true of the journals.     *)
(***************************************************************************)
EXTENDS BillingJob

Init ==
    /\ withdrawn = {} /\ over = {}
    /\ journals = [u \in Authorizations |-> <<>>]
    /\ report = {} /\ crossed = {}
    /\ runs = [r \in Runs |-> IdleRun] /\ attempts = 0
    /\ failures = 0 /\ deaths = 0

-----------------------------------------------------------------------------
(* JournalManager.                                                          *)
InJournal(r, at) == runs[r].at = at /\ Keep /\ UNCHANGED report

(* get_pending_journal asks for one journal of the month that is in Error,  *)
(* Draft or Validated; which of several MPT gives is not said.  0 is none.  *)
Found(u) == IF OpenOnes(u) = {} THEN {0} ELSE OpenOnes(u)

(* A mutant: a journal that is there is taken for done.                     *)
BugTakenForDone(j) == IF j = 0 THEN "count" ELSE "attach"

AfterFinding(j) == IF j = 0 THEN "count" ELSE "upload"

Looking(r, u) == runs[r].u = u /\ runs[r].at \in {"count", "create"}

GetPendingJournal(r) ==
    /\ InJournal(r, "find")
    /\ \E j \in Found(runs[r].u) :
          /\ Set(r, [runs[r] EXCEPT !.j = j, !.at = AfterFinding(j)])
          /\ crossed' = IF j = 0 /\ \E s \in Runs \ {r} : Looking(s, runs[r].u)
                        THEN crossed \cup {runs[r].u} ELSE crossed
    /\ UNCHANGED <<journals, failures>>

(* A mutant: the open journals are counted.                                 *)
BugCountsOpen(u) == Cardinality(OpenOnes(u)) + 1

(* create_new_journal names the journal by the number of journals there     *)
(* are, then creates it.                                                    *)
NewIndex(u) == Len(journals[u]) + 1

CountJournals(r) ==
    /\ InJournal(r, "count")
    /\ Set(r, [runs[r] EXCEPT !.j = NewIndex(runs[r].u), !.at = "create"])
    /\ JournalsKeep /\ UNCHANGED failures

CreateJournal(r) ==
    /\ InJournal(r, "create")
    /\ LET u == runs[r].u
       IN /\ journals' = [journals EXCEPT ![u] = Append(@,
                 [name |-> runs[r].j, open |-> TRUE, filled |-> FALSE, file |-> Nothing])]
          /\ Set(r, [runs[r] EXCEPT !.j = Len(journals[u]) + 1, !.at = "upload"])
    /\ UNCHANGED <<crossed, failures>>

(* upload_journal replaces the file.                                        *)
UploadJournal(r) ==
    /\ InJournal(r, "upload")
    /\ journals[runs[r].u][runs[r].j].open
    /\ journals' = [journals EXCEPT ![runs[r].u][runs[r].j] =
                       [@ EXCEPT !.filled = TRUE, !.file = runs[r].result]]
    /\ Set(r, [runs[r] EXCEPT !.at = "attach"])
    /\ UNCHANGED <<crossed, failures>>

(* A mutant: the results of the authorizations before are dropped.          *)
BugLastOnly(r) == {runs[r].u}

Done(r) == runs[r].done \cup {runs[r].u}

(* Reports and invoices are attached, which may fail in part, and success   *)
(* is notified.                                                             *)
AttachAndNotify(r) ==
    /\ InJournal(r, "attach")
    /\ Set(r, [Continue(r) EXCEPT !.done = Done(r)])
    /\ JournalsKeep /\ UNCHANGED failures

-----------------------------------------------------------------------------
(* The report of the month, of the authorizations this run has journals of, *)
(* replaces the one before; an error of Azure is notified.                  *)
FinishRun(r) ==
    /\ runs[r].at = "next" /\ runs[r].auths = {}
    /\ \/ /\ report' = IF runs[r].done = {} THEN report ELSE runs[r].done
          /\ UNCHANGED failures
       \/ runs[r].done # {} /\ Failure /\ UNCHANGED report
    /\ Set(r, [runs[r] EXCEPT !.at = "succeeded"])
    /\ JournalsKeep /\ Keep

(* Any other error ends the process, a pod may be killed at any point, and  *)
(* MPT takes no file for a journal that is submitted.  Kubernetes retries   *)
(* the pod of the cron job.                                                 *)
Active(r) == runs[r].at \notin {"idle", "succeeded", "failed"}

AfterDeath(r) == [IdleRun EXCEPT !.at =
    IF r = "cron" /\ attempts <= BackoffLimit THEN "idle" ELSE "failed"]

Refused(r) == /\ runs[r].at = "upload"
              /\ ~journals[runs[r].u][runs[r].j].open

Dies(r) ==
    /\ Active(r) /\ (deaths < MaxDeaths \/ Refused(r))
    /\ deaths' = deaths + 1
    /\ Set(r, AfterDeath(r))
    /\ JournalsKeep /\ UNCHANGED <<worldVars, report, attempts, failures>>

-----------------------------------------------------------------------------
(* A journal with a file is submitted in MPT: it is not open any more.      *)
RunsKeep == UNCHANGED <<report, runs, attempts, crossed, failures, deaths>>

JournalSubmitted ==
    /\ \E u \in Authorizations : \E i \in OpenOnes(u) :
          /\ journals[u][i].filled
          /\ journals' = [journals EXCEPT ![u][i].open = FALSE]
    /\ UNCHANGED worldVars /\ RunsKeep

AgreementEnds ==
    /\ Disturbances < MaxDisturbances
    /\ \E u \in Authorizations, g \in Agreements :
          \/ withdrawn' = withdrawn \cup {<<u, g>>} /\ UNCHANGED over
          \/ over' = over \cup {<<u, g>>} /\ UNCHANGED withdrawn
    /\ UNCHANGED journals /\ RunsKeep

Step(r) ==
    \/ NextAuthorization(r) \/ ProcessSingleAgreement(r) \/ Generated(r)
    \/ GetPendingJournal(r) \/ CountJournals(r) \/ CreateJournal(r)
    \/ UploadJournal(r) \/ AttachAndNotify(r) \/ FinishRun(r)

Next == \/ StartPod \/ StartByHand
        \/ \E r \in Runs : Step(r) \/ AuthorizationFails(r) \/ Dies(r)
        \/ JournalSubmitted \/ AgreementEnds

Spec == Init /\ [][Next]_vars


-----------------------------------------------------------------------------
(* An authorization never has two journals open at a time, nor two of one   *)
(* name, whatever runs die, are retried and meet a run by hand, unless both *)
(* runs looked for the journal before either created it.                    *)
OneOpenJournal ==
    \A u \in Authorizations \ crossed :
        /\ \A i, k \in OpenOnes(u) : i = k
        /\ \A i, k \in DOMAIN journals[u] :
              journals[u][i].name = journals[u][k].name => i = k

(* The file of a journal, whichever run wrote it last, accounts for all     *)
(* usage of its authorization exactly once: billed, in a view AWS did not   *)
(* list, of an agreement whose error was notified, or not to be billed.     *)
(* Nothing is left over from an agreement that failed.                      *)
Fates(res, g, v) ==
    {f \in {"billed", "mute", "told", "gone"} :
        \/ f = "billed" /\ <<g, v>> \in res.lines
        \/ f = "mute" /\ <<g, v>> \in res.mute
        \/ f = "told" /\ g \in res.told
        \/ f = "gone" /\ g \in res.gone}
Accounted(res) ==
    \A g \in Agreements, v \in Views : \E f \in Fates(res, g, v) : Fates(res, g, v) = {f}

FileIsAccounted ==
    \A u \in Authorizations : \A i \in DOMAIN journals[u] :
        journals[u][i].filled => Accounted(journals[u][i].file)

(* No failure was swallowed and no agreement has ended: only pods died.     *)
Undisturbed == failures = 0 /\ withdrawn = {} /\ over = {}

(* However often its pods died, and wherever, a job that succeeds has all   *)
(* usage of every authorization in a journal.                               *)
RetriedJobBillsAll ==
    Undisturbed /\ runs["cron"].at = "succeeded" =>
        \A u \in Authorizations : \E i \in DOMAIN journals[u] :
            journals[u][i].filled /\ journals[u][i].file.lines = Usage

(* The report of the month has every authorization with a journal, those    *)
(* an earlier pod has filled included, unless an operator's run has         *)
(* replaced it by one of its own.                                           *)
ReportCoversJournals ==
    Undisturbed /\ runs["cron"].at = "succeeded" /\ runs["manual"].at = "idle" =>
        \A u \in Authorizations :
            (\E i \in DOMAIN journals[u] : journals[u][i].filled) => u \in report
==============================================================================
