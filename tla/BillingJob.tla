------------------------------ MODULE BillingJob ------------------------------
(***************************************************************************)
(* The billing of one month: generate_billing_journals as the cron job     *)
(* runs it, with the pod retried when it fails, and as an operator may run *)
(* it by hand for some authorizations.  Each authorization has its journal *)
(* in MPT, found or created, and filled with the lines of its agreements.  *)
(*                                                                         *)
(* What a line says is in Charges; here a line is the usage of a billing   *)
(* view of an agreement.  Every agreement has all of Views.                *)
(***************************************************************************)
EXTENDS Naturals, Sequences, FiniteSets

CONSTANTS
    Authorizations, Agreements, Views,
    NoAuth,        \* no authorization
    BackoffLimit,  \* how often Kubernetes retries the pod of the job
    MaxDisturbances, \* bound on swallowed failures and agreements that end
    MaxDeaths      \* bound on the pods that die

ASSUME BillingAssumption ==
    /\ NoAuth \notin Authorizations
    /\ IsFiniteSet(Authorizations) /\ IsFiniteSet(Agreements)
    /\ Agreements # {} /\ Views # {}
    /\ BackoffLimit \in Nat /\ MaxDisturbances \in Nat /\ MaxDeaths \in Nat

VARIABLES
    withdrawn,     \* AWS: agreements whose transfer is no more ACCEPTED
    over,          \* MPT: agreements neither Active nor Updating
    journals,      \* MPT: the journals of the month of an authorization
    report,        \* Azure: the authorizations in the month's report
    runs,          \* the cron job's pod and the operator's run
    attempts,      \* pods the cron job has started
    crossed,       \* authorizations two runs have created a journal for
    failures, deaths

worldVars == <<withdrawn, over>>
vars == <<worldVars, journals, report, runs, attempts, crossed, failures, deaths>>

Runs == {"cron", "manual"}
Usage == Agreements \X Views

(* What became of the usage of an authorization: billed in lines, in a view *)
(* AWS did not list (mute), of an agreement whose error was notified (told) *)
(* or that is not to be billed (gone).                                      *)
Results == [lines : SUBSET Usage, mute : SUBSET Usage,
            told : SUBSET Agreements, gone : SUBSET Agreements]
Nothing == [lines |-> {}, mute |-> {}, told |-> {}, gone |-> {}]

(* A journal is open while its status is Error, Draft or Validated.         *)
Journal == [name : Nat, open : BOOLEAN, filled : BOOLEAN, file : Results]

IdleRun == [at |-> "idle", auths |-> {}, u |-> NoAuth, todo |-> {}, usage |-> {},
            result |-> Nothing, j |-> 0, done |-> {}]

InJournals == {"find", "count", "create", "upload", "attach"}

RunType ==
    [at : {"idle", "next", "agreements", "succeeded", "failed"} \cup InJournals,
     auths : SUBSET Authorizations, u : Authorizations \cup {NoAuth},
     todo : SUBSET Agreements, usage : SUBSET Usage,
     result : Results, j : Nat, done : SUBSET Authorizations]

TypeOK ==
    /\ withdrawn \subseteq Authorizations \X Agreements
    /\ over \subseteq Authorizations \X Agreements
    /\ journals \in [Authorizations -> Seq(Journal)]
    /\ report \subseteq Authorizations
    /\ runs \in [Runs -> RunType]
    /\ \A r \in Runs : runs[r].at \in {"agreements"} \cup InJournals
                          => runs[r].u \in Authorizations
    /\ attempts \in 0..BackoffLimit + 1
    /\ crossed \subseteq Authorizations
    /\ failures \in 0..MaxDisturbances /\ deaths \in Nat

-----------------------------------------------------------------------------
OpenOnes(u) == {i \in DOMAIN journals[u] : journals[u][i].open}

Set(r, rec) == runs' = [runs EXCEPT ![r] = rec]
JournalsKeep == UNCHANGED <<journals, crossed>>
Keep == UNCHANGED <<worldVars, attempts, deaths>>

Disturbances == failures + Cardinality(withdrawn) + Cardinality(over)
Failure == Disturbances < MaxDisturbances /\ failures' = failures + 1

(* BillingJournalService.run fetches the authorizations.  An operator names *)
(* one, which is as far as his run is modelled.                             *)
Start(auths) == [IdleRun EXCEPT !.at = "next", !.auths = auths]
Continue(r) == [IdleRun EXCEPT !.at = "next", !.auths = runs[r].auths, !.done = runs[r].done]

StartPod ==
    /\ runs["cron"].at = "idle" /\ attempts <= BackoffLimit
    /\ attempts' = attempts + 1
    /\ Set("cron", Start(Authorizations))
    /\ JournalsKeep /\ UNCHANGED <<worldVars, report, failures, deaths>>

StartByHand ==
    /\ runs["manual"].at = "idle"
    /\ \E u \in Authorizations : Set("manual", Start({u}))
    /\ JournalsKeep /\ UNCHANGED <<worldVars, attempts, report, failures, deaths>>

(* _process_authorization starts with new generators and lists the         *)
(* agreements that are Active or Updating.                                  *)
NextAuthorization(r) ==
    /\ runs[r].at = "next"
    /\ \E u \in runs[r].auths :
          LET gone == {g \in Agreements : <<u, g>> \in over}
          IN Set(r, [runs[r] EXCEPT !.at = "agreements", !.u = u, !.auths = @ \ {u},
                        !.todo = Agreements \ gone, !.usage = {},
                        !.result = [Nothing EXCEPT !.gone = gone]])
    /\ JournalsKeep /\ Keep /\ UNCHANGED <<report, failures>>

-----------------------------------------------------------------------------
(* Generating the lines.                                                    *)

(* A mutant: what a failed agreement has left stays in the generator.       *)
BugNotCleared(usage, g, views) == usage \cup {g} \X views

(* The usage generator is one object for all agreements: run() clears what  *)
(* the agreement before has left in it.                                     *)
Collected(usage, g, views) == {g} \X views

(* AgreementJournalGenerator.run for the next agreement of the list.  A     *)
(* transfer that is not ACCEPTED is skipped; a view whose accounts AWS does *)
(* not list is passed over; any other error of any call gives up the        *)
(* agreement and is notified, with the views read so far in the generator.  *)
SkipAgreement(r, g) ==
    /\ <<runs[r].u, g>> \in withdrawn
    /\ Set(r, [runs[r] EXCEPT !.todo = @ \ {g}, !.result.gone = @ \cup {g}])
    /\ UNCHANGED failures

GenerateAgreement(r, g) ==
    /\ <<runs[r].u, g>> \notin withdrawn
    /\ \E read \in SUBSET Views :
          LET usage == Collected(runs[r].usage, g, read)
          IN /\ Set(r, [runs[r] EXCEPT !.todo = @ \ {g}, !.usage = usage,
                                       !.result.lines = @ \cup usage,
                                       !.result.mute = @ \cup {g} \X (Views \ read)])
             /\ IF read = Views THEN UNCHANGED failures ELSE Failure

(* A mutant: the error is notified of the authorization.                    *)
BugNamesAuthorization(r, g) == {runs[r].u}

Notified(r, g) == {g}

AgreementFails(r, g) ==
    /\ <<runs[r].u, g>> \notin withdrawn /\ Failure
    /\ \E read \in SUBSET Views :
          Set(r, [runs[r] EXCEPT !.todo = @ \ {g},
                                 !.usage = Collected(@, g, read),
                                 !.result.told = @ \cup Notified(r, g)])

ProcessSingleAgreement(r) ==
    /\ runs[r].at = "agreements"
    /\ \E g \in runs[r].todo :
          SkipAgreement(r, g) \/ GenerateAgreement(r, g) \/ AgreementFails(r, g)
    /\ JournalsKeep /\ Keep /\ UNCHANGED report

(* Any error outside of the agreements drops the whole authorization: the   *)
(* error is notified and the run goes on.                                   *)
AuthorizationFails(r) ==
    /\ runs[r].at = "agreements" /\ Failure
    /\ Set(r, Continue(r))
    /\ JournalsKeep /\ Keep /\ UNCHANGED report

(* Without lines nothing is uploaded.                                       *)
Generated(r) ==
    /\ runs[r].at = "agreements" /\ runs[r].todo = {}
    /\ Set(r, IF runs[r].result.lines = {} THEN Continue(r)
              ELSE [runs[r] EXCEPT !.at = "find", !.usage = {}])
    /\ JournalsKeep /\ Keep /\ UNCHANGED <<report, failures>>
==============================================================================
