# Verification of the SoftwareOne AWS extension

The extension sells and operates AWS accounts for the SoftwareOne Marketplace
(MPT). It has no database of its own: its state is the orders, agreements and
subscriptions MPT stores, read and written back by several processes that hold
copies of them, and the resources those processes create in AWS, the CRM,
Cloud Orchestrator, FinOps for Cloud and Navision. This directory holds TLA+
models of that behaviour, the TLC runs that check them and proofs, checked by
TLAPS, of what matters most.

    tlasany PurchaseSystem.tla                     parse a module
    tlc -config MCFaults.cfg MCPurchase.tla        one run
    tlc -config MCCountdown.cfg MCAgreement.tla    the end of an agreement
    tlc -config MCFinOps.cfg MCFinOps.tla          entitlements
    tlc -config MCBilling.cfg MCBilling.tla        journals; MCCharges their lines
    tlc -config MCAdmission.cfg MCAdmission.tla    two orders of one licensee
    tlapm PurchaseSafety.tla                       one module of proofs

## 1. The system

Two workloads run the code. The *api* deployment answers the validation calls
of MPT. The *worker* deployment (one pod, recreated on deployment) polls orders
and fulfils them one at a time. Beside them Kubernetes CronJobs (never two of
the same job at once) run the management commands. All of them read and write
the same orders and agreements, with no lock and no version check: an MPT
update sends the whole parameters section of the caller's copy.

| Component | State it keeps | Operations | Interacts by |
|---|---|---|---|
| Purchase pipeline (`flows/fulfillment`, `flows/steps`) | order status, phase and fulfillment parameters in MPT; its context while it runs | one step per phase: invite, check transfer, APN relationship, handshake, roles, onboarding, subscription, contract, SWO job, tickets, complete | saves whole parameters; calls AWS, CRM, Cloud Orchestrator, CCO, service provisioning |
| Querying job (`flows/jobs/query_order_processor.py`, `processor/querying`) | contexts fetched at the start of a pass | transfer, handshake and roles processors; two timeouts | saves and resumes Querying orders from copies that may be stale |
| Deployment error mail (`flows/flow_utils.py`) | flag in the order; set of order ids in process memory | `handle_error` | both onboarding steps |
| Termination pipeline (`flows/steps/terminate.py`, `finops_entitlement.py`) | termination order; transfer, billing group, relationship, entitlements | validate, withdraw and clean up, terminate entitlements, ticket, complete | AWS, FinOps, Airtable, CRM |
| Order admission (`flows/validation/base.py`, `ValidateOrder`) | none of its own: the draft, the orders and agreements in MPT | constraints by account type, duplicate agreement, default lines | called by MPT while an order is drafted; the worker looks again before the invitation |
| Agreement sync (`swo/mpt/sync`) | subscriptions and their termination dates; a per-process cache of transfers | terminate lost agreements, create subscriptions of linked accounts, inactivity countdown | snapshot of the agreement, AWS Cost Explorer |
| FinOps sync (`flows/jobs/finops_entitlements_processor.py`) | Airtable records, FFC entitlements | create, refresh, terminate | two services without a common transaction; the termination order ends and marks the same records |
| Billing journals (`billing/billing_journal_service.py`, `journal_manager.py`, `generators/authorization.py`) | a journal per authorization and month; the results of the run in memory | find or create, generate, upload, attach, report | AWS billing, MPT billing; Kubernetes retries its pod, an operator may run it by hand |
| Billing charges (`billing/generators`) | none | invoices and Cost Explorer groups to journal lines: rates, line processors, discounts, charges | called per agreement by the journals |
| Reports (`billing_report_creator.py`, the two report jobs) | a file of the month | read and format | blob storage, Confluence, Teams |
| Tokens and secrets (`swo/base_client.py`, `swo/openid`, `swo/ccp`) | cached token and expiry | refresh before expiry | every client |
| Clients, RQL, configuration, notifications | none, or a memory of notified messages | calls, query strings, settings | all |

What is hard, and what makes each part correct:

* **Purchase pipeline and querying job.** Every external resource is created by
  one call and recorded by a later one, so a crash in between must be survived;
  the job and the worker overwrite each other's parameters when the customer
  resubmits an order the job has fetched; the waits for the customer end by
  timeouts; errors of the onboarding must neither hold an order back nor mail
  twice. Correct means: the phase never claims what the world does not have; an
  invitation belongs to the account the order names; Partner-Led Support (PLS)
  is not sold without roles; at most one subscription; a failed order has sold
  nothing; what is accepted ends.
* **Termination.** The end of the transfer, the billing group and the relationship are
  undone by three calls, and a retry that finds the transfer withdrawn skips
  the other two. Correct: a committed handshake is never broken, and nothing
  is left behind when the order completes.
* **Agreement sync.** Works on a snapshot: a countdown cleared in MPT is still
  set in the snapshot the expiry is judged by. Correct: only an account without
  usage for three months, or an agreement without a transfer, is terminated.
* **FinOps sync.** An entitlement is created in FFC and recorded in Airtable by
  separate calls, the lookup is limited to one entitlement of any status, and a
  termination order ends and marks what a pass has already read. Correct: at
  most one live entitlement per account, its record by which inactivity is
  noticed, an end only after the months of inactivity or by an order, and an
  account in use entitled again in the end.
* **Billing journals.** A journal is looked up, counted, created, filled in four
  calls; the pod that dies anywhere is run again from its first authorization,
  beside a run by hand and submissions. Failures of one agreement, one view or
  one authorization are swallowed. Correct: one open journal per authorization
  and month; a file that accounts for all usage exactly once; a retried job
  that bills everything; a report of all journals.
* **Billing charges.** Processors decide apart from each other, some of one
  account's metrics, some of all: enterprise support and the partner's charge,
  the savings plans fee and its distribution, the discount that is passed on or
  given back. Correct: each is charged or given once, in one currency.
* **Admission.** A licensee may have one agreement in use. The endpoint looks for
  another one while the order is a draft, the worker once more before the
  invitation, and between the two any other order of the licensee may be
  placed; each then finds the other. Correct: one agreement for a licensee, but
  not two orders that fail each other.
* **Tokens.** A token used in the second it expires.

## 2. The modules

| Module | Content |
|---|---|
| `PurchaseOrder` | constants, state, types and the shape of a write to MPT |
| `PurchasePipeline` | the worker: both purchase pipelines, step by step, with the outcomes the step base class handles |
| `QueryingJob` | the cron job |
| `PurchaseSystem` | initial states, customer, AWS, Cloud Orchestrator, CRM, operator and clock; the specification and its fairness |
| `PurchaseProperties` | what must hold |
| `OrderLifecycle` | the abstract specification: the life of an order as a customer and an auditor see it |
| `MCPurchase` | instantiates the above for TLC |
| `Agreement` | an agreement after its purchase: constants, state, types, what MPT does with a write |
| `TerminationPipeline` | the worker with a termination order |
| `AgreementSync` | the cron job that synchronises agreements |
| `AgreementSystem` | both together with the customer, AWS and the clock; what must hold |
| `AgreementLife` | the abstract specification: what the worker and the cron job promise together of an agreement |
| `MCAgreement` | instantiates them for TLC |
| `FinOpsSync` | FFC, Airtable and the cron job that entitles accounts and ends what is not used |
| `FinOpsSystem`, `MCFinOps` | the entitlement step of a termination order, customer, AWS, FFC and clock beside it; what must hold |
| `BillingJob` | a billing run over authorizations and agreements, up to the generated lines |
| `BillingSystem`, `MCBilling` | the journals it finds, creates and fills, the report, pods and the run by hand; what must hold |
| `Charges`, `MCCharges` | the lines of one agreement and month, as operators over invoices, usage and parameters; what must hold of them |
| `OrderAdmission`, `MCAdmission` | the drafts and orders of one licensee, the validation endpoint and the first steps of the worker; what must hold |
| `PurchaseTypes`, `PurchaseSafety`, `PurchaseWrites`, `AgreementSafety`, `FinOpsSafety`, `BillingSafety`, `ChargesSafety`, `AdmissionSafety` | theorems and proofs |

`PurchasePipeline` and `QueryingJob` extend `PurchaseOrder`; `PurchaseSystem`
extends both and interleaves their actions; its three proof modules extend
`PurchaseProperties`. `TerminationPipeline` and `AgreementSync` extend
`Agreement` and meet in `AgreementSystem` in the same way, `FinOpsSystem` extends
`FinOpsSync`, `BillingSystem` extends `BillingJob`; each of the last three,
`Charges` and `OrderAdmission`, has a proof module that extends it. The parts share no variable: an agreement begins
where its purchase order completes; `FinOpsSystem` has again, call by call, the
entitlement step that is one action per entitlement in `TerminationPipeline`;
a line of `BillingJob` is the usage of a billing view, what it says is `Charges`;
`OrderAdmission` has many orders up to their invitation, where `PurchaseSystem`
follows one to its end and lets the look-up of `ValidateOrder` answer freely.

### State

One order is followed. `status`, `params`, `age` and `vendor` are what MPT
stores: the order's status, its parameters (phase, master payer account, error
shown at it, flags and recorded ids), the days since it entered Querying
(`audit.querying.at`) and the agreement's external id. `run` is the worker's
context: the step it is in (`at`), how far inside that step (`mode`) and its
copy of the parameters (`p`); `job` likewise for the cron job. `fresh` in each
says that nobody has replaced the stored order since it was read, and `lost`
that some write did replace parameters its writer had not read: it is an
auxiliary variable that lets properties say "unless an update was lost".
`notified` and `emails` are the process memory and the mails of
`handle_error`. The rest is the world: how many resources of each kind were
created (`made`), the state of transfers and handshakes in AWS, whether the
roles are deployed, the outcome of the onboarding, the open CRM tickets.

A recorded id is the number of the resource among those made, so "the order
has lost track of a resource" is `params.id[k] < made[k]`.

### Actions

A step of the pipeline is `pre_step`, `process`, `post_step`. `Applies` is the
`pre_step` of every step (the phase, a ticket already recorded, the support
type); the action named after the step is its `process` and chooses among its
outcomes; `PostStep` is `post_step` of all of them, the new phase and the save.
Between `process` and `PostStep` the worker is in mode `save`, and there
`SaveFails` and `Restart` may intervene. Where `process` itself saves
(`OnboardServices`, `handle_error`), modes `record`, `alert` and `email` are
the points in between. `Advance` goes on to the next step that applies, as the
chain of `_next_step` calls does. A `QueryStepError` is `QueryOrder`, a
`FailStepError` `Close("Failed", ..)`, any other exception `StepFails`, which
leaves the order to be polled again.

The job is `FetchOrder`, the processor of the phase, `JobSaves`,
`ProcessOrder`; `NothingToDo` stands for a processor that waits or cannot
reach a service.

`DECLINED` stands for the three statuses of
`INVALID_RESPONSIBILITY_TRANSFER_STATUS`, `REJECTED` for every handshake status
but PENDING and ACCEPTED.

### Admission

`form[o]` is the draft of an order: account type, whether an account is named,
whether the instructions for a new one are visible, and whether the last
validation found no error (`valid`). `order`, `agreement` and `phase` are what
MPT stores of it; `phase` is "account" and "invite" for the first two phases
and "begun" for all that follow. `run` is the worker: the order and the step it
is about to take. `ValidateForm` is the endpoint, `SetupContext` to
`CreateBillingTransferInvitation` are the steps with their `pre_step`, `process` and
`post_step` in one action, since no property looks between them; `LaterSteps`
stands for the rest of the pipeline by its three ways to close a run, and
`RunStops` for whatever ends one without a word to MPT. `late` (orders placed while
another agreement was in use) and `duplicate` (those failed with AWS004) are
auxiliary.

### The end of an agreement

`agreement`, `master` (the subscription of the master payer account), `subs`
(those of the linked accounts, with their termination dates) and `order` are
what MPT stores; `transfer`, `committed`, `group`, `relationship`, `used` are
AWS. `run` is the step the worker is about to take. The termination pipeline
keeps no phase: a step that stops leaves the order Processing and everything
is run again, which `PollTermination` and `TerminationStops` say. Only the calls
inside `TerminateResponsibilityTransferStep` are actions of their own, since
there a restart (`WorkerRestarts`) leaves a state that the retry does not
repair.

`job` is a pass of the cron job over this agreement: `job.snap` and
`job.master` are what it fetched and judges by to its end, `job.found` the
accounts it found usage of, `job.todo` those its present stage (`job.at`) has
still to see. `Refused` is an `MPTError` that the job logs and passes over.
Time goes by months (`MonthPasses`): a termination date is `left`, the months
until it, in MPT and in the snapshot alike. `unused` is an auxiliary variable:
the months since a pass found usage of the account and recorded it, by taking
the date off or finding none to take off. `withdrawer` tells who ended the
transfer, the order in hand or an earlier one; `missed`, auxiliary too, what of
group and relationship is still there because the worker has not removed it since:
that call failed, or it restarted before it (`Misses`).

### Entitlements

`ffc[a]` are the entitlements of an account, with FFC's statuses and "none" for
an id not given yet; `records[g][a]` is the Airtable record, with the months
since its last usage as `age`. A *pass* goes through the Active agreements
(`job.list`); of the one in hand (`job.g`) it has read the records (`job.snap`)
and found the accounts with usage (`job.todo`), and serves each by
`GetEntitlement`, `CreateEntitlement`, `SaveRecord`. The second half,
`ManageTerminatedAccounts`, takes the inactive ones of what was read:
`LookupInactive`, `EndEntitlement`, `MarkTerminated`. Every call to FFC or
Airtable is an action, so the termination order (`StartStep` to
`CompleteOrder`), another failure or the death of the pod may fall between any
two. A `FinOpsError` skips the account, any other error ends the pass
(`SyncDies`). `Lookups` is what a query with `limit=1` may give: any one
entitlement of the account. Auxiliary are `silent`, the months since a pass
recorded usage; `moved`; `order.met`, whether a pass was at the agreement, or had it
on its list, when the order began its step; and `unrecorded`, the accounts a pass
died with before it had saved their record, or whose record an order that met a
pass has marked, until a pass saves it again.

### Journals

`journals[u]` are the journals of one month of an authorization in the order of
their creation. `runs` are the pod of the cron job and a run by hand; a run
carries the authorizations still to do, the agreements of the one in hand, the
usage left in its generator, the `result` so far and what is `done`.
`result` says of each usage what became of it: in a line, in a view AWS did not
list (`mute`), of an agreement whose error was notified (`told`) or that is not
to be billed (`gone`). `StartPod` is Kubernetes with its retries, `Dies` any
error no handler takes, `AuthorizationFails` and `AgreementFails` the two
handlers that swallow one, `Refused` the upload MPT does not take. Looking up,
counting, creating, uploading and attaching are actions of their own.
`crossed`, `failures` and `deaths` are auxiliary.

### Charges

Three steps fill `invoice`, `usage` and `lines`; everything else is an operator
named for the function it stands for. Amounts are whole numbers of the sixth
decimal, `Percent` rounds half to even as `Decimal.quantize` does, rates are
whole numbers. `Entities`, `Payments`, `LinkedGroups` and `PayerGroups` hold one
value of each kind the processors tell apart: positive, negative and zero
usage, credits with and without a discount of the program, Enterprise
support, marketplace with taxes and without, a fee and its coverage.

### Assumed of what is not in the repository

* MPT accepts an update of an order that is Processing or Querying, a change of
  status only from Processing, and `process` only from Querying; an update
  replaces all parameters. A read sees the last write.
* The customer can send a Querying order back to Processing, and edit the
  account only where the pipeline shows an error at it.
* An accepted transfer can be withdrawn (`tests/aws/test_client.py:112`).
* The catalog's default of the two flags is "no" (`tests/conftest.py:655`): the
  PLS guard compares with "no", an unset flag would pass it.
* One consumer thread (`flows/flow_utils.py:91` relies on it too) in one worker
  pod (`replicaCountWorker: 1` in the helm values).
* MPT places a draft whose last validation had no error and whose required
  parameters are set, and may do so after another order has been placed. Its
  agreement is Provisioning from then until the order is completed or failed,
  and may end later.
* A handshake and a transfer whose id is recorded are found by AWS.
* A transfer the worker ends reads as accepted to the end of the month, the
  `EndTimestamp` of the call (`terminate.py:170`), and as withdrawn from then
  on; AWS may refuse that date the first time, not when it has taken it before.
* MPT terminates an agreement with its last subscription, holds it Updating
  while an order on it is Processing, and may refuse to change a subscription
  meanwhile. A failed order leaves its subscription as it was.
* A service period that has ended does not begin again under the same handshake.
* One job at a time (`concurrencyPolicy: Forbid`, `cronjob.yaml`); its failed pod
  is started again up to the `backoffLimit`.
* FFC refuses to delete what is active and to terminate what is new, may keep a
  terminated entitlement in its answers, and turns a new one active on its own
  time. Airtable keeps one record per agreement and account.
* A pass of the FinOps job takes less than a month. A linked account changes
  its organization at most once.
* MPT accepts a file for a journal until the journal is submitted, only a filled
  journal is submitted, and a journal is listed once it has been created.
* Cost Explorer gives one group per record type and service.

## 3. The runs

| Run | Instance | Checked |
|---|---|---|
| `faults` | existing account, PLS and resold, one fault, fairness | `TypeOK`, `OneResourceWithoutFault`, `OneErrorEmail`, `FailedIsNotSold`, `QueryingIsWatched`, `PhaseOnlyAdvances`, `AcceptedOrderEnds` |
| `races` | PLS, new and existing account, two accounts to name, one resubmission | `ParamsFollowPhase`, `CompletedIsProvisioned`, `OneResourceWithoutFault`, `PlsGate`, `StaleWriteNeedsCustomer`, `ImplementsLifecycle` |
| `admission` | two orders of one licensee, fairness | `TypeOK`, `OneAgreement`, `LastIsKept`, `DuplicateIsRefused` |
| `countdown` | one linked account, two months, one fault, fairness | `TypeOK`, `FailedOrderKeepsTransfer`, `TransferInUseIsWhole`, `NothingLeftBehind`, `CountdownHonoured`, `OnlyMasterOrderWithdraws`, `LostAgreementEnds`, `ImplementsLife` |
| `finops` | two agreements, one account that may move, one fault, fairness | `TypeOK`, `DuplicateNeedsKept`, `LiveIsRecorded`, `InactivityHonoured`, `OrderEndsEntitlements`, `UsedIsEntitled` |
| `billing` | two authorizations, two agreements, two views, one retry, a run by hand | `TypeOK`, `OneOpenJournal`, `FileIsAccounted`, `RetriedJobBillsAll`, `ReportCoversJournals` |
| `charges` | payer and one linked account, three groups, two invoices, all parameters | `SupportChargedOnce`, `FeeBilledOnce`, `ConvertedAlike`, `DiscountGivenOnce` |
| `doc_watched`, `doc_unused`, `doc_finops`, `doc_discount`, `doc_licensee` | smallest that shows it | five statements of the repository that the code does not keep |

Bounds. `MaxMade = 2` is one resource more than a correct history has, so that
a duplicate is reachable and not cut off. `MaxAge = QueryTimeout + 1` lets both
timeouts pass (they test *more than* the limit), and `RolesTimeout <
QueryTimeout` keeps their order (2 and 4 days in the deployed values) apart.
`MaxFaults = 1` is one crash, failed save or lost id at any of the points where
one may fall. `MaxResubmits = 1` is one customer racing one pass of the job;
a customer who asks for a new account needs it to name the account at all, so
that in `races` the stale copies are those of existing accounts. Faults and resubmissions are separated between the runs: together they
exceed five million states; the theorems below cover every combination.
`races` uses symmetry of the two accounts; its refinement is checked step by
step, with no fairness, and is not affected by it. Deadlock is not checked: a completed or failed order stops.

`countdown` has two months where the code has
`LINKED_ACCOUNT_INACTIVITY_MONTHS = 3`: a date can be set, taken off after some of
its months have passed and set again before one expires, and
`AgreementSafety` proves `CountdownHonoured` for every length; `doc_unused` has
the three. One fault is a crash or refused call at any point; every invariant
is stated, and proved, for any number. Orders, passes and months are unbounded, only faults are counted.
One linked account is enough: the job treats them one by one, a second would
repeat it, and the theorems hold for any set of them.

`admission` has two orders, the fewest that can find each other; nothing else
is bounded. Agreements end and drafts are edited at any time. Three orders
find nothing that two do not, and the theorems cover any number.

`finops` has two agreements so that an account may leave one for the other and
an order may end one while the pass is at the other, `MaxIds = 2` so that a second
entitlement beside the first is reachable, and one month for the 60 days: the
age of a record is what counts, and the proofs have any number. One fault is a
death or a failed call at any point; no property asks for histories without one.
Where the ids of an account are used up FFC answers with an error (`Exhausted`),
which the properties allow for: the bound is the model's. A second account would only
repeat the first: pass and order treat accounts one by one, and the theorems
cover any set of them.

`billing` has two of each kind: two authorizations so that a death after the
first is followed by a retry that finds its journal, two agreements and two
views so that an agreement may fail half-way and something may be left over in the
generator. `BackoffLimit = 1` and `MaxDeaths = 1` stand for the deployed 3: one
death at any point, of either run; `MaxDisturbances = 1` is one swallowed failure
or ended agreement. The theorems cover all values. It uses symmetry; all its
properties are invariants.

`charges` takes every agreement's parameters, every sequence of up to two of
twenty-four different invoices (two are needed for two entities, equal rates
and a primary invoice that is not the first) and every report of up to three
groups over both accounts: three is a credit, its discount and the usage they
concern, or a fee and two coverages.

Fairness (`faults`). The worker polls without end and goes on with the step it
is in (`WF(Poll \/ WorkerStep)`), and from some time on the services its steps
call answer: a purchase may fail to end because AWS is down for ever. The job
is started by Kubernetes again and again (`WF(FetchOrder)`) and reaches its
services now and then (`SF(JobStep)`: a failed pass puts it back to idle, so
weak fairness would say nothing). Days pass and an onboarding ends. Nothing is
asked of the customer, of invitations or of the operator; that is the point of
`AcceptedOrderEnds`. It speaks of histories without a fault, and the run has no
resubmission, because either can defeat it: `doc_watched` shows the first, and a stale move to
Processing that brings back the phase of a transfer withdrawn since makes the
worker and the job hand the order to each other for ever.

Fairness (`countdown`). The worker and the job are started again and again and go on
with what they run (weak fairness of each), from some time on the calls that
stop a run or skip a pass succeed, and the customer does not for ever order the
end of linked accounts, which the pipeline always refuses: each such order
holds the agreement Updating, where the job does not select it and MPT may
refuse its calls. Nothing is asked of months, usage or the commitment.

Fairness (`admission`). The worker goes on with its run (weak fairness), polls
all Processing orders again and again, and not every run of an order stops at
the same step before the look-up is answered (`SF` of `Poll` and the steps up
to `FailDuplicate`, per order: the one worker is busy with another order again
and again, so weak fairness would say nothing). Nothing is asked of customers,
operators or agreements.

Fairness (`finops`, `doc_finops`). The job is started again and again and goes
on with its pass, the worker goes on with an order it has been given
(`WF(FetchAgreements \/ PassStep)`, `WF(OrderStep)`). Failed calls are bounded
and not fair; nothing is asked of FFC, months, customers or accounts.
`UsedIsEntitled` asks for usage that stays and an agreement that stays Active,
so that only the job can be to blame.

### What the code does not keep

* `doc_watched`. At the roles timeout the phase is saved before the order is
  resumed. When the second call is lost or refused (a refusal is logged and
  ignored) the order is Querying in `createSubscription`, and no processor of
  the job looks at that phase.

* `doc_unused`. A subscription is terminated "once the countdown expires" for
  having no usage. The expiry is judged by the snapshot of the pass: an account
  whose usage comes back by the first pass after its date is "active again",
  its countdown is cleared in MPT, and the same pass terminates its
  subscription for three months without usage. The next pass creates a new
  one. `CountdownHonoured` is what does hold: this is the only pass in which
  it can happen.
* `doc_finops`. The entitlement is terminated or deleted "when the subscription
  ends". A termination order does so. Where the agreement sync ends an
  agreement whose transfer is lost, nothing does: the job selects Active
  agreements, so the entitlements of this one are not looked at again, not even
  for their inactivity.
* `doc_discount`. A test is named for extra discounts that are skipped "when
  principal amount is zero or none". Zero is: a month without a primary invoice
  has no amount, which is not equal to zero, and its discounts are given. The
  test of the second case has no usage and passes for that reason.

* `doc_licensee`. A purchase is failed because "A new agreement can only be created
  with a different licensee". An order for a new environment is not looked up
  by the worker at all: `ValidateOrder` acts in phase
  `createBillingTransferInvitation` and stands before `CreateNewAWSEnvironment`,
  which sets that phase and goes on to the invitation in the same run. Where
  its draft was validated before another order of the licensee was placed,
  both are carried through. `OneAgreement` is what does hold: this is the only
  way to two agreements.

Three more that the models reach and no run is kept for: an accepted transfer
withdrawn before its check is taken for one "still pending", and the worker and
the job hand the order to each other without end; the mail flag that "prevents
duplicate emails across process restarts" is lost where the job's stale copy
overwrites it, which `OneErrorEmail` excludes; and a termination order may leave
an account entitled: it reads the records once, and a pass that fetched the agreement
while it was Active goes on with it, makes an entitlement for an account
whose usage it sees after that reading, and saves a record that no later pass or
order looks at. `OrderEndsEntitlements` is what does hold: this is the only way,
however often the order is stopped and run again.

`NothingLeftBehind` holds under any failures because `missed` names what the code
leaves: a restart after the transfer is ended makes the retry skip the removal of the
billing group and the relationship (`terminate.py:57`), and a refused removal is
only logged. Everything else, a second order and the passes of the job included,
leaves nothing of a transfer the worker has ended. It does not speak of a
transfer the customer has withdrawn: a termination order that finds it so removes
nothing, and a pass that dies after its terminations is not repeated, because the
agreement is no longer Active. No document of the repository claims otherwise.

`LiveIsRecorded` names in the same way, by `unrecorded`, the two windows in which an
entitlement has no record to run out by: between the creation and the saving of
the record, where the pass may die, and where an order marks what a pass it has met
has just made. `OneResourceWithoutFault` counts one duplicate for each fault: those
are what the calls without a client token make of a lost save.

The docstring of `SWOJobStep` names `CREATE_SUBSCRIPTION` as the phase it
advances to (`swo_job.py:40-41`); the code sets `COMPLETED` (`swo_job.py:125`)
and the model follows the code.

## 4. What is proved

For every value of the constants, from the named assumptions of the modules
that declare them only:

| Theorem | Statement |
|---|---|
| `PurchaseTypes!TypeCorrect` | `Spec => []TypeOK` |
| `PurchaseSafety!Invariant` | `Spec => [](TypeOK /\ IInv)` |
| `PurchaseSafety!PhaseFollowsWorld` | `Spec => []ParamsFollowPhase` |
| `PurchaseSafety!CompletedProvisioned` | `Spec => []CompletedIsProvisioned` |
| `PurchaseSafety!PlsGated` | `Spec => []PlsGate` |
| `PurchaseSafety!Refinement` | `Spec => ImplementsLifecycle` |
| `PurchaseWrites!WritesInvariant` | `Spec => [](TypeOK /\ IInv /\ WInv)` |
| `PurchaseWrites!StaleNeedsCustomer` | `Spec => []StaleWriteNeedsCustomer` |
| `PurchaseWrites!OneResource` | `Spec => []OneResourceWithoutFault` |
| `PurchaseWrites!OneEmail` | `Spec => []OneErrorEmail` |
| `PurchaseWrites!FailedNotSold` | `Spec => []FailedIsNotSold` |
| `PurchaseWrites!Watched` | `Spec => []QueryingIsWatched` |
| `PurchaseWrites!PhaseAdvances` | `Spec => PhaseOnlyAdvances` |
| `AdmissionSafety!TypeCorrect`, `!Invariant` | types and `Inv` |
| `AdmissionSafety!Alone` | `Spec => []OneAgreement` |
| `AdmissionSafety!OneIsKept` | `Spec => []LastIsKept` |
| `AgreementSafety!TypeCorrect`, `!Invariant` | `Spec => []TypeOK`, `Spec => []IInv` |
| `AgreementSafety!HonoursCountdown` | `Spec => CountdownHonoured` |
| `AgreementSafety!KeepsTransfer` | `Spec => []FailedOrderKeepsTransfer` |
| `AgreementSafety!OnlyMasterOrders` | `Spec => OnlyMasterOrderWithdraws` |
| `AgreementSafety!InUseIsWhole` | `Spec => []TransferInUseIsWhole` |
| `AgreementSafety!LeavesNothing` | `Spec => []NothingLeftBehind` |
| `AgreementSafety!Refinement` | `Spec => ImplementsLife` |
| `FinOpsSafety!TypeCorrect`, `!Invariant` | types and `IInv` |
| `FinOpsSafety!NoDuplicate` | `Spec => []DuplicateNeedsKept` |
| `FinOpsSafety!LiveHasRecord` | `Spec => []LiveIsRecorded` |
| `FinOpsSafety!InactivityIsHonoured` | `Spec => InactivityHonoured` |
| `FinOpsSafety!OrderEndsAll` | `Spec => OrderEndsEntitlements` |
| `BillingSafety!TypeCorrect`, `!Invariant` | types and `IInv` |
| `BillingSafety!OneJournal` | `Spec => []OneOpenJournal` |
| `BillingSafety!FilesAccount` | `Spec => []FileIsAccounted` |
| `BillingSafety!JobBillsAll` | `Spec => []RetriedJobBillsAll` |
| `BillingSafety!ReportCovers` | `Spec => []ReportCoversJournals` |
| `ChargesSafety!ChargesInvariant` | `Spec => []CInv` |
| `ChargesSafety!SupportOnce` | `Spec => []SupportChargedOnce` |
| `ChargesSafety!DiscountOnce` | `Spec => []DiscountGivenOnce` |
| `ChargesSafety!ConvertedOnce` | `Spec => []ConvertedAlike` |
| `ChargesSafety!FeeOnce` | `Spec => []FeeBilledOnce` |

**Purchase.** `ParamsFollowPhase` says that *every* copy of the parameters,
the stored one, the worker's and the job's, however old, claims only what is
true. It is not inductive alone: what the worker will save is not its copy but
its copy after `post_step`, so `RunClaims` takes that; the worker inside a step
has to satisfy the `pre_step` of that step (`RunOrigin`), the job at a save has
to come from the phase its processor takes (`JobOrigin`), and what is sold or
closed must rest on an accepted transfer, on the roles and on the subscription
(`Sales`, `Closed`). `IInv` is the conjunction. TLC checked it as an invariant of
the instances above before it was proved.

Why it holds under lost updates: the world only grows (`WorldGrows`: a transfer
accepted stays accepted or becomes withdrawn, roles stay deployed, nothing made
is unmade), so a claim once true remains true, and replacing the stored
parameters by an older copy replaces true claims by older true claims. Hence
the proof has one lemma per writer (`RunHolds`, `JobHolds`, `ParamsHolds`)
about the copy it writes, and one lemma that carries all other copies over a
step of the world. The refinement needs in addition a classification of the
steps by the lifecycle variable they change.

**Lost updates.** The properties that hold "unless an update was lost" need the
converse of that: while `lost` is false every copy must be as good as the stored
parameters. It is not equal to them, because its holder may have done something it
has not saved, and because one of the two may save first. `InStep` says how far
a copy may be off. `RunView`: the worker's is ahead by the id its step has
just made, the flag it is about to store or the roles it has found, and behind by
a phase or a ticket the cron job has written, but only if it is no longer fresh.
`JobView`: the job's is ahead by the ticket or the phase it is about to save.
`Spending` counts: a resource beyond those an order knows of, or that the worker
is about to record, has cost a fault, which needs the worker's place in the pipeline
(`RunInPhase`); `Tickets` does the same for the tickets of the job, `Mail` ties
the mail to the flag that is stored before it, `SoldIsPast` keeps what is sold
out of the phases that can fail an order. Beside `InStep`, `TakeTurns` holds
through lost updates: without a resubmission the order is Querying as long as
the job has it and the worker holds only what is Processing (`Waiting`), so
neither ever has a stale copy. The proof puts each action of the system in one of
a dozen classes by what it reads, makes and stores (`Works`, `Stores`, `Goes`,
`JobStores`, ...) and carries the invariant over the classes.

**Admission.** `Apart`: of two agreements in use one was placed after the other
and is `late`, since an agreement comes into use only by being placed. `Checked`
adds what the look-up found: an order for an existing account that has passed
it found no other agreement, so any it stands beside was placed afterwards and
has not passed a look-up itself, for that one would have found the first.
`Kept` is `LastIsKept` with the order about to be failed counted in: the one it
has seen is placed, is not failed before it, because the worker has one order
in hand, and once failed its agreement is no longer in use, so the last one
standing finds nobody. `Coupled` says what an order's status tells of its
agreement and its run. One worker is needed: two could fail both orders. The
proof describes every step by what it does to one order (`Effect`) and carries
the three over that description.

**The end of an agreement.** The job judges by a snapshot, so `Snapshot` says
what a snapshot is worth: until the pass ends subscriptions, MPT still has those
of the snapshot and no countdown that is not in it, for only this pass sets one;
and what it takes to terminate is dated in it with no months left. `Waited` is the reason
`CountdownHonoured` holds: a date with `left` months to go has been waited for
`Inactivity - left` of them, in MPT and, but for the accounts this pass found in
use, in the snapshot; a month keeps the sum, a new date starts at `Inactivity`,
and the months of an account begin anew only where its date is taken off.
`Ordered` ties the order in hand to the transfer it has ended, through retries;
the one step that could break it is the job creating the master payer's
subscription again, so `Recreated` says that no order in hand has been validated,
or has ended a transfer, while a pass may. `Removed` follows group and relationship
through the three calls of the worker: each is gone, still to be removed by the
run in hand, or in `missed`.

`ImplementsLife` says it all at once, as `AgreementLife` does: who acts is
forgotten, and so are the snapshot, the dates, the stages of the pass and of the
worker and every fault. What is left are a few rules: a transfer in use is
ended only for an order on the master payer's subscription with the commitment
over; that order can be turned down only while the transfer is in use, and
completed only when no entitlement is left; group and relationship go after the
transfer, entitlements with such an order or a lost transfer, never before; a
linked account's subscription begins with usage the job has seen, and ends with its
countdown over, with usage seen too late for it (the finding `doc_unused`), or
with the transfer lost; and an agreement without a subscription never gets one again. The
mapping takes the subscriptions and the transfer as they are, the accounts
seen from the pass (`job.found`) and the commitment from the handshake. The proof maps
every action of `AgreementSystem` to one of the rules or to a stutter from the same
invariant; `Validated`, which `Ordered` needs for it, says what a run past
its validation knows of the master payer's subscription although the job may
have ended that one since. It also found a mistake in the model: the status MPT
gives an agreement was a `CASE` whose arms overlapped when the last
subscription goes under an order, which TLC reads in order and the logic does
not; it is an `IF` now.

**Entitlements.** `OneLive` needs `JobSawNone`: between the lookup and the creation
nothing but the pass makes an entitlement live. `AgeIsSilence` bounds the age of a
record, and of its copy in the pass, by the months without recorded usage.
`OrderAlone` gives an order that met no pass when it began its agreement for
itself: the agreement is Updating, so no pass selects it until the order is done.
`OrderEnds` says of each account that it is still to do, in hand or
ended; accounts that have not moved have records of one agreement only
(`OwnAgreement`). `Recorded` is what makes `LiveIsRecorded` inductive without a
word about faults: an entitlement made and not saved yet belongs to the account in
hand, one whose record is about to be marked has been ended, and a pass that fails
to end one leaves its record alone. `UnrecordedStays` carries it over the steps that save nothing.

**Journals.** `OneOpen` strengthens `OneOpenJournal` by the run that has looked and
not created yet: where one looks, none is open, no other looks, and its number
is the next. Whoever dies there leaves nothing open. `RunAccounts` is
`FileIsAccounted` for the result in memory: an agreement to do has no fate, one
done has one. `BillsAll`, `HasFiles` and `Progress` carry completeness from the
lines of a run through its journal to the end of the job, whatever pods died;
`Reported` says the same of the report.

**Charges.** `CInv` says what the month is made of in memory: finitely many metrics,
one of a type and a service per account; rates that come with a currency that
needs them, although `get_rate` and `get_payment_currency` look at different
invoices (`RateHasCurrency`); and lines that are those of the generators.
`LinesOf` then tells the processors apart by what a line is about.
`FeeBilledOnce` needs sums. The induction theorems of the library take an
operator, which the provers do not instantiate, so `Induction` and `SetInduction`
take a set instead, from the minimal element `WFMin` gives. With them
`SumUnfolds` shows that the fold of the community modules is a sum at all,
`SumAnyOrder` that any element may be taken first, `SumRenamed` that distinct
lines carry the sum of their metrics, `SumOfNonzero` that shares of zero may be
dropped, and `SharedOut` that rounding each share of a fee loses or wins at most
half a unit per account. The attempt to prove an earlier bound, half a unit per
*line*, failed for a good reason: a share that rounds to zero has no line, so with
enough accounts the lines that are left say nothing of what was lost. The
property now counts the accounts that used what the plans cover.

TLC checked each inductive invariant on the instances of section 3 before it was
proved.

Only model-checked: `AcceptedOrderEnds`, `LostAgreementEnds`, `UsedIsEntitled` and
`DuplicateIsRefused`, which are liveness under fairness. Every invariant and
every action property of a passing run is a theorem.

## 5. Plan

Done: the admission of orders, the purchase order, the end of an agreement, the
entitlements, the journals and their lines, and the safety of all of them proved. What is
left:

1. An abstract month of billing that journals, report and lines implement, as
   `OrderLifecycle` and `AgreementLife` are for the purchase and the agreement.
2. Larger instances of `finops` and `billing` where time allows; the theorems
   cover what they would show.

## 6. Not modelled

Texts, templates, Teams messages and mails other than the deployment
error; the bodies of requests; parameters no step decides on; a delay between a write to
MPT and a read that sees it; an external call that takes effect although it
answers with an error (`SWOJobStep`, `ContractCardStep`); the look-up and creation
of the subscription as two calls (`CreateSubscription` is one action). The paging
of the querying job: an order that leaves the set while it pages is seen by the
next pass.

Of the end of an agreement: a purchase that recorded no transfer or
relationship (the steps are skipped), a second transfer whose id the job would
record in the agreement, days within a month. Of the entitlements: agreements
without a payer account (skipped), an Airtable record entered by hand.

Of the billing: the content of the attachments, dry runs, the check of the
dates a command is given, the merging of invoice ids, the days within a month,
the usage of the payer account that goes into the report only, an account that
two billing views of an agreement share, where the second reading replaces the
first, and a run by hand for several authorizations.

Of the admission: an account type that is neither of the two (AWS001,
`validation/base.py:77`), change orders, which are refused (AWS003), the check of a
termination order's lines, the default lines, orders without a licensee, whose
look-up finds nothing.

Left out as components. *Tokens*: a cached token with a buffer
before its expiry, read by one thread; a token that is refused is a failed call.
*RQL*: the code builds conjunctions of distinct fields only, and the models state
what they select. *Clients, configuration, commands, notifications and the two
report jobs*: no state a property could be about; their failures are the failed
calls of the models.
