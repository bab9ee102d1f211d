# A TLA+ model of Guerilla Analytics

The repository is a football match analysis application: a FastAPI backend
(`backend/app`) that keeps its state in one SQLite file and in JSON artifacts,
worker processes that analyse an uploaded footage locally or in a Daytona
sandbox, a gateway to paid language and vision providers, and a React frontend.
This directory models the part of it where processes meet: how an upload becomes
a match and a job, who may run it, when, how often and what it may cost, how its
result becomes the generation that readers see, how corrections get into it, and
how answers of paid providers are bought once.

Sections: [inventory](#1-inventory), [modules](#2-modules), [runs](#3-runs),
[proofs](#4-proofs), [limits of the code](#5-limits-of-the-code-the-models-show),
[what is not modelled](#6-what-is-not-modelled).

## 1. Inventory

| component | state | operations | what is hard | what makes it correct |
|---|---|---|---|---|
| Durable job ledger (`workbench/jobs.py`, `workbench/billing.py`) | SQLite tables `job_requests`, `job_attempts`, `job_charges`, `job_cancels`, `job_billing_events`, `job_charge_receipts` | admit, claim_dispatch, transition, heartbeat, reclaim_expired, reconcile_attempt, record_charge, request_cancel, confirm_termination, confirm_cleanup | several processes; read-then-commit across transactions; unknown outcomes; replayed invoices | one live execution, budgets, no early end of an unknown outcome, sound revisions |
| Local job lifecycle (`jobs.py`, `worker.py`, `storage_jobs.py`, `job_routes.py`, `match_ingest_routes.py`) | rows `jobs`, `matches`; worker processes; threads of the API | ingest, start, retry, cancel, timeout, lost-connection, run_job, update_job | no transaction spans ledger and rows; spawn failures; process deaths; late reports | one dispatch per attempt, completion implies publication, jobs settle, the UI row agrees |
| Local processing (`processor.py`, `video_pipeline.py`) | artifacts of a match | process_match, publication | order of commits, cancellation in the middle | as above |
| Generation store (`generations.py`) | directories of sealed generations, pointer file, receipts, three file locks | snapshot, publish, commit pointer, refresh index, recover, migrate, retention | crashes around the pointer replacement, readers against retention, lock order | a reader sees one whole generation; the pointer never names a missing one |
| Review service, correction log (`review_service.py`, `semantic_commands.py`, `workbench/review.py`) | correction log, command receipts | submit, apply_pending, undo, recover, rebuild | log and generation are committed separately; idempotency keys | a correction is applied exactly once |
| Remote worker, Daytona client (`remote_worker.py`, `daytona.py`) | sandbox, session, staging directory | create, upload, execute, collect, cleanup | ambiguous creation, cleanup failures, cancellation, unknown cost | no sandbox leaks silently, unknown cost stays reserved |
| Remote result import (`storage_remote.py`) | backups of a match directory | import with rollback | failure or crash in the middle | all of the old state or all of the new, of what it backs up |
| Provider gateway and billing (`provider_gateway.py`, `provider_billing.py`) | ledger requests of scope "provider", stored results | execute, dispatch proposals, reconcile | evidence and policy change during the call, outcome unknown | never paid twice for one request key |
| Report store (`report_store.py`) | reports of a generation | publish | generation or policy replaced meanwhile | a report names the evidence it was made from |
| Match admission and uploads (`storage_jobs.py`, `match_ingest_routes.py`) | upload files, admission tokens | admit_match_job | uncertain commit, repeated upload | one match per token, no lost and no stray upload |
| Review bundles, storage facade, media launcher, artifacts and caches, perception and analytics, GPU workers, workbench policies, read routes, release tooling, research scripts, add-on, frontend | files and tables of their own, or none | | sequential, numeric, or reads | not modelled; reasons in `PROJECT.json` |

Interactions. The API threads and the workers share one SQLite file but two
unrelated parts of it: the ledger and the `jobs`/`matches` rows. The API starts a
worker with `Popen` and never waits for it; a worker learns of a cancellation
only from the ledger, and the API learns of a worker's end only from what the
worker wrote or from a lease that ran out. The gateway uses the same ledger, under
a limit that all its requests share. Workers publish through the generation store;
the review service rebuilds generations from corrections. The store's three file
locks (review, lifetime, publication) are also what the gateway and the report
store hold while they compare evidence and policy.

## 2. Modules

```
            JobLedger ------------------------+-------------------+
           /    |     \                        \                   \
 JobLifecycle   |      JobLedgerProofs    ProviderGateway       RemoteJob      (EXTEND it)
                |         + FiniteSums                                         (implement it)
 GenerationRegister <--- implemented by --- Generations
        ^--- extended by --- ReviewCommands
 AcceptedOnce <--- implemented by --- MatchAdmission ... hands over to JobLifecycle
```

Every component module `X` has an instance `MCX` for TLC, and `XProofs` holds the
theorems about it; `FiniteSums` holds the laws of sums over finite sets that the
ledger's proofs cite. An operation of the code that raises, or answers from what is
stored, and changes nothing is the disabled guard of its action. Operators called
`Variant` are plausible mistakes in the code: each is known to break a property.

### JobLedger

The ledger. Each operation of the code is one `BEGIN IMMEDIATE` transaction and one
action: `Admit` (admit in both modes), `ClaimDispatch`/`ClaimCancelled`
(claim_dispatch), `Heartbeat`, `ReclaimExpired`, `Reconcile`/`ReconcileUnbilled`
(reconcile_attempt), `RecordCharge`, `RequestCancel`, `ConfirmTermination`,
`ConfirmCleanup`. A caller that reads `latest_attempt` and calls `transition` with
`expected_revision` afterwards is two actions, `ReadLatest` and `Commit...`, with
anything in between. `Transition` is `_transition`: revision, ownership and status
checks, the coercion of a cancelled request's updates to "cancelling", and the
effect on the bill.

| variable | code |
|---|---|
| `count`, `attempt` | rows of `job_attempts`, numbered by `sequence` |
| `attempt[a].leased` | `leaseExpiresAt >= now` |
| `bill` | sums of `job_charges` by kind, and the state of the last billing event |
| `cancel` | row in `job_cancels` |
| `evidence` | identities in `job_billing_events` and `job_charge_receipts` |
| `view` | what a caller read and has not acted on |

Money is a small natural number of one currency; the code's Decimals only add,
subtract and compare. Displayed fields (errors, timestamps, cleanup result,
`actualCost` of the payload) are left out. A receipt that the code derives
(`transition:<attempt>:<revision>`, or a hash when no receipt id is given) is always
fresh in the first case and one of the receipts in the second. A paid retry's anchor
is absent or the latest attempt; with an older anchor the code answers with a stored
child and changes nothing. The kinds "reserved" and "estimated" of `record_charge`
have no caller. The group limit is passed exactly for the provider requests.

### JobLifecycle

The processes around one local job, over the ledger's own actions. `update_job` is
four transactions in the code (cancel check, read, ledger write, row write) and four
actions in the model, `Check`, `Fetch`, `WriteOutcome`/`WriteProgress`/`WriteRefused`,
`WriteRow`. API threads are `Ingest` (admit, start, mark), the `Retrier`s, the
`Canceller`s and the `Prober`s (timeout and lost-connection routes); a set may overlap
another: such a request is one that may turn out to be either. None of them is the
ingest request (`IngestAssumption`). `Start` joins the first lease renewal of a worker
to its look at the cancel flag: the renewal commutes with a cancellation. With one
lease owner, a lease matters only to the reclaim at a restart, so it expires only
where a restart can follow. What happens inside the admission of the match is
`MatchAdmission`'s; here it is one step.

| variable | code |
|---|---|
| `row`, `match` | `jobs.status`, `matches.status` |
| `thread`, `worker` | program counters and locals of API threads and worker processes |
| `starts`, `crashes`, `apiUp` | processes started for each attempt, deaths, whether the API runs |

### AcceptedOnce, MatchAdmission

`AcceptedOnce` is the promise behind the header `Idempotency-Key`: of all requests
with one token one becomes the match, it is started at most once, every answer names
it. `MatchAdmission` is `create_match` with `save_upload_stream`, `admit_match_job`
and the two `mark_...` statements, with clients that repeat a token at any time, calls
that fail before or after their effect, a commit that raises and may have happened,
and deaths of the API. A request stands for its upload, match and job, which are all
fresh identifiers. The read that confirms an outcome and the removal of the upload
that may follow are one step: nobody else knows the file.

| variable | code |
|---|---|
| `pc`, `job` | where `create_match` is with a request and how it answered; the identity it has in hand |
| `upload` | the request's file in `uploads/`: none, the temporary one, or the saved one |
| `row` | `jobs.status` of the pair of rows; "none" before the commit |
| `children` | worker processes started |
| `kept`, `unmarked` | files whose removal failed; outcomes that could not be written |

### GenerationRegister, Generations

`GenerationRegister` is what the users of the generation store rely on: a register
that holds one whole generation, pins that stay readable, and retirement of what
nobody needs. `Generations` is the store: three file locks with their modes, the
directory written file by file and sealed, the comparison of the parent before and
after, the pointer's `os.replace`, the index, recovery and migration at start-up,
pinned readers, reports and playlists that cite, and retention in its separate
removals. Any process may stop at any step (`Stop`): locks go, files stay.

| variable | code |
|---|---|
| `dir`, `from`, `made` | directory of each generation (absent, partial, whole), `parentGenerationId`, directories made |
| `pointer`, `index`, `legacy` | `current_generation.json`, `matches.analytical_generation_id`, flat files of an older release |
| `cited` | generations named by corrections, reports and playlists |
| `lock`, `pc`, `plan`, `own`, `pin`, `todo` | flock holders and the locals of each process |

Decisions: power loss is not modelled (the code's fsyncs are assumed to be what a
killed process needs); the seal file is part of "whole"; the branches that compare a
stale parent under the review lock cannot be reached by the writers, who all hold it;
re-entered guards, an explicitly named way back and dry runs of retention are left
out; a deferred import is a publisher that may stop before its commit; what retention
selects is any subset of the eligible generations.

### ReviewCommands

`submit`, `undo`, `recover`, `apply_pending`, `repair_commands` and the start of
`Storage`, over the register. Every operation holds the review lock of its match, so
operations do not interleave; they are cut by crashes and errors. `MarkApplying`,
`Publish`, `MarkApplied`, `MarkFailed`, `Uncertain` are the separate writes of the log
and of the store. The match has been processed before (`Past > 0`), refusals change
nothing, citations and retention are left to `Generations`. An exception at start-up
brings `Storage()` down, as in the code.

| variable | code |
|---|---|
| `log`, `received`, `st` | `CorrectionLog._items`, `_pending`, `applyState` |
| `base`, `appliedIn` | `baseGeneration`, `appliedGeneration` |
| `included`, `effect` | `includedCommandIds` of each manifest; the commands whose effect it shows |
| `server`, `phase`, `pending` | the API, and how far the operation under the lock is |
| `overtaken`, `misread` | histories the properties name (section 5) |

### ProviderGateway

`execute` (reports) and `_dispatch_proposal` (proposals) in threads of the API, over
the ledger's actions: read evidence and policy, reserve, compare again and claim under
the publication lock, send, write outcome and invoice, publish, save. Callers of the
same logical request run at once. A kill of the API and its next start are one action;
`stalled` remembers attempts whose lease ran out while they were running. Provider
requests are never cancelled. The code compares `policy_revision`, a digest of the
match's settings and of `updatedAt`. The settings change only under the exclusive
publication lock (a rollback of a remote import writes them back without it, but holds
the review lock as every change of them does, so to the same values); `updatedAt` is
also written without a lock. `policy` counts the settings; `updatedAt` is no variable:
wherever the code compares revisions the model may take the stale branch, and only
where the settings are the same may it take the other. `_import_legacy`, `reserve()`, validation of prose and
pricing are left out.

| variable | code |
|---|---|
| `generation`, `policy` | current generation; rights, provider and teams of the match; both counted |
| `task`, `bound` | kind of a request; generation its stored payload was made from |
| `pc`, `call` | each caller's place and locals |
| `result`, `reports` | `provider_results`; published reports |

### RemoteJob

One job of the Daytona backend over the ledger's actions: the dispatch, `run_remote_job`
and `execute_daytona_job` with every provider call failing or ambiguous, the deletion
of the sandbox, the import under backups with rollback, the deferred activation, the
final cleanup, cancellation, timeout reports, invoices, restarts. A retry of a job is
`JobLifecycle`'s; the sandbox's time to live, the contents of bundles, progress
artifacts (their errors are swallowed) and the details of the staging directory are
left out. Progress calls of `update_job` are one step; its outcome calls are four.

| variable | code |
|---|---|
| `api`, `probed`, `pc`, `update`, `got`, `cleaned` | dispatching thread, report route, the worker and its locals |
| `sandbox` | the sandbox at the provider: none, alive, gone |
| `row`, `match`, `files`, `backup`, `pointer` | the four stores of the outcome, and the copies of the files of `_REMOTE_RESULT_FILENAMES` |
| `extras` | the artifacts that the import writes without a backup, and its receipts of all artifacts |
| `broken` | failures while a failure was being handled (section 5) |

## 3. Runs

| run | instance, size | asks |
|---|---|---|
| `ledger_provider` | two provider requests, together at most two attempts, budget 2 each, shared limit 2, amounts 0..2, 1 owner, caller, receipt, revisions to 2; 423,905 states | `BudgetRespected`, `GroupRespected`, `UnknownNeedsInvoice`, `AdmittedOnlyWhenSettled` |
| `ledger_local` | one local request, 2 attempts, all charge kinds, amounts 0..1, 2 owners, revisions to 3; 777,221 states | `TypeOK`, `OneLiveAttempt`, `UnknownNotReconciled`, `CancelWindsDown`, `ViewFresh`, `ReplayHarmless`, `KnownChargesKept` |
| `life_retried` | ingest, two retries, 2 attempts, one death of the API or of a worker | `DispatchedOnce`, `OneExecution`, `CompleteWasPublished`, `WorkerKeepsToItsAttempt` |
| `life_cancelled` | ingest, one retry, one request that cancels or reports a timeout, under fairness | `SettlesUnlessCancelled`, `CompletionShown` |
| `admission` | two requests with one token, one with another, 3 failing calls, 1 death of the API; 142,119 states | `UploadsAgree`, `ImplementsAcceptance`, `DispatchShown` |
| `generations` | 2 publishers (one of a correction), a recovery, a reader, a retention, 0 or 3 earlier generations, 5 in all; 146,134 states | `TypeOK`, `NeededIsWhole`, `IndexFollowsPointer`, `ImplementsRegister`, `EveryoneEnds` |
| `review` | two corrections and the undo of one, 6 generations, 3 faults; 278,296 states | `ReviewTypeOK`, `AppliedIsShown`, `FailedIsNotListed`, `AppliedOnce`, `RestartSettles` |
| `gateway` | three callers of one request, 2 attempts, 1 change, 1 kill of the API; 955,583 states | `CalledOnce`, `FreeWasNotCalled`, `InvoiceFirst`, `OneAnswer`, `CurrentOnly`, `ImplementsLedger` |
| `remote` | one job, one attempt, one invoice, one death, every call failing or not; 2,180,036 states | `UnsettledUntilInvoice`, `DeletedBeforeImport`, `StoresAgree`, `CancelConfirmed` |

Three runs end in a violation; each contradicts a sentence or a test of the
repository, quoted in `PROJECT.json`.

* `ledger_reopened`: the budget rule of the runbook, read as an invariant of the
  ledger's own totals, does not survive a late timeout report that reopens the closed
  bill of an earlier attempt. `BudgetRespected` says what does hold, without condition
  and for reopened bills too: what the attempts reserved and have not given back fits
  the budget. So (`OverspendingIsOverinvoicing`) the invoices of a request exceed its
  budget only if one of them exceeded what its own attempt held.
* `life_stale`: `confirm_termination` takes no revision, and a worker of a cancelled
  attempt can end the attempt of the retry. Once an attempt was ended that way while
  its worker lives, a further retry makes two processes work on one match; this is why
  `OneExecution` and its neighbours are asked, and proved, without a cancellation.
* `life_reset`: a second retry that was answered with the same new attempt resets the
  row of a job that has completed.

Bounds. The code allows three attempts; two are what a retry needs. `MaxRevision` cuts
histories of the ledger: 3 allows claim, one more transition and a late reopening of
the same attempt; in the lifecycle (12), the gateway (8) and the remote job (14) it is
never reached. One caller is enough for the bare ledger, since every operation that
needs no earlier read may happen at any time between a read and its commit.
The ledger runs stop where a read was overtaken (`ReadsMayCommit`): it can commit nothing
any more, and such a state allows only what the state without the read allows. In
`admission`, two requests of one token meet in every pair of places, and the third
shows that other tokens are left alone; with three of one token the run passes too,
and adds only a further loser. A failing call of `Mark` or of a removal counts as a
fault like any other; three allow a commit that raises, a failing confirmation or
removal, and one more. In `generations`, two publishers are what the comparison of the
parent needs, three earlier generations what retention needs to find something to
remove behind the current one and the way back. In `review`, an undo needs a correction
before it and another beside it. Three callers of the gateway are a first, a duplicate
and a retry. Deadlock is not checked: in every model the work may rightly be over.

Fairness. `FairLifecycle` is weak fairness of the ingest request, of a retry once it
began, of the worker's steps and of the restart of a dead API, and strong fairness of
the worker's leaving its progress loop. `FairSpec` of `MatchAdmission` is weak fairness
of the handler of a request that was received; of `Generations`, of each process, where
a reader may keep its pin for ever. `FairReviewSpec` lets a begun operation go on and a
dead server be restarted; `RestartSettles` is asked once no further fault comes.
`FairRemote` lets the worker go on: every provider call in the code has a timeout.
Threads and processes that run go on running, and a footage has an end; nobody has to
cancel, retry, probe, repeat or die. `SettlesUnlessCancelled` excludes cancelled jobs,
and deaths are excluded from the fair lifecycle run: the code promises no end then
before an API restart.

Refinements. `ImplementsRegister`: each commit of the store replaces the generation it
was made from, readers see committed generations, what is pinned, cited, current or the
way back is not retired. `ImplementsAcceptance`: the route keeps the promise of
`AcceptedOnce`. `ImplementsLedger`: the gateway's steps are ledger transactions. In all
three, `started`, `told`, `line` or `kept` of the abstract module are computed from the
files and rows of the detailed one.

## 4. Proofs

All theorems hold for every value of the constants, from the modules' ASSUMEs.

| module | theorem | shows |
|---|---|---|
| `JobLedgerProofs` | `Invariance` | `IInv` |
| | `TypeCorrect`, `AtMostOneLiveAttempt`, `UnknownIsNotReconciled`, `CancellationReachesAttempt`, `CurrentRevisionCurrentStatus` | `TypeOK`, `OneLiveAttempt`, `UnknownNotReconciled`, `CancelWindsDown`, `ViewFresh` |
| | `OnlyInvoiceEndsUnknown`, `SettledChargesKept`, `ReplayClosesNothing`, `RetryOnlyWhenSettled` | `UnknownNeedsInvoice`, `KnownChargesKept`, `ReplayHarmless`, `AdmittedOnlyWhenSettled` |
| | `MoneyInvariance`, `BudgetHolds`, `GroupLimitHolds`, `OverspendingIsOverinvoicing` | `MoneyInv`, `BudgetRespected`, `GroupRespected`, and that only an excessive invoice overspends |
| `JobLifecycleProofs` | `LedgerHoldsInLifecycle`, `LifecycleTypeCorrect`, `AttemptDispatchedOnce` | `IInv`, `LifecycleTypeOK`, `DispatchedOnce` |
| | `OneAtATime`, `CompletedIsPublished`, `WorkerMovesItsOwn`, where `Canceller = {}` | `OneExecution`, `CompleteWasPublished`, `WorkerKeepsToItsAttempt` |
| `MatchAdmissionProofs` | `AdmissionTypeCorrect`, `UploadsStayInAgreement`, `RouteImplementsAcceptance` | `AdmissionTypeOK`, `UploadsAgree`, `ImplementsAcceptance` |
| `GenerationsProofs` | `StoreTypeCorrect`, `NeededStaysWhole`, `IndexIsPointer`, `StoreIsRegister` | `TypeOK`, `NeededIsWhole`, `IndexFollowsPointer`, `ImplementsRegister` |
| | `NobodyWaitsInACircle`, `WayBackStaysWhole` | no circle of waiting over the locks; the generation to roll back to is whole |
| `ReviewCommandsProofs` | `ReviewTypeCorrect`, `AppliedStaysShown`, `FailedStaysUnlisted`, `AppliedOnlyOnce` | `ReviewTypeOK`, `AppliedIsShown`, `FailedIsNotListed`, `AppliedOnce` |
| | `RegisterKeepsPromise`, `ReviewUsesRegister` | the register keeps what is named readable; the review service is a user of the register |
| `ProviderGatewayProofs` | `GatewayTypeCorrect`, `GatewayImplementsLedger`, `DispatchedIsCurrent` | `GatewayTypeOK`, `ImplementsLedger`, `CurrentOnly` |
| | `ProviderCalledOnce`, `FreeMeansNotCalled`, `InvoiceComesFirst`, `SameAnswerForAll` | `CalledOnce`, `FreeWasNotCalled`, `InvoiceFirst`, `OneAnswer` |
| `RemoteJobProofs` | `RemoteImplementsLedger`, `RemoteTypeCorrect`, `OnlyInvoiceClosesBill`, `ImportAfterDeletion`, `EndsInAgreement` | `Spec` of `JobLedger`, `RemoteTypeOK`, `UnsettledUntilInvoice`, `DeletedBeforeImport`, `StoresAgree` |

The arguments:

* Ledger. `IInv` joins `TypeOK`, `StatusOK` (an admitted attempt has a real status),
  the four safety invariants and `ViewBounded` (a reader's revision is not ahead of
  the row's). They lean on each other: a bumped revision could otherwise meet a reader
  that was ahead, and the case distinctions over a status need `StatusOK`.
* Money. `MoneyInv` adds that a closed bill has given back all it did not spend
  (`BillsClosed`), which is what lets `admit` count only what is settled or outstanding,
  and the two limits themselves. A step changes the bill of one attempt, or admits one:
  the sum over the attempts is taken apart at that one. The sums are folds that choose their elements
  in some order; that the order does not matter, and that a sum over a union is the sum
  of the sums, is proved in `FiniteSums` by minimal counterexample: the provers cannot
  instantiate an induction rule, but they can use that a set of finite sets has a
  minimal element.
* Lifecycle. `LInv` adds to `IInv` the types, what a thread and a worker know of the
  attempt they hold (`ThreadKnows`, `WorkerKnows`), that two threads never hold the
  same claim (`ClaimsDiffer`), and `DispatchedOnce`. Without a canceller, `SInv` adds
  that a worker at work has the latest, live attempt to itself and that at most one
  process is owed to it (`WorkerAlone`, `ThreadAlone`, `OweOnce`): a retry is admitted
  only when the attempt is over, an attempt that has a worker is over only by that
  worker's word or by a report that blocks the retry. With a canceller this fails, as
  `life_stale` shows.
* Admission. `Known(p)` says what the handler's place implies for the file, the row
  and the identity; `OnePerToken` is kept because the insert sees all earlier ones. A
  step of one request is judged at that request alone (`OneStep`), and steps that
  answer are `Tell`s of the promise (`TellsOne`).
* Generations. `StoreInv` joins the types, mutual exclusion of the locks
  (`Exclusion`), the numbering of directories, `NeededIsWhole`, and what a process may
  rely on while it holds a lock (`Holds`, `InHand`): retention holds the lifetime lock
  exclusively, so no reader is between its resolution and its pin. `Lineage` and
  retention's walk are recursive functions along the parents. That they exist is shown
  by writing them down as least closed sets (`Reached`); since a parent has a lower
  number, a least counterexample gives what is needed: the way back stays below its
  beginning (`BackBelow`), depends only on the parents it meets (`BackAgrees`), and
  holds every proven ancestor (`AncestorsWithin`). `LineInv` then says that a candidate
  is off the line, nobody else's, and made from what its maker planned for
  (`OffTheLine`), and that retention has only committed generations in hand that nobody
  needs (`Disposable`). With it each step is a step of the register or is not seen
  (`StepShows`): `Replace` is a `Commit` because the comparison under the publication
  lock makes the plan the current generation; `Erase` is a `Retire` because the holder
  of both locks is alone (`EraserAlone`). For the locks, `Ordered` says what is not held
  where a lock is asked for; who holds the last lock of the order waits for none.
* Review. `RInv` says what an operation that holds the lock has in hand (`Phases`),
  that generations list commands only after their base (`Based`), and how what the
  log calls applied and what took effect are related before the log knows
  (`Effects`, `Overtakes`, `AppliedListed`). The register's own invariant is stated
  beside it, since this module extends the register: a `Commit` makes the current
  generation, which is kept, the way back.
* Gateway and remote job. Each step is a ledger transaction or leaves the ledger
  alone, so all of the ledger's theorems carry over, and `IInv` may be used in the
  rest. The gateway's `GInv` adds what callers know; the remote job's `RInv` adds that
  a dispatched worker owes money until an invoice (`Owed`) and `DeletedFirst`,
  `Agreeing` over the worker's places.
* The gateway's promises. `CallInv` joins `GInv`, how the gateway uses the ledger
  (`LedgerUse`: no cancellations, no bill of a live attempt closed, no attempt complete
  but the latest), that what was saved or published was sent (`ResultsOK`), and for each
  caller what it owns at its place (`CallsOK`): a caller that sent, and whose attempt was
  not stalled, has the latest attempt to itself until that is complete or unknown
  (`SentOK`), which blocks every other admission and claim; its invoice is in the ledger
  before it goes on (`PaidOK`). The four promises are part of the induction.
  `InvoiceFirst` leaves out a caller that ends under a request where a lease ran out:
  with two prices TLC finds an earlier caller that comes late, writes its outcome on the
  retry's attempt and bills it higher, so that the retry's own invoice is refused as a
  lower total.

Only model-checked: the liveness properties `SettlesUnlessCancelled`,
`CompletionShown`, `DispatchShown`, `EveryoneEnds`, `RestartSettles`,
`CancelConfirmed`, since the provers have no ENABLED. Every safety invariant, action
property and refinement of the passing runs is a theorem. Only proved, and not a
property of a run besides: the type invariants of the lifecycle, the admission, the
gateway and the remote job, the inductive invariants, `OverspendingIsOverinvoicing`,
`NobodyWaitsInACircle`, `WayBackStaysWhole`, and the two theorems about the register.
No module declares a RECURSIVE operator.

## 5. Limits of the code the models show

Where a property names an exception, the code reaches it:

* Admission. `UploadsAgree` leaves an upload behind when the confirmation failed
  (503, also when another request's match was already found), when its removal failed,
  when the API died, and when `admit_match_job` could not open its connection: that
  call stands before the `try` (storage_jobs.py:196), so the upload stays although rule
  1 of docs/superpowers/plans/2026-09-12-full-project-remediation.md (Task 10) has any
  failure before the commit remove it. `DispatchShown` leaves out an unhandled error of
  `runner.admit` (match_ingest_routes.py:128-136): the answer is 500, the row stays
  "dispatching", repeated requests are told "reused", and nothing dispatches the job.
  The same holds after a death of the API between the commit and the dispatch.
* Lifecycle. A cancellation between `update_job`'s check of the flag and its write
  (storage_jobs.py:345-353, 379) is turned into "cancelling" by the ledger without an
  error: the worker ends without confirming, and only a reclaim at the next start of
  the API ends the attempt. `CancelConfirmed` of the remote job therefore asks it only
  of a worker that has not decided how its job ends.
* Gateway. A duplicate whose evidence went stale commits "failed, free of charge" on
  the latest attempt (provider_gateway.py:355-362, 459-466), also when another caller
  dispatched it and its lease ran out: its bill is closed at zero and a retry may pay
  again. The properties name such requests (`stalled`). An attempt that was running at
  a kill stays "running" if its lease had not run out at the next start. A completed
  call whose publication is refused as stale leaves a key without result, and every
  retry of it is refused until an operator reconciles. Stale is also what only
  `updatedAt` says: `update_match_status` (storage.py:403-426), `mark_dispatch_failed`
  (storage_jobs.py:327) and the rollback of a remote import (storage_remote.py:222-237)
  write it without the publication lock, so an answer that was paid for is dropped
  although generation and settings are the same, and between comparison and claim
  (provider_gateway.py:354-366, 457-470) the revision itself may become out of date.
  `CurrentOnly` therefore speaks of generation and settings, not of the revision.
* Review. A recomputation lists commands that are committed but not yet applied
  (generations.py:456-461); `repair_commands` then calls them applied although no
  generation shows them (`overtaken`). A generation that was committed and cannot be
  read back at once marks its commands failed (generations.py:608), and repair refuses
  until another publication (`misread`).
* Generations. A retention after one that died may select an ancestor that is already
  removed, and its `rmtree` raises (760-779). A first publication that dies after its
  `mkdir` leaves directories without a pointer, and publish and recover then raise
  until someone removes them (152, 470-476, 653-664).
* Remote job. A rollback that succeeds restores only `_REMOTE_RESULT_FILENAMES`
  (storage_remote.py:13-29, 209-220). The import also writes `source_clock`,
  `decode_memory_policy`, `projection_policy`, `sampling_receipt`, `sampling_policy`,
  `hardware`, `detection_identity`, `tracking_identity`, `observation_identity`,
  `vid_stride_policy` and `cache_identity` (processor.py:946-985) and, for every
  artifact, `receipts/<type>.json` (storage.py:688-691): these stay those of the result
  that was taken back. The spec of 2026-09-10
  (docs/superpowers/specs/2026-09-10-streamed-full-match-results-and-live-progress-design.md:71)
  says "Any parse, identity, persistence, or analytics failure restores the previous
  match outputs". `extras` is this rest: `StoresAgree` asks that it is new under a new
  generation and nothing under the old one.
  `StoresAgree` names three failures (`broken`). "report": the row says
  "completed" before the activation (processor.py:1062, remote_worker.py:755-762);
  after a rollback, a cancellation or timeout report makes `update_job("failed")`
  raise in the handler, and the row stays "completed" over restored files.
  "activation": the backups are removed before the activation, so a failed one leaves
  new flat files under the old generation, which
  docs/superpowers/specs/2026-09-10-streamed-full-match-results-and-live-progress-design.md:71
  and the docstring at storage_remote.py:181 exclude. "restore": the rollback itself
  fails. A worker that dies inside the import leaves mixed files. A cancelled job whose
  sandbox deletion was not confirmed is recorded with a clean cleanup
  (remote_worker.py:839-856).

## 6. What is not modelled

Floating-point analysis, computer vision, GPU and segmentation workers, media decoding,
validators and policy tables without state, reads and exports, release tooling, research
scripts, the add-on and the frontend: they are numeric, sequential, or clients of what
is modelled. `PROJECT.json` lists every component with its reason; by volume they are
most of the repository. Inside the modelled components the notes there say what is left
out; the larger pieces are power loss, a second attempt with a sandbox of its own, the
sandbox's time to live, the import of legacy provider reservations, the inline backend,
and the files of review bundles beyond the generations they cite.

Candidates for further work, in order: a retry of a remote job whose first sandbox may
still be alive; an abstract promise of the ledger, "an execution that may still cost
something is never doubled", that `JobLedger` is shown to implement; the decoder
launcher's supervision of its child processes.
