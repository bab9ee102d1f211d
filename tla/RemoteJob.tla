----------------------------- MODULE RemoteJob ------------------------------
(***************************************************************************)
(* One job of the Daytona backend: the API dispatches it (jobs.py), a      *)
(* worker process (remote_worker.py) leases a paid GPU sandbox, runs the   *)
(* job in it, deletes it (daytona.py), and imports the result under        *)
(* backups of the flat files (storage_remote.py) into a generation that is *)
(* activated last (generations.py).  What the provider charges is not      *)
(* known, so the outcome stays unknown in the ledger until an operator     *)
(* brings an invoice.  The ledger is the module JobLedger itself: every    *)
(* step below that writes to it is one of its transactions.                *)
(***************************************************************************)
EXTENDS JobLedger

CONSTANTS
  Job,                   \* the job: the only request
  JobOwner,              \* the owner "job:<id>": the only owner
  Worker, Api, Prober,   \* who reads the attempt: the worker, the dispatching thread,
                         \* a POST .../timeout or .../lost-connection request
  MaxFaults              \* bound of the model: deaths of the worker and of the API

ASSUME RemoteAssumption ==
  /\ Request = {Job} /\ Owner = {JobOwner} /\ Local = {} /\ Provider = {}
  /\ Caller = {Worker, Api, Prober} /\ Worker # Api /\ Api # Prober /\ Worker # Prober
  /\ MaxAttempts = 1 /\ Budget[Job] > 0 /\ Budget[Job] \in Amount /\ MaxFaults \in Nat

VARIABLES
  api,       \* the dispatching thread of the API
  probed,    \* the prober has been there
  pc,        \* where the worker is
  update,    \* the call of update_job it is in: the status to write, and what follows
  got,       \* it holds a validated result that it may not use yet
  cleaned,   \* its staging and bundle directories are removed
  sandbox,   \* the sandbox at the provider
  row,       \* jobs.status
  match,     \* matches.status
  files,     \* the result files of the match that an import backs up
  extras,    \* the artifacts it writes without a backup, and its receipts of all of them
  backup,    \* copies of the old ones are kept
  pointer,   \* the generation the match shows: the old one, or the job's
  broken,    \* what failed while a failure was being handled, or at the very end
  faults

remote == <<pc, update, got, cleaned, broken>>
stored == <<sandbox, row, match, files, extras, backup, pointer>>
around == <<api, probed, faults>>
remoteVars == <<vars, remote, stored, around>>

The == <<Job, 1>>
Now == attempt[The].status

RowStatus == {"queued", "processing", "completed", "failed", "cancelled"}
Importing == {"rows", "persist", "persisted", "leave", "restore"}
Outside == {"none", "prepare", "create", "lookup", "discard", "run", "delete", "received", "import",
            "activate", "handler", "matchFailed", "finally", "lastFailed", "cancelled", "terminate",
            "cleanup", "done", "dead"}
Updating == {"check", "fetch", "write", "row"}

NoUpdate == [status |-> "none", next |-> "none"]
Updates == {NoUpdate} \cup [status : {"completed", "failed", "cancelled"}, next : Importing \cup Outside]

\* Types; and backups exist only while an import is running, unless it was interrupted.
RemoteTypeOK ==
  /\ api \in {"admit", "claim", "spawn", "noChild", "lost", "reportFailed", "reportUnknown", "done"}
  /\ probed \in BOOLEAN /\ got \in BOOLEAN /\ cleaned \in BOOLEAN
  /\ pc \in Importing \cup Outside \cup Updating
  /\ update \in Updates
  /\ sandbox \in {"none", "alive", "gone"}
  /\ row \in RowStatus /\ match \in {"processing", "ready", "failed"}
  /\ {files, extras} \subseteq {"old", "mixed", "new"} /\ pointer \in {"old", "new"}
  /\ broken \subseteq {"restore", "activation", "report"} /\ faults \in 0 .. MaxFaults
  /\ backup \in BOOLEAN
  /\ backup => pc \in Importing \cup Updating \cup {"dead"} \/ "restore" \in broken

RemoteInit ==
  /\ Init
  /\ api = "admit" /\ probed = FALSE /\ faults = 0
  /\ pc = "none" /\ update = NoUpdate /\ got = FALSE /\ cleaned = FALSE /\ broken = {}
  /\ sandbox = "none" /\ row = "queued" /\ match = "processing"
  /\ files = "old" /\ extras = "old" /\ backup = FALSE /\ pointer = "old"

-----------------------------------------------------------------------------
(* The API.                                                                 *)

ViewOf(c) == {v \in view : v.caller = c}
Accepted(v, target) ==
  v.revision = attempt[v.attempt].revision /\ TransitionAllowed(v.attempt, JobOwner, target)

Submit ==
  /\ api = "admit" /\ Admit(Job, JobOwner, Budget[Job])
  /\ api' = "claim"
  /\ UNCHANGED <<remote, stored, probed, faults>>

\* JobRunner.start.
Claim ==
  /\ api = "claim"
  /\ \/ ClaimDispatch(Job, JobOwner) /\ api' = "spawn"
     \/ ClaimCancelled(Job, JobOwner) /\ api' = "done"
     \/ /\ Now \notin {"submitted", "cancelling"} \/ attempt[The].dispatchStarted
        /\ api' = "done" /\ UNCHANGED vars
  /\ UNCHANGED <<remote, stored, probed, faults>>

\* _spawn_worker: a failure before Popen leaves no child, one after it leaves one.
Spawn ==
  /\ api = "spawn"
  /\ \/ api' = "noChild" /\ UNCHANGED pc
     \/ api' \in {"done", "lost"} /\ pc' = "prepare"
  /\ UNCHANGED <<vars, update, got, cleaned, broken, stored, probed, faults>>

ReadToReport ==
  /\ api \in {"noChild", "lost"}
  /\ ReadLatest(Api, Job)
  /\ api' = IF api = "noChild" THEN "reportFailed" ELSE "reportUnknown"
  /\ UNCHANGED <<remote, stored, probed, faults>>

Report ==
  /\ api \in {"reportFailed", "reportUnknown"}
  /\ \E v \in ViewOf(Api) :
       \/ api = "reportFailed" /\ CommitOutcome(v, JobOwner, "failed", NoCost, TRUE)
       \/ api = "reportUnknown" /\ CommitUnknown(v, JobOwner)
       \/ /\ ~Accepted(v, IF api = "reportFailed" THEN "failed" ELSE "outcome_unknown")
          /\ UNCHANGED vars
  /\ api' = "done"
  /\ UNCHANGED <<remote, stored, probed, faults>>

ProbeRead ==
  /\ ~probed /\ ViewOf(Prober) = {}
  /\ ReadLatest(Prober, Job)
  /\ UNCHANGED <<remote, stored, around>>

Probe ==
  /\ \E v \in ViewOf(Prober) :
       \/ CommitUnknown(v, JobOwner)
       \/ ~Accepted(v, "outcome_unknown") /\ UNCHANGED vars
  /\ ~probed /\ probed' = TRUE
  /\ UNCHANGED <<remote, stored, api, faults>>

Cancel ==
  /\ ~cancel[Job] /\ RequestCancel(Job)
  /\ UNCHANGED <<remote, stored, around>>

\* The operator reconciles what became unknown with the provider's final invoice.
Invoice ==
  /\ Now = "outcome_unknown"
  /\ \E outcome \in {"complete", "failed"}, n \in Amount, e \in Receipt :
       Reconcile(The, outcome, n, TRUE, e)
  /\ UNCHANGED <<remote, stored, around>>

\* The API dies and starts again.
Restart ==
  /\ faults < MaxFaults /\ faults' = faults + 1
  /\ api' = (IF api = "admit" THEN api ELSE "done") /\ UNCHANGED probed
  /\ ReclaimExpired \/ (Expired = {} /\ UNCHANGED vars)
  /\ UNCHANGED <<remote, stored>>

\* A lease matters to the restart only.
Expire == faults < MaxFaults /\ LeaseExpires(The) /\ UNCHANGED <<remote, stored, around>>

-----------------------------------------------------------------------------
(* update_job.  Progress needs nothing that another process could change in *)
(* between; an outcome is four transactions.                                *)

Goto(label) == pc' = label /\ update' = NoUpdate
Call(status, next) == pc' = "check" /\ update' = [status |-> status, next |-> next]

Renewed == IF attempt[The].leased THEN UNCHANGED vars ELSE Heartbeat(The, JobOwner)

\* Where an exception in update_job leads: out of the import through its backups, or
\* out of the failure handler, which then has not told anybody.
Raised ==
  /\ IF update.next \in Importing THEN Goto("restore") /\ UNCHANGED broken
     ELSE /\ Goto(IF update.next = "matchFailed" THEN "finally" ELSE "done")
          /\ broken' = broken \cup {"report"}

Check ==
  /\ pc = "check"
  /\ IF cancel[Job] /\ update.status # "cancelled" THEN Raised
     ELSE pc' = "fetch" /\ UNCHANGED <<update, broken>>
  /\ UNCHANGED <<vars, got, cleaned, stored, around>>

Fetch ==
  /\ pc = "fetch"
  /\ ReadLatest(Worker, Job)
  /\ pc' = "write"
  /\ UNCHANGED <<update, got, cleaned, broken, stored, around>>

\* Variant: the failure is written down as it is, with the default cost.
WriteMapped ==
  /\ pc = "write"
  /\ \E v \in ViewOf(Worker) :
       IF update.status = "failed"
         THEN CommitOutcome(v, JobOwner, "failed", 0, FALSE) /\ pc' = "row" /\ UNCHANGED <<update, broken>>
         ELSE CommitUnknown(v, JobOwner) /\ pc' = "row" /\ UNCHANGED <<update, broken>>
  /\ UNCHANGED <<got, cleaned, stored, around>>

\* ledger_outcome_unknown, remote_cost_unsettled: whatever the status says.
Write ==
  /\ pc = "write"
  /\ \E v \in ViewOf(Worker) :
       \/ CommitUnknown(v, JobOwner) /\ pc' = "row" /\ UNCHANGED <<update, broken>>
       \/ ~Accepted(v, "outcome_unknown") /\ Raised /\ UNCHANGED vars
  /\ UNCHANGED <<got, cleaned, stored, around>>

WriteRow ==
  /\ pc = "row"
  /\ row' = update.status
  /\ Goto(update.next)
  /\ UNCHANGED <<vars, got, cleaned, broken, sandbox, match, files, extras, backup, pointer, around>>

-----------------------------------------------------------------------------
(* The sandbox.                                                             *)

\* _run_remote_job begins: progress, then the bundle is built, or something fails.
Prepare ==
  /\ pc = "prepare"
  /\ \/ /\ ~cancel[Job] /\ Renewed /\ row' = "processing"
        /\ \E label \in {"create", "handler"} : Goto(label)
     \/ cancel[Job] /\ Goto("handler") /\ UNCHANGED <<vars, row>>
  /\ UNCHANGED <<got, cleaned, broken, sandbox, match, files, extras, backup, pointer, around>>

\* create: it succeeds, or fails with or without a sandbox at the provider.
Create ==
  /\ pc = "create"
  /\ \/ sandbox' = "alive" /\ \E label \in {"run", "lookup"} : Goto(label)
     \/ UNCHANGED sandbox /\ \E label \in {"lookup", "handler"} : Goto(label)
  /\ UNCHANGED <<vars, got, cleaned, broken, row, match, files, extras, backup, pointer, around>>

\* After a failed create the client asks for the sandbox by its name.  It is absent,
\* or it is found, or the question itself fails, and then it may be left alive.
Lookup ==
  /\ pc = "lookup"
  /\ \/ sandbox = "alive" /\ Goto("discard")
     \/ Goto("handler")
  /\ sandbox = "none" => pc' = "handler"
  /\ UNCHANGED <<vars, got, cleaned, broken, stored, around>>

\* _cleanup_unreturned_sandbox: confirmed, or it is left to the cleanup that every
\* sandbox gets.
Discard ==
  /\ pc = "discard"
  /\ \/ sandbox' = "gone" /\ Goto("handler")
     \/ sandbox' \in {"alive", "gone"} /\ Goto("delete")
  /\ UNCHANGED <<vars, got, cleaned, broken, row, match, files, extras, backup, pointer, around>>

\* Upload, session, download: a validated result, or an error; the polls of the session
\* raise one when the job is cancelled.
Run ==
  /\ pc = "run"
  /\ got' \in BOOLEAN
  /\ Goto("delete")
  /\ UNCHANGED <<vars, cleaned, broken, stored, around>>

\* Variant: a deletion that could not be confirmed is only logged.
DeleteOrLog ==
  /\ pc = "delete"
  /\ sandbox' \in {"alive", "gone"}
  /\ Goto(IF got THEN "received" ELSE "handler") /\ got' = FALSE
  /\ UNCHANGED <<vars, cleaned, broken, row, match, files, extras, backup, pointer, around>>

\* _cleanup: without a confirmed deletion the result is thrown away too.
Delete ==
  /\ pc = "delete"
  /\ \/ sandbox' = "gone" /\ Goto(IF got THEN "received" ELSE "handler")
     \/ sandbox' \in {sandbox, "gone"} /\ Goto("handler")
  /\ got' = FALSE
  /\ UNCHANGED <<vars, cleaned, broken, row, match, files, extras, backup, pointer, around>>

-----------------------------------------------------------------------------
(* The import.                                                              *)

\* Ownership and identity of the result are checked, and progress is reported.
AcceptResult ==
  /\ pc = "received"
  /\ \/ ~cancel[Job] /\ Renewed /\ Goto("import")
     \/ Goto("handler") /\ UNCHANGED vars
  /\ UNCHANGED <<got, cleaned, broken, stored, around>>

TakeBackup ==
  /\ pc = "import"
  /\ \/ backup' = TRUE /\ Goto("rows")
     \/ UNCHANGED backup /\ Goto("handler")
  /\ UNCHANGED <<vars, got, cleaned, broken, sandbox, row, match, files, extras, pointer, around>>

\* The raw rows and the artifacts are written over, then progress is reported.
SaveRows ==
  /\ pc = "rows"
  /\ files' = "mixed"
  /\ \/ ~cancel[Job] /\ Renewed /\ Goto("persist") /\ extras' = "mixed"
     \/ Goto("restore") /\ UNCHANGED vars /\ extras' \in {"old", "mixed"}
  /\ UNCHANGED <<got, cleaned, broken, sandbox, row, match, backup, pointer, around>>

\* The candidate is materialised, the match marked ready, the job completed.
Persist ==
  /\ pc = "persist"
  /\ \/ match' = "ready" /\ Call("completed", "persisted")
     \/ UNCHANGED match /\ Goto("restore")
  /\ UNCHANGED <<vars, got, cleaned, broken, sandbox, row, files, extras, backup, pointer, around>>

\* The last file and its receipt; staging and bundle are removed; the job is completed
\* once more.
Finish ==
  /\ pc = "persisted"
  /\ \/ files' = "new" /\ extras' = "new" /\ cleaned' = TRUE /\ Call("completed", "leave")
     \/ /\ files' \in {"mixed", "new"} /\ extras' \in {"mixed", files'}
        /\ UNCHANGED cleaned /\ Goto("restore")
  /\ UNCHANGED <<vars, got, broken, sandbox, row, match, backup, pointer, around>>

\* Variant: only the files are brought back.
RestoreFiles ==
  /\ pc = "restore"
  /\ files' = "old" /\ backup' = FALSE /\ UNCHANGED <<broken, match>>
  /\ Goto("handler")
  /\ UNCHANGED <<vars, got, cleaned, sandbox, row, extras, pointer, around>>

\* The files of _REMOTE_RESULT_FILENAMES and the match row are restored, unless that fails
\* halfway.  The other artifacts and the receipts stay as the import left them.
Restore ==
  /\ pc = "restore"
  /\ \/ files' = "old" /\ match' = "processing" /\ backup' = FALSE /\ UNCHANGED broken
     \/ broken' = broken \cup {"restore"} /\ files' \in {"mixed", "old"} /\ UNCHANGED <<match, backup>>
  /\ Goto("handler")
  /\ UNCHANGED <<vars, got, cleaned, sandbox, row, extras, pointer, around>>

RemoveBackup ==
  /\ pc = "leave"
  /\ \/ backup' = FALSE /\ Goto("activate")
     \/ Goto("restore") /\ UNCHANGED backup
  /\ UNCHANGED <<vars, got, cleaned, broken, sandbox, row, match, files, extras, pointer, around>>

\* _activate: a failure before or after the pointer was replaced finds no backups.
Activate ==
  /\ pc = "activate"
  /\ \/ pointer' = "new" /\ Goto("done") /\ UNCHANGED broken
     \/ pointer' \in {"old", "new"} /\ Goto("handler") /\ broken' = broken \cup {"activation"}
  /\ UNCHANGED <<vars, got, cleaned, sandbox, row, match, files, extras, backup, around>>

-----------------------------------------------------------------------------
(* Failure and cancellation.                                                *)

\* Variant: a cancellation is handled like any other failure.
HandleAsFailure ==
  /\ pc = "handler"
  /\ Call("failed", "matchFailed")
  /\ UNCHANGED <<vars, got, cleaned, broken, stored, around>>

Handle ==
  /\ pc = "handler"
  /\ IF cancel[Job] THEN Goto("cancelled") ELSE Call("failed", "matchFailed")
  /\ UNCHANGED <<vars, got, cleaned, broken, stored, around>>

MarkMatch ==
  /\ pc \in {"matchFailed", "lastFailed"}
  /\ match' = "failed"
  /\ Goto(IF pc = "matchFailed" THEN "finally" ELSE "done")
  /\ UNCHANGED <<vars, got, cleaned, broken, sandbox, row, files, extras, backup, pointer, around>>

\* Staging and bundle are removed; a failure to do so is a failure of the job.
Finally ==
  /\ pc = "finally"
  /\ Goto("done") \/ (~cleaned /\ Call("failed", "lastFailed"))
  /\ UNCHANGED <<vars, got, cleaned, broken, stored, around>>

\* The same for a cancelled job, whose end is then confirmed.
FinallyCancelled ==
  /\ pc = "cancelled"
  /\ Call("cancelled", "terminate")
  /\ UNCHANGED <<vars, got, cleaned, broken, stored, around>>

Terminate ==
  /\ pc = "terminate"
  /\ ConfirmTermination(Job, JobOwner, FALSE)
  /\ Goto("cleanup")
  /\ UNCHANGED <<got, cleaned, broken, stored, around>>

\* Whether the local cleanup went well is written into the attempt.
Cleanup ==
  /\ pc = "cleanup"
  /\ ConfirmCleanup(Job, JobOwner)
  /\ Goto("done")
  /\ UNCHANGED <<got, cleaned, broken, stored, around>>

\* The thread of maintain_job_lease.
RenewLease ==
  /\ pc \notin {"none", "done", "dead"} /\ Now \in Live
  /\ Heartbeat(The, JobOwner)
  /\ UNCHANGED <<remote, stored, around>>

WorkerDies ==
  /\ pc \notin {"none", "done", "dead"}
  /\ faults < MaxFaults /\ faults' = faults + 1
  /\ Goto("dead")
  /\ UNCHANGED <<vars, got, cleaned, broken, stored, api, probed>>

WorkerStep ==
  \/ Prepare \/ Create \/ Lookup \/ Discard \/ Run \/ Delete
  \/ AcceptResult \/ TakeBackup \/ SaveRows \/ Persist \/ Finish \/ Restore \/ RemoveBackup \/ Activate
  \/ Check \/ Fetch \/ Write \/ WriteRow
  \/ Handle \/ MarkMatch \/ Finally \/ FinallyCancelled \/ Terminate \/ Cleanup

RemoteNext ==
  \/ Submit \/ Claim \/ Spawn \/ ReadToReport \/ Report
  \/ ProbeRead \/ Probe \/ Cancel \/ Invoice \/ Restart \/ Expire
  \/ WorkerStep \/ RenewLease \/ WorkerDies

RemoteSpec == RemoteInit /\ [][RemoteNext]_remoteVars

\* A worker that lives goes on: every call to the provider has a timeout.
FairRemote == RemoteSpec /\ WF_remoteVars(WorkerStep)
-----------------------------------------------------------------------------
(* What a remote job promises.                                              *)

\* Once there was a sandbox, or may have been one, only an invoice closes the bill:
\* completion, failure, cancellation, a timeout report and a restart in any order
\* leave the reservation unsettled, they never assume a zero cost.
UnsettledUntilInvoice ==
  sandbox # "none" /\ bill[The].event = "final" => \E e \in evidence : e.attempt = The /\ e.kind = "final"

\* Nothing of a result is written before the deletion of the sandbox was confirmed:
\* a job that may still cost money never shows a result.
DeletedBeforeImport ==
  \/ backup \/ files # "old" \/ extras # "old"
  \/ match = "ready" \/ row = "completed" \/ pointer = "new"
  => sandbox = "gone"

\* When the worker has ended, four stores agree on what happened: the files that the
\* import backs up are all old or all new, and the generation, the match and the job's row
\* say the same, however failures, cancellations, reports and invoices fell in between.
\* What it does not back up is new beside a new generation, and beside an old one anything:
\* a rollback leaves these artifacts and receipts of the result that it takes back.  A
\* rollback that itself failed, an activation that failed behind the backups, and a failure
\* report that was refused (broken) are the other exceptions that the code leaves.
StoresAgree ==
  pc = "done" /\ broken = {} =>
    /\ files = (IF pointer = "new" THEN "new" ELSE "old")
    /\ pointer = "new" => extras = "new"
    /\ row = "completed" <=> pointer = "new"
    /\ match = "ready" <=> pointer = "new"

Busy ==
  \/ pc \in {"prepare", "create", "lookup", "discard", "run", "delete", "received", "import"} \cup Importing
  \/ pc \in Updating /\ update.next \in Importing

\* A worker that is at work when its job is cancelled brings the attempt out of
\* "cancelling", wherever the cancellation finds it; only its death voids that.
CancelConfirmed == (cancel[Job] /\ Busy) ~> (Now \notin Live \/ pc = "dead")
=============================================================================
