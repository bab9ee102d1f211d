--------------------------- MODULE JobLifecycle ---------------------------
(***************************************************************************)
(* The life of one processing job of the local backend: the API threads    *)
(* that admit, dispatch, retry, cancel and time it out (job_routes.py,     *)
(* match_ingest_routes.py, jobs.py), and the worker processes they spawn   *)
(* (worker.py, processor.py).  They meet in one SQLite file, but in two    *)
(* places of it: the durable ledger (JobLedger, whose operations are used  *)
(* here as they are) and the jobs and matches rows that the UI shows       *)
(* (storage_jobs.py).  No transaction spans the two, and update_job alone  *)
(* is four of them, so every step below is one transaction.                *)
(*                                                                         *)
(* All of them write as the same lease owner, "job:<id>", and name the     *)
(* attempt they mean by the job: latest_attempt at the time of the call.   *)
(***************************************************************************)
EXTENDS JobLedger

CONSTANTS
  Job,          \* the job: the only request
  JobOwner,     \* the owner "job:<id>": the only owner
  Retrier,      \* POST /api/jobs/{id}/retry requests
  Canceller,    \* POST /api/jobs/{id}/cancel requests
  Prober,       \* POST /api/jobs/{id}/timeout and .../lost-connection requests
  MaxCrashes    \* bound of the model: how many processes die, of API and workers

ASSUME JobAssumption == Request = {Job} /\ Owner = {JobOwner} /\ Local = {Job} /\ 0 \in Amount
ASSUME LifecycleAssumption == MaxCrashes \in Nat

\* The request that uploads the footage; it is none of the others.
Ingest == "ingest"
ASSUME IngestAssumption == Ingest \notin Retrier \cup Canceller \cup Prober

VARIABLES
  row,       \* jobs.status
  match,     \* matches.status
  thread,    \* the API threads
  worker,    \* the worker processes, by the attempt they were dispatched for
  starts,    \* how many processes were started for each attempt
  crashes,   \* deaths of processes so far
  apiUp

ledger == <<count, attempt, bill, cancel, evidence, view>>
lifecycle == <<row, match, thread, worker, starts, crashes, apiUp>>
allVars == <<ledger, lifecycle>>

Thread == {Ingest} \cup Retrier \cup Canceller \cup Prober
Dispatch == 1 .. MaxAttempts

\* What latest_attempt returned.
NoRead == [attempt |-> <<Job, 0>>, revision |-> 0, status |-> "none"]
LatestRead == [attempt |-> Latest(Job), revision |-> attempt[Latest(Job)].revision,
               status |-> attempt[Latest(Job)].status]

At(t, pc) == apiUp /\ thread[t].pc = pc
\* A thread forgets what it read, and a process too, once it has used it.
Goto(t, pc) == thread' = [thread EXCEPT ![t] = [pc |-> pc, read |-> NoRead, claimed |-> 0]]
WorkerAt(k, pc) == worker[k].pc = pc
WorkerGoto(k, pc) ==
  worker' = [worker EXCEPT ![k].pc = pc, ![k].read = NoRead,
                           ![k].target = IF pc = "done" THEN "none" ELSE @]
\* A call of update_job(status) begins with its check of the cancel flag.
Update(k, pc, status) == worker' = [worker EXCEPT ![k].pc = pc, ![k].target = status]

\* A transition on an attempt as it was read; it raises when the attempt moved
\* on (StaleTransition) or when its status forbids it (ReconciliationRequired).
Accepted(read, target) ==
  attempt[read.attempt].revision = read.revision /\ TransitionAllowed(read.attempt, JobOwner, target)

Write(read, target, cost, noCharge) ==
  /\ Accepted(read, target)
  /\ Transition(read.attempt, JobOwner, target, cost, noCharge)
  /\ UNCHANGED <<count, cancel, evidence, view>>

-----------------------------------------------------------------------------
(* The API: admission of a match, and the dispatch it shares with retry.    *)

\* admit_match_job: the match and its job are inserted together.
AdmitRow ==
  /\ At(Ingest, "begin")
  /\ row' = "dispatching" /\ match' = "processing"
  /\ Goto(Ingest, "admit")
  /\ UNCHANGED <<ledger, worker, starts, crashes, apiUp>>

AdmitJob ==
  /\ At(Ingest, "admit")
  /\ Admit(Job, JobOwner, 0)
  /\ Goto(Ingest, "claim")
  /\ UNCHANGED <<row, match, worker, starts, crashes, apiUp>>

\* Only the ingest route marks the row once the job was started.
Marking(t) == IF t = Ingest THEN "mark" ELSE "done"

\* JobRunner.start: only the thread whose claim succeeds goes on to dispatch.
Claimable ==
  /\ ~attempt[Latest(Job)].dispatchStarted
  /\ attempt[Latest(Job)].status \in {"submitted"} \cup (IF cancel[Job] THEN {"cancelling"} ELSE {})

\* Variant: an attempt that another thread claimed is dispatched by this one too.
ClaimOfAnyone(t) ==
  /\ At(t, "claim")
  /\ \/ /\ \/ ClaimDispatch(Job, JobOwner)
           \/ attempt[Latest(Job)].status = "validating" /\ UNCHANGED ledger
        /\ thread' = [thread EXCEPT ![t].pc = "spawn", ![t].claimed = count[Job]]
     \/ ClaimCancelled(Job, JobOwner) /\ Goto(t, Marking(t))
     \/ ~Claimable /\ Goto(t, Marking(t)) /\ UNCHANGED ledger
  /\ UNCHANGED <<row, match, worker, starts, crashes, apiUp>>

Claim(t) ==
  /\ At(t, "claim")
  /\ \/ /\ ClaimDispatch(Job, JobOwner)
        /\ thread' = [thread EXCEPT ![t].pc = "spawn", ![t].claimed = count[Job]]
     \/ ClaimCancelled(Job, JobOwner) /\ Goto(t, Marking(t))
     \/ ~Claimable /\ Goto(t, Marking(t)) /\ UNCHANGED ledger
  /\ UNCHANGED <<row, match, worker, starts, crashes, apiUp>>

\* _spawn_worker fails before Popen, with no child, or after it, with one.
SpawnFails(t) ==
  /\ At(t, "spawn")
  /\ Goto(t, "noChild")
  /\ UNCHANGED <<ledger, row, match, worker, starts, crashes, apiUp>>

Spawn(t) ==
  /\ At(t, "spawn")
  /\ \E pc \in {Marking(t), "lost"} : Goto(t, pc)
  /\ WorkerGoto(thread[t].claimed, "start")
  /\ starts' = [starts EXCEPT ![thread[t].claimed] = @ + 1]
  /\ UNCHANGED <<ledger, row, match, crashes, apiUp>>

\* JobDispatchError, and the routes that report that a worker is gone: each
\* reads the latest attempt ...
ReadToReport(t) ==
  /\ At(t, "noChild") \/ At(t, "lost") \/ (t \in Prober /\ At(t, "begin"))
  /\ count[Job] > 0
  /\ thread' = [thread EXCEPT ![t].read = LatestRead,
                   ![t].pc = IF @ = "noChild" THEN "writeFailed" ELSE "writeUnknown"]
  /\ UNCHANGED <<ledger, row, match, worker, starts, crashes, apiUp>>

\* ... and moves it.  A write that is refused raises StaleTransition instead of
\* JobDispatchError, and the ingest route treats it as an uncertain dispatch.
Report(t) ==
  /\ At(t, "writeFailed") \/ At(t, "writeUnknown")
  /\ LET target == IF thread[t].pc = "writeFailed" THEN "failed" ELSE "outcome_unknown" IN
     \/ Write(thread[t].read, target, NoCost, target = "failed")
     \/ ~Accepted(thread[t].read, target) /\ UNCHANGED ledger
  /\ Goto(t, IF t = Ingest THEN "markFailed" ELSE "done")
  /\ UNCHANGED <<row, match, worker, starts, crashes, apiUp>>

\* Variant: mark_dispatched does not ask whether the worker was faster.
MarkUnguarded ==
  /\ At(Ingest, "mark")
  /\ Goto(Ingest, "done")
  /\ row' = "queued"
  /\ UNCHANGED <<ledger, match, worker, starts, crashes, apiUp>>

\* mark_dispatched and mark_dispatch_failed, of the ingest route only.
Mark ==
  /\ At(Ingest, "mark")
  /\ Goto(Ingest, "done")
  /\ row' = IF row = "dispatching" THEN "queued" ELSE row
  /\ UNCHANGED <<ledger, match, worker, starts, crashes, apiUp>>

MarkFailed ==
  /\ At(Ingest, "markFailed")
  /\ Goto(Ingest, "done")
  /\ IF row \in {"dispatching", "queued", "processing"}
       THEN row' = "failed" /\ match' = "failed"
       ELSE UNCHANGED <<row, match>>
  /\ UNCHANGED <<ledger, worker, starts, crashes, apiUp>>

-----------------------------------------------------------------------------
(* The API: retry and cancel.                                               *)

ReadBefore(t) ==
  /\ t \in Retrier /\ At(t, "begin")
  /\ count[Job] > 0
  /\ thread' = [thread EXCEPT ![t].pc = "admit", ![t].read = LatestRead]
  /\ UNCHANGED <<ledger, row, match, worker, starts, crashes, apiUp>>

\* admit(mode="retry"): a new attempt; or the present one, which this thread
\* then dispatches as well if it is new to it; or a refusal.
RetryRefused ==
  \/ count[Job] = MaxAttempts
  \/ attempt[Latest(Job)].status = "outcome_unknown"
  \/ \E a \in AttemptsOf(Job) : Uncertain(a)

RetryAdmit(t) ==
  /\ t \in Retrier /\ At(t, "admit")
  /\ LET status == attempt[Latest(Job)].status IN
     \/ Admit(Job, JobOwner, 0) /\ Goto(t, "reset")
     \/ /\ status \in Live \cup {"complete"}
        /\ Goto(t, IF status = "submitted" /\ Latest(Job) # thread[t].read.attempt
                     THEN "reset" ELSE "done")
        /\ UNCHANGED ledger
     \/ /\ status \notin Live \cup {"complete"} /\ RetryRefused
        /\ Goto(t, "done")
        /\ UNCHANGED ledger
  /\ UNCHANGED <<row, match, worker, starts, crashes, apiUp>>

\* reset_job_for_retry, whatever the row says by now.
ResetRow(t) ==
  /\ At(t, "reset")
  /\ row' = "queued"
  /\ Goto(t, "claim")
  /\ UNCHANGED <<ledger, match, worker, starts, crashes, apiUp>>

Cancel(t) ==
  /\ t \in Canceller /\ At(t, "begin")
  /\ RequestCancel(Job)
  /\ Goto(t, "done")
  /\ UNCHANGED <<row, match, worker, starts, crashes, apiUp>>

-----------------------------------------------------------------------------
(* The worker process of dispatch k.                                        *)

Unstarted == [pc |-> "none", target |-> "none", read |-> NoRead, published |-> FALSE]

\* run_job renews the lease and looks at the cancel flag, then process_match
\* begins.
Start(k) ==
  /\ WorkerAt(k, "start")
  /\ attempt' = [attempt EXCEPT ![Latest(Job)].leased = TRUE]
  /\ IF cancel[Job] THEN Update(k, "fetch", "cancelled") ELSE Update(k, "check", "processing")
  /\ UNCHANGED <<count, bill, cancel, evidence, view, row, match, thread, starts, crashes, apiUp>>

\* update_job, first transaction: a cancelled job accepts nothing but that.
\* Raised by the update to "failed", in the except clause of run_job, the
\* exception has no handler left and ends the process.
Check(k) ==
  /\ WorkerAt(k, "check")
  /\ IF ~cancel[Job] THEN WorkerGoto(k, "fetch")
     ELSE IF worker[k].target = "failed" THEN WorkerGoto(k, "done")
     ELSE Update(k, "fetch", "cancelled")
  /\ UNCHANGED <<ledger, row, match, thread, starts, crashes, apiUp>>

\* Second transaction: latest_attempt.
Fetch(k) ==
  /\ WorkerAt(k, "fetch")
  /\ worker' = [worker EXCEPT ![k].pc = "write", ![k].read = LatestRead]
  /\ UNCHANGED <<ledger, row, match, thread, starts, crashes, apiUp>>

\* Third: the ledger.  Progress renews the lease of an attempt that started.
Outcome(target) == CASE target = "completed" -> "complete"
                     [] target = "processing" -> "running"
                     [] OTHER -> target

WriteOutcome(k) ==
  /\ WorkerAt(k, "write")
  /\ worker[k].target = "processing" => worker[k].read.status = "submitted"
  /\ Write(worker[k].read, Outcome(worker[k].target),
           IF worker[k].target = "processing" THEN NoCost ELSE 0, FALSE)
  /\ WorkerGoto(k, "row")
  /\ UNCHANGED <<row, match, thread, starts, crashes, apiUp>>

WriteProgress(k) ==
  /\ WorkerAt(k, "write")
  /\ worker[k].target = "processing" /\ worker[k].read.status # "submitted"
  /\ attempt' = [attempt EXCEPT ![worker[k].read.attempt].leased = TRUE]
  /\ WorkerGoto(k, "row")
  /\ UNCHANGED <<count, bill, cancel, evidence, view, row, match, thread, starts, crashes, apiUp>>

\* A refused write raises: into run_job's handler out of process_match, out of
\* the process when the handler itself was at work.
WriteRefused(k) ==
  /\ WorkerAt(k, "write")
  /\ worker[k].target = "processing" => worker[k].read.status = "submitted"
  /\ ~Accepted(worker[k].read, Outcome(worker[k].target))
  /\ WorkerGoto(k, IF worker[k].target \in {"processing", "completed"} THEN "handler" ELSE "done")
  /\ UNCHANGED <<ledger, row, match, thread, starts, crashes, apiUp>>

\* Fourth: the jobs row, unconditionally.
AfterRow(target) == CASE target = "processing" -> "work"
                      [] target = "completed" -> "done"
                      [] target = "failed" -> "matchFailed"
                      [] target = "cancelled" -> "terminate"

WriteRow(k) ==
  /\ WorkerAt(k, "row")
  /\ row' = worker[k].target
  /\ WorkerGoto(k, AfterRow(worker[k].target))
  /\ UNCHANGED <<ledger, match, thread, starts, crashes, apiUp>>

\* process_match reports progress again, publishes its generation and marks
\* the match ready, or fails before or after the publication.
Progress(k) ==
  /\ WorkerAt(k, "work")
  /\ Update(k, "check", "processing")
  /\ UNCHANGED <<ledger, row, match, thread, starts, crashes, apiUp>>

Fail(k) ==
  /\ WorkerAt(k, "work") \/ WorkerAt(k, "published")
  /\ WorkerGoto(k, "handler")
  /\ UNCHANGED <<ledger, row, match, thread, starts, crashes, apiUp>>

\* Variant: the completion is reported first, the publication comes last.
CompletedUnpublished(k) ==
  /\ WorkerAt(k, "work")
  /\ WorkerGoto(k, "published")
  /\ UNCHANGED <<ledger, row, match, thread, starts, crashes, apiUp>>

Publish(k) ==
  /\ WorkerAt(k, "work")
  /\ worker' = [worker EXCEPT ![k].pc = "published", ![k].published = TRUE]
  /\ UNCHANGED <<ledger, row, match, thread, starts, crashes, apiUp>>

MatchReady(k) ==
  /\ WorkerAt(k, "published")
  /\ match' = "ready"
  /\ Update(k, "check", "completed")
  /\ UNCHANGED <<ledger, row, thread, starts, crashes, apiUp>>

\* Variant: a failure of a job that is not cancelled is only printed.
HandleSilently(k) ==
  /\ WorkerAt(k, "handler")
  /\ IF cancel[Job] THEN Update(k, "fetch", "cancelled") ELSE WorkerGoto(k, "done")
  /\ UNCHANGED <<ledger, row, match, thread, starts, crashes, apiUp>>

\* except Exception of run_job.
Handle(k) ==
  /\ WorkerAt(k, "handler")
  /\ IF cancel[Job] THEN Update(k, "fetch", "cancelled") ELSE Update(k, "check", "failed")
  /\ UNCHANGED <<ledger, row, match, thread, starts, crashes, apiUp>>

MatchFailed(k) ==
  /\ WorkerAt(k, "matchFailed")
  /\ match' = "failed"
  /\ WorkerGoto(k, "done")
  /\ UNCHANGED <<ledger, row, thread, starts, crashes, apiUp>>

\* _confirm_cancelled goes on by the job's name: the attempt is the latest one.
Terminate(k) ==
  /\ WorkerAt(k, "terminate")
  /\ ConfirmTermination(Job, JobOwner, TRUE)
  /\ WorkerGoto(k, "cleanup")
  /\ UNCHANGED <<row, match, thread, starts, crashes, apiUp>>

Cleanup(k) ==
  /\ WorkerAt(k, "cleanup")
  /\ ConfirmCleanup(Job, JobOwner)
  /\ WorkerGoto(k, "done")
  /\ UNCHANGED <<row, match, thread, starts, crashes, apiUp>>

Alive(k) == worker[k].pc \notin {"none", "done"}

\* maintain_job_lease, for as long as run_job is inside it.
RenewLease(k) ==
  /\ Alive(k) /\ worker[k].target \in {"processing", "completed"} /\ ~WorkerAt(k, "handler")
  /\ attempt[Latest(Job)].status \in Live
  /\ Heartbeat(Latest(Job), JobOwner)
  /\ UNCHANGED lifecycle

WorkerDies(k) ==
  /\ Alive(k) /\ crashes < MaxCrashes
  /\ WorkerGoto(k, "done")
  /\ crashes' = crashes + 1
  /\ UNCHANGED <<ledger, row, match, thread, starts, apiUp>>

-----------------------------------------------------------------------------
(* The API process dies with all its threads; its start reclaims the leases *)
(* that ran out.  A request that has not begun yet comes after the restart. *)

Crash ==
  /\ apiUp /\ crashes < MaxCrashes
  /\ apiUp' = FALSE /\ crashes' = crashes + 1
  /\ thread' = [t \in Thread |-> IF thread[t].pc = "begin" THEN thread[t]
                                ELSE [pc |-> "done", read |-> NoRead, claimed |-> 0]]
  /\ UNCHANGED <<ledger, row, match, worker, starts>>

Restart ==
  /\ ~apiUp
  /\ apiUp' = TRUE
  /\ ReclaimExpired \/ (Expired = {} /\ UNCHANGED ledger)
  /\ UNCHANGED <<row, match, thread, worker, starts, crashes>>

\* With one owner a lease matters to the reclaim of a restart only.
Expire == (crashes < MaxCrashes \/ ~apiUp) /\ count[Job] > 0 /\ LeaseExpires(Latest(Job)) /\ UNCHANGED lifecycle

-----------------------------------------------------------------------------
LifecycleInit ==
  /\ Init
  /\ row = "none" /\ match = "none"
  /\ thread = [t \in Thread |-> [pc |-> "begin", read |-> NoRead, claimed |-> 0]]
  /\ worker = [k \in Dispatch |-> Unstarted]
  /\ starts = [k \in Dispatch |-> 0]
  /\ crashes = 0 /\ apiUp = TRUE

ApiStep(t) ==
  \/ Claim(t) \/ SpawnFails(t) \/ Spawn(t) \/ ReadToReport(t) \/ Report(t)
  \/ ReadBefore(t) \/ RetryAdmit(t) \/ ResetRow(t) \/ Cancel(t)

IngestStep == AdmitRow \/ AdmitJob \/ Mark \/ MarkFailed \/ ApiStep(Ingest)

Ends(k) == Fail(k) \/ Publish(k)

WorkerStep(k) ==
  \/ Start(k) \/ Check(k) \/ Fetch(k) \/ WriteOutcome(k) \/ WriteProgress(k) \/ WriteRefused(k)
  \/ WriteRow(k) \/ Progress(k) \/ Ends(k) \/ MatchReady(k) \/ Handle(k) \/ MatchFailed(k)
  \/ Terminate(k) \/ Cleanup(k)

LifecycleNext ==
  \/ IngestStep
  \/ \E t \in Thread \ {Ingest} : ApiStep(t)
  \/ \E k \in Dispatch : WorkerStep(k) \/ RenewLease(k) \/ WorkerDies(k)
  \/ Crash \/ Restart \/ Expire

LifecycleSpec == LifecycleInit /\ [][LifecycleNext]_allVars

\* Threads and processes that run go on running, a dead API is started again,
\* a footage has an end.  Nobody has to call the API, and nobody has to die.
Fairness ==
  /\ WF_allVars(IngestStep) /\ WF_allVars(Restart)
  /\ \A t \in Retrier : WF_allVars(ApiStep(t) /\ thread[t].pc # "begin")
  /\ \A k \in Dispatch : WF_allVars(WorkerStep(k)) /\ SF_allVars(Ends(k))

FairLifecycle == LifecycleSpec /\ Fairness
-----------------------------------------------------------------------------
(* What the processing of a job promises.                                   *)

Read == [attempt : {<<Job, k>> : k \in 0 .. MaxAttempts}, revision : 0 .. MaxRevision,
         status : Status \cup {"none"}]
RowStatus == {"none", "dispatching", "queued", "processing", "completed", "failed", "cancelled"}

\* Types.  At the end of every path a thread or a process is at "done".
LifecycleTypeOK ==
  /\ TypeOK
  /\ row \in RowStatus
  /\ match \in {"none", "processing", "ready", "failed"}
  /\ thread \in [Thread -> [pc : {"begin", "admit", "claim", "spawn", "noChild", "lost",
                      "writeFailed", "writeUnknown", "mark", "markFailed", "reset", "done"},
                 read : Read, claimed : 0 .. MaxAttempts]]
  /\ worker \in [Dispatch -> [pc : {"none", "start", "check", "fetch", "write", "row", "work",
                      "published", "handler", "matchFailed", "terminate", "cleanup", "done"},
                 target : RowStatus, read : Read, published : BOOLEAN]]
  /\ starts \in [Dispatch -> Nat]
  /\ crashes \in 0 .. MaxCrashes /\ apiUp \in BOOLEAN

\* A dispatch happens once and on the record: whoever races to start the same
\* attempt (two retries, a retry and a cancellation, a restart), it gets at most
\* one process, and none unless the ledger says that its dispatch started; an
\* attempt cancelled before that never runs (JobRunner.start, claim_dispatch).
DispatchedOnce ==
  \A k \in Dispatch :
    starts[k] <= (IF attempt[<<Job, k>>].dispatchStarted THEN 1 ELSE 0)

Working(k) == worker[k].pc \in {"check", "fetch", "write", "row", "work", "published"}
              /\ worker[k].target \in {"processing", "completed"}

\* One execution of the job at a time: two processes never work on the same
\* match together, whatever timeouts, deaths and restarts made the API believe.
OneExecution == \A j, k \in Dispatch : Working(j) /\ Working(k) => j = k

\* A worker moves no attempt but its own: it names the attempt by the job, and
\* by the time it writes the latest one must still be the one it was started for.
WorkerKeepsToItsAttempt ==
  [][\A k \in Dispatch : worker'[k] # worker[k] /\ starts'[k] = starts[k] =>
       \A j \in Dispatch \ {k} : attempt'[<<Job, j>>].status = attempt[<<Job, j>>].status]_allVars

\* The completion the ledger has is one of a published result.
CompleteWasPublished ==
  \A k \in Dispatch : attempt[<<Job, k>>].status = "complete" => worker[k].published

\* A completed job stays completed in the jobs row: late dispatch errors, marks
\* and replayed retries do not overwrite it.
CompletedNotReset == [][row = "completed" => row' = "completed"]_allVars

LatestStatus == IF count[Job] = 0 THEN "none" ELSE attempt[Latest(Job)].status

\* A job that nobody ever cancels comes to an end that the ledger knows, whatever
\* fails on the way: the dispatch, the report about it, the worker, the retry.
SettlesUnlessCancelled ==
  <>cancel[Job] \/ ((LatestStatus \in Live) ~> (LatestStatus \notin Live))

\* The end of a job that completed without a retry reaches the jobs row too and
\* stays there, whatever the dispatch and the routes still report afterwards.
CompletionShown == (count[Job] = 1 /\ LatestStatus = "complete") ~> (row = "completed")
=============================================================================
