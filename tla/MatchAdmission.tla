--------------------------- MODULE MatchAdmission ---------------------------
(***************************************************************************)
(* The ingest route, POST /api/matches (match_ingest_routes.create_match), *)
(* with the storage it calls: the upload becomes a file, one transaction   *)
(* inserts the match and its job, the job's first attempt is admitted and  *)
(* dispatched, and the jobs row is marked.  Clients send the same          *)
(* admission token again, at any time and also while an earlier request is *)
(* still being served; any call of the database or the disk may fail; a    *)
(* commit that raises may or may not have happened; the API may die.       *)
(*                                                                         *)
(* A request of Post stands for itself, for the name of its upload and for *)
(* the match and the job it would become: all are fresh identifiers.  The  *)
(* ledger's side of the dispatch, retries and cancellations are            *)
(* JobLifecycle's.                                                         *)
(***************************************************************************)
EXTENDS Naturals, FiniteSets

CONSTANTS
  Post,        \* the requests
  Token,       \* the values of the header Idempotency-Key; without one it is a fresh one
  Carries,     \* the token of each request
  MaxFaults,   \* bound: calls of the database, the disk or the system that fail
  MaxCrashes,  \* bound: deaths of the API
  None

ASSUME AdmissionAssumption ==
  /\ Carries \in [Post -> Token] /\ None \notin Post
  /\ MaxFaults \in Nat /\ MaxCrashes \in Nat

VARIABLES
  pc,        \* where create_match is with a request, and how it ended
  upload,    \* the file of a request in uploads/
  row,       \* jobs.status of a request's match, committed together with the match
  job,       \* the match that the handler of a request works for
  children,  \* the jobs whose worker process was started
  kept,      \* requests whose upload could not be removed
  unmarked,  \* requests that could not write the outcome of the dispatch to the row
  faults, crashes

vars == <<pc, upload, row, job, children, kept, unmarked, faults, crashes>>
files == <<upload, kept>>
rows == <<row, children, unmarked>>

\* What an answer can be: 202 with the identity of the match; 503 because the outcome
\* could not be confirmed; an error (the last with an upload nobody removes).
Ended == {"answered", "uncertain", "error", "unopened", "dead"}
Serving == {"save", "write", "admit", "discard", "confirm", "read", "dispatch", "start",
            "mark", "markFailed"}

Init ==
  /\ pc = [p \in Post |-> "begin"]
  /\ upload = [p \in Post |-> "none"]
  /\ row = [p \in Post |-> "none"]
  /\ job = [p \in Post |-> None]
  /\ children = {} /\ kept = {} /\ unmarked = {}
  /\ faults = 0 /\ crashes = 0

Admitted == {p \in Post : row[p] # "none"}
Existing(p) == {q \in Admitted : Carries[q] = Carries[p]}

Goto(p, l) == pc' = [pc EXCEPT ![p] = l]
Smooth == UNCHANGED <<faults, crashes>>
Fault == faults < MaxFaults /\ faults' = faults + 1 /\ UNCHANGED crashes

\* The identity that the handler has in hand, or answers with, from now on.
Identified(p, q, l) == job' = [job EXCEPT ![p] = q] /\ Goto(p, l)

-----------------------------------------------------------------------------
(* Before the transaction.                                                  *)

\* get_admission_by_token, before the body is saved.
Lookup(p) ==
  /\ pc[p] = "begin"
  /\ \/ Smooth /\ \E q \in Existing(p) : Identified(p, q, "answered")
     \/ Smooth /\ Existing(p) = {} /\ Goto(p, "save") /\ UNCHANGED job
     \/ Fault /\ Goto(p, "error") /\ UNCHANGED job
  /\ UNCHANGED <<files, rows>>

\* save_upload_stream: a temporary file, replaced into place when it is complete.
OpenTemporary(p) ==
  /\ pc[p] = "save" /\ Goto(p, "write")
  /\ upload' = [upload EXCEPT ![p] = "temporary"]
  /\ Smooth /\ UNCHANGED <<kept, job, rows>>

SaveUpload(p) ==
  /\ pc[p] = "write" /\ Goto(p, "admit")
  /\ upload' = [upload EXCEPT ![p] = "saved"]
  /\ Smooth /\ UNCHANGED <<kept, job, rows>>

\* The body is too large, the disk full or the file not synced: whatever exists is
\* unlinked, and an error of that is swallowed.
SaveFails(p) ==
  /\ pc[p] \in {"save", "write"} /\ Goto(p, "error")
  /\ \/ Smooth /\ upload' = [upload EXCEPT ![p] = "none"] /\ UNCHANGED kept
     \/ /\ Fault /\ pc[p] = "write"
        /\ \E f \in {"temporary", "saved"} : upload' = [upload EXCEPT ![p] = f]
        /\ kept' = kept \cup {p}
  /\ UNCHANGED <<job, rows>>

-----------------------------------------------------------------------------
(* admit_match_job.                                                         *)

\* _discard_upload, which may fail before or after the unlink.
Discarded(p) == upload' = [upload EXCEPT ![p] = "none"]
DiscardFails(p) == Discarded(p) \/ UNCHANGED upload

\* The connection is opened outside of the try block: a failure there leaves the file.
OpenFails(p) ==
  /\ pc[p] = "admit" /\ Fault /\ Goto(p, "unopened")
  /\ UNCHANGED <<files, job, rows>>

\* Variant: the token is left to the lookup before the upload.
InsertUnchecked(p) == row' = [row EXCEPT ![p] = "dispatching"]

\* Both inserts and the commit, one transaction; the token is unique in it.
Insert(p) == Existing(p) = {} /\ row' = [row EXCEPT ![p] = "dispatching"]

Commit(p) ==
  /\ pc[p] = "admit" /\ Insert(p) /\ Goto(p, "read")
  /\ Smooth /\ UNCHANGED <<files, job, children, unmarked>>

\* Any statement raises, the commit among them: the rollback undoes it, or comes late.
CommitRaises(p) ==
  /\ pc[p] = "admit" /\ Fault /\ Goto(p, "confirm")
  /\ Insert(p) \/ UNCHANGED row
  /\ UNCHANGED <<files, job, children, unmarked>>

Reuse(p) ==
  /\ pc[p] = "admit" /\ Goto(p, "discard")
  /\ \E q \in Existing(p) : job' = [job EXCEPT ![p] = q]
  /\ Smooth /\ UNCHANGED <<files, rows>>

\* The upload of the later request goes, and the earlier match is read.  Both happen
\* inside the try block: an error leads to the confirmation.
Discard(p) ==
  /\ pc[p] = "discard"
  /\ \/ Smooth /\ Discarded(p) /\ Goto(p, "answered")
     \/ Fault /\ DiscardFails(p) /\ Goto(p, "confirm")
  /\ UNCHANGED <<kept, job, rows>>

\* After an exception the database is asked what happened.
ConfirmFails(p) ==
  /\ pc[p] = "confirm" /\ Fault /\ Goto(p, "uncertain")
  /\ UNCHANGED <<files, job, rows>>

ConfirmOwn(p) ==
  /\ pc[p] = "confirm" /\ p \in Existing(p) /\ Identified(p, p, "dispatch")
  /\ Smooth /\ UNCHANGED <<files, rows>>

\* Variant: a commit that raised is taken for one that did not happen.
ConfirmRolledBack(p) ==
  /\ pc[p] = "confirm" /\ Discarded(p) /\ Identified(p, None, "error")
  /\ Smooth /\ UNCHANGED <<kept, rows>>

\* Nothing of its own was committed.  Nobody else touches the file, so the read and the
\* removal are one step.  The original error is raised again, unless there is a match.
ConfirmOther(p) ==
  /\ pc[p] = "confirm" /\ p \notin Existing(p)
  /\ \/ Smooth /\ Discarded(p) /\ UNCHANGED kept
        /\ \/ \E q \in Existing(p) : Identified(p, q, "answered")
           \/ Existing(p) = {} /\ Identified(p, None, "error")
     \/ Fault /\ DiscardFails(p) /\ kept' = kept \cup {p} /\ Identified(p, None, "error")
  /\ UNCHANGED rows

\* The committed pair is read for the answer.
ReadBack(p) ==
  /\ pc[p] = "read"
  /\ \/ Smooth /\ Identified(p, p, "dispatch")
     \/ Fault /\ Goto(p, "uncertain") /\ UNCHANGED job
  /\ UNCHANGED <<files, rows>>

-----------------------------------------------------------------------------
(* The dispatch and its outcome.                                            *)

\* runner.admit.  Its errors are not handled: 500, and the row stays as it is.
AdmitJob(p) ==
  /\ pc[p] = "dispatch"
  /\ (Smooth /\ Goto(p, "start")) \/ (Fault /\ Goto(p, "error"))
  /\ UNCHANGED <<files, job, rows>>

\* runner.start: a worker process, or none if the job was cancelled meanwhile; or an
\* error, with or without a process.
Start(p) ==
  /\ pc[p] = "start"
  /\ children' \in {children, children \cup {job[p]}}
  /\ (Smooth /\ Goto(p, "mark")) \/ (Fault /\ Goto(p, "markFailed"))
  /\ UNCHANGED <<files, job, row, unmarked>>

\* Variant: a failed dispatch is written as if the row had been marked before.
WaitingMarked(p) == IF pc[p] = "mark" THEN {"dispatching"} ELSE {"queued", "processing"}

\* mark_dispatched or mark_dispatch_failed, if the row still waits for it.  An error,
\* before or after the commit, is only logged.
Waiting(p) == IF pc[p] = "mark" THEN {"dispatching"} ELSE {"dispatching", "queued", "processing"}
Marked(p) == [row EXCEPT ![job[p]] =
  IF @ \notin Waiting(p) THEN @ ELSE IF pc[p] = "mark" THEN "queued" ELSE "failed"]

Mark(p) ==
  /\ pc[p] \in {"mark", "markFailed"} /\ Goto(p, "answered")
  /\ \/ Smooth /\ row' = Marked(p) /\ UNCHANGED unmarked
     \/ Fault /\ row' \in {row, Marked(p)} /\ unmarked' = unmarked \cup {p}
  /\ UNCHANGED <<files, job, children>>

\* The worker writes its own progress and end to the row, whatever it finds there.
Work(p) ==
  /\ p \in children /\ row[p] # "ended"
  /\ \E s \in {"processing", "ended"} : row' = [row EXCEPT ![p] = s]
  /\ Smooth /\ UNCHANGED <<pc, job, files, children, unmarked>>

\* The API dies.  Workers live on, files and rows stay; its start repairs neither.
Crash ==
  /\ crashes < MaxCrashes /\ crashes' = crashes + 1
  /\ \E p \in Post : pc[p] \in Serving
  /\ pc' = [p \in Post |-> IF pc[p] \in Serving THEN "dead" ELSE pc[p]]
  /\ UNCHANGED <<files, rows, job, faults>>

Serve(p) ==
  \/ OpenTemporary(p) \/ SaveUpload(p) \/ SaveFails(p) \/ OpenFails(p)
  \/ Commit(p) \/ CommitRaises(p) \/ Reuse(p) \/ Discard(p)
  \/ ConfirmFails(p) \/ ConfirmOwn(p) \/ ConfirmOther(p) \/ ReadBack(p)
  \/ AdmitJob(p) \/ Start(p) \/ Mark(p)

Next == (\E p \in Post : Lookup(p) \/ Serve(p) \/ Work(p)) \/ Crash

Spec == Init /\ [][Next]_vars

\* A request that is being served goes on being served; no client has to ask, and no
\* worker to make progress.
FairSpec == Spec /\ \A p \in Post : WF_vars(Serve(p))

-----------------------------------------------------------------------------
(* Properties.                                                              *)

AdmissionTypeOK ==
  /\ pc \in [Post -> {"begin"} \cup Serving \cup Ended]
  /\ upload \in [Post -> {"none", "temporary", "saved"}]
  /\ row \in [Post -> {"none", "dispatching", "queued", "processing", "ended", "failed"}]
  /\ job \in [Post -> Post \cup {None}]
  /\ children \subseteq Post /\ kept \subseteq Post /\ unmarked \subseteq Post
  /\ faults \in 0 .. MaxFaults /\ crashes \in 0 .. MaxCrashes

(* The files of uploads/ and the matches agree, also when a commit raised and *)
(* nobody knows whether it happened, and while other requests with the same   *)
(* token go on: a match has its upload, whole; and any other file belongs to  *)
(* a request that is still served.  It stays behind only when the outcome     *)
(* could not be confirmed, the removal failed, the database could not be      *)
(* opened, or the API died (rule 1 of the plan for R10).                      *)
UploadsAgree ==
  \A p \in Post :
    IF p \in Admitted THEN upload[p] = "saved"
    ELSE upload[p] # "none" =>
      pc[p] \in Serving \cup {"uncertain", "unopened", "dead"} \/ p \in kept

(* All requests with one token come to one match, started at most once and    *)
(* by the request that made it; whoever is answered is told of that match.    *)
Accepted == INSTANCE AcceptedOnce WITH
  accepted <- Admitted,
  started <- children,
  told <- [p \in Post |-> IF pc[p] = "answered" THEN job[p] ELSE None]

ImplementsAcceptance == Accepted!Spec

(* An accepted match is dispatched, or its row says that the dispatch failed; *)
(* it is left "dispatching" only where the request that made it got no 202    *)
(* answer, or the outcome could not be written.                               *)
DispatchShown ==
  \A p \in Post :
    p \in Admitted ~> row[p] # "dispatching" \/ p \in unmarked
                      \/ pc[p] \in Ended \ {"answered"}

=============================================================================
