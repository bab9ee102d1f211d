------------------------- MODULE JobLifecycleProofs -------------------------
(***************************************************************************)
(* Proofs about the life of a local job, for any number of retries,        *)
(* cancellations, reports, attempts and deaths: the ledger's invariant     *)
(* holds among these processes too, and every attempt gets at most one     *)
(* process.  While nobody cancels, there is one execution at a time, a     *)
(* worker moves no attempt but its own, and what completed was published.  *)
(***************************************************************************)
EXTENDS JobLifecycle, JobLedgerProofs

ThreadRow ==
  [pc : {"begin", "admit", "claim", "spawn", "noChild", "lost", "writeFailed", "writeUnknown",
         "mark", "markFailed", "reset", "done"},
   read : Read, claimed : 0 .. MaxAttempts]

WorkerRow ==
  [pc : {"none", "start", "check", "fetch", "write", "row", "work", "published", "handler",
         "matchFailed", "terminate", "cleanup", "done"},
   target : RowStatus, read : Read, published : BOOLEAN]

OuterTyped ==
  /\ row \in RowStatus /\ match \in {"none", "processing", "ready", "failed"}
  /\ crashes \in 0 .. MaxCrashes /\ apiUp \in BOOLEAN

Started(k) == attempt[<<Job, k>>].dispatchStarted

\* What a thread that names an attempt knows of it.
ThreadKnows(t) ==
  /\ thread[t].pc \in {"claim", "reset", "spawn", "noChild", "lost"} => count[Job] > 0
  /\ t \in Retrier /\ thread[t].pc = "admit" => count[Job] > 0
  /\ thread[t].pc \in {"writeFailed", "writeUnknown"} => thread[t].read.attempt \in Admitted
  /\ thread[t].pc = "spawn" =>
       thread[t].claimed \in 1 .. count[Job] /\ Started(thread[t].claimed) /\ starts[thread[t].claimed] = 0

\* ... and a worker process.
WorkerKnows(k) ==
  /\ worker[k].pc # "none" => count[Job] > 0 /\ starts[k] > 0
  /\ worker[k].pc \in {"check", "fetch", "write", "row"} =>
       worker[k].target \in {"processing", "completed", "failed", "cancelled"}
  /\ worker[k].pc = "write" => worker[k].read.attempt \in Admitted

\* Who has claimed an attempt is the only one to start a process for it.
ClaimsDiffer ==
  \A t, u \in Thread :
    t # u /\ thread[t].pc = "spawn" /\ thread[u].pc = "spawn" => thread[t].claimed # thread[u].claimed

UnadmittedIdle == \A k \in Dispatch : k > count[Job] => ~Started(k)

LInv ==
  /\ IInv /\ OuterTyped
  /\ thread \in [Thread -> ThreadRow] /\ worker \in [Dispatch -> WorkerRow] /\ starts \in [Dispatch -> Nat]
  /\ \A t \in Thread : ThreadKnows(t)
  /\ \A k \in Dispatch : WorkerKnows(k)
  /\ ClaimsDiffer /\ UnadmittedIdle /\ DispatchedOnce

-----------------------------------------------------------------------------
(* The ledger below the processes.                                          *)

\* What every step of the ledger leaves to the processes that know of attempts.
LedgerStep ==
  /\ IInv'
  /\ count'[Job] >= count[Job] /\ Admitted \subseteq Admitted'
  /\ \A k \in Dispatch : Started(k) => Started(k)'
  /\ \A k \in Dispatch : k > count'[Job] /\ Started(k)' => Started(k)

LEMMA JobFacts == Job \in Request /\ JobOwner \in Owner /\ 0 \in Amount /\ Attempt = {Job} \X Dispatch
  BY JobAssumption DEF Attempt, Dispatch

\* The only request's attempts are those of the job.
LEMMA CountFacts ==
  ASSUME IInv
  PROVE  /\ count[Job] \in 0 .. MaxAttempts /\ MaxAttempts \in Nat \ {0}
         /\ \A k \in Dispatch : <<Job, k>> \in Attempt /\ (<<Job, k>> \in Admitted <=> k <= count[Job])
         /\ Admitted = {<<Job, k>> : k \in 1 .. count[Job]}
<1>1. count[Job] \in 0 .. MaxAttempts /\ MaxAttempts \in Nat \ {0}
  BY JobFacts, AttemptsAssumption DEF IInv, TypeOK
<1>2. \A k \in Dispatch : <<Job, k>> \in Attempt /\ (<<Job, k>> \in Admitted <=> k <= count[Job])
  BY JobFacts DEF Admitted
<1>3. Admitted = {<<Job, k>> : k \in 1 .. count[Job]}
  <2>1. ASSUME NEW a \in Admitted PROVE a \in {<<Job, k>> : k \in 1 .. count[Job]}
    BY <1>1, JobFacts DEF Admitted, Dispatch
  <2>2. ASSUME NEW k \in 1 .. count[Job] PROVE <<Job, k>> \in Admitted
    BY <1>1, <1>2 DEF Dispatch
  <2> QED
    BY <2>1, <2>2
<1> QED
  BY <1>1, <1>2, <1>3

LEMMA SameLedger == ASSUME IInv, UNCHANGED ledger PROVE LedgerStep
<1>1. UNCHANGED vars
  BY DEF ledger, vars
<1>2. IInv'
  BY <1>1, NextInvariant
<1>3. count' = count /\ attempt' = attempt
  BY DEF ledger
<1> QED
  BY <1>2, <1>3, CountFacts DEF LedgerStep, Started, Admitted

\* A step that changes one row without forgetting that its dispatch started.
LEMMA RowKept ==
  ASSUME IInv, IInv', NEW a \in Admitted, NEW x, attempt' = [attempt EXCEPT ![a] = x],
         attempt[a].dispatchStarted => x.dispatchStarted, count' = count
  PROVE  LedgerStep
<1>1. Admitted' = Admitted
  BY DEF Admitted
<1>2. /\ attempt'[a] = x /\ \A b \in Attempt \ {a} : attempt'[b] = attempt[b]
      /\ a \in Attempt
  BY DEF IInv, TypeOK, Admitted
<1>3. ASSUME NEW k \in Dispatch
      PROVE  (Started(k) => Started(k)') /\ (k > count'[Job] /\ Started(k)' => Started(k))
  <2>1. <<Job, k>> \in Attempt /\ (<<Job, k>> = a => ~(k > count[Job]))
    BY CountFacts DEF Dispatch
  <2> QED
    BY <1>2, <2>1 DEF Started
<1> QED
  BY <1>1, <1>3, CountFacts DEF LedgerStep

LEMMA TransitionLedger ==
  ASSUME IInv, NEW a \in Admitted, NEW target \in Status, target # "cancelling",
         NEW cost \in Amount \cup {NoCost}, NEW noCharge \in BOOLEAN,
         Transition(a, JobOwner, target, cost, noCharge), UNCHANGED <<count, cancel, evidence, view>>
  PROVE  LedgerStep
<1>1. JobOwner \in Owner \cup {NoOwner}
  BY JobFacts
<1>2. Moves(a) /\ (attempt'[a].status = "cancelling" => cancel[a[1]])
  BY <1>1, TransitionMoves
<1>3. IInv'
  BY <1>2, MoveKeepsInvariant
<1>4. attempt' = [attempt EXCEPT ![a] = Moved(attempt[a], JobOwner, Coerced(a, target))]
  BY DEF Transition
<1>5. attempt[a].dispatchStarted => Moved(attempt[a], JobOwner, Coerced(a, target)).dispatchStarted
  BY DEF Moved
<1> QED
  BY <1>3, <1>4, <1>5, RowKept

LEMMA AdmitLedger == ASSUME IInv, UnadmittedIdle, Admit(Job, JobOwner, 0) PROVE LedgerStep
<1> DEFINE new == <<Job, count[Job] + 1>>
<1>1. IInv'
  BY JobFacts, AdmitKeeps
<1>2. /\ count' = [count EXCEPT ![Job] = @ + 1] /\ count[Job] < MaxAttempts
      /\ attempt' = [attempt EXCEPT ![new] =
                   [status |-> "submitted", owner |-> JobOwner, leased |-> TRUE, revision |-> 0,
                    reconciled |-> FALSE, dispatchStarted |-> FALSE]]
  BY DEF Admit
<1>3. /\ count[Job] \in 0 .. MaxAttempts /\ MaxAttempts \in Nat /\ count'[Job] = count[Job] + 1
      /\ attempt \in [Attempt -> AttemptRow]
  BY <1>2, CountFacts, JobFacts DEF IInv, TypeOK
<1>4. Admitted \subseteq Admitted'
  BY <1>2, <1>3, JobFacts DEF Admitted, Dispatch
<1>5. ASSUME NEW k \in Dispatch, k # count[Job] + 1 PROVE attempt'[<<Job, k>>] = attempt[<<Job, k>>]
  BY <1>2, <1>3, <1>5, CountFacts
<1>6. ASSUME NEW k \in Dispatch
      PROVE  (Started(k) => Started(k)') /\ (k > count'[Job] /\ Started(k)' => Started(k))
  BY <1>3, <1>5 DEF UnadmittedIdle, Started, Dispatch
<1> QED
  BY <1>1, <1>3, <1>4, <1>6 DEF LedgerStep

LEMMA LatestFacts ==
  ASSUME IInv, count[Job] > 0
  PROVE  /\ Latest(Job) \in Admitted /\ Latest(Job) \in Attempt /\ Latest(Job) = <<Job, count[Job]>>
         /\ count[Job] \in Dispatch /\ attempt[Latest(Job)] \in AttemptRow
         /\ attempt[Latest(Job)].status \in Status
<1>1. Latest(Job) \in Admitted
  BY JobFacts, LatestAdmitted DEF IInv
<1> QED
  BY <1>1, CountFacts DEF IInv, TypeOK, StatusOK, Admitted, Latest, Dispatch

LEMMA ClaimLedger ==
  ASSUME IInv, ClaimDispatch(Job, JobOwner) \/ ClaimCancelled(Job, JobOwner)
  PROVE  LedgerStep
<1>1. count[Job] > 0
  BY DEF ClaimDispatch, ClaimCancelled
<1>2. /\ {"running", "validating", "cancelled"} \subseteq Status /\ NoCost \in Amount \cup {NoCost}
      /\ TRUE \in BOOLEAN /\ FALSE \in BOOLEAN
  BY DEF Status, Live, Running, Terminal
<1>3. CASE ClaimDispatch(Job, JobOwner)
  BY <1>1, <1>2, <1>3, LatestFacts, TransitionLedger DEF ClaimDispatch
<1>4. CASE ClaimCancelled(Job, JobOwner)
  BY <1>1, <1>2, <1>4, LatestFacts, TransitionLedger DEF ClaimCancelled
<1> QED
  BY <1>3, <1>4

LEMMA CancelLedger == ASSUME IInv, RequestCancel(Job) PROVE LedgerStep
<1>1. IInv' /\ count[Job] > 0 /\ count' = count
  BY JobFacts, RequestCancelKeeps DEF RequestCancel
<1>2. CASE UNCHANGED <<attempt, bill>>
  <2>1. Admitted' = Admitted
    BY <1>1 DEF Admitted
  <2> QED
    BY <1>1, <1>2, <2>1, CountFacts DEF LedgerStep, Started
<1>3. CASE Transition(Latest(Job), attempt[Latest(Job)].owner, "cancelling", NoCost, FALSE)
  <2>1. attempt' = [attempt EXCEPT ![Latest(Job)] =
                     Moved(attempt[Latest(Job)], attempt[Latest(Job)].owner, Coerced(Latest(Job), "cancelling"))]
    BY <1>3 DEF Transition
  <2>2. attempt[Latest(Job)].dispatchStarted =>
          Moved(attempt[Latest(Job)], attempt[Latest(Job)].owner, Coerced(Latest(Job), "cancelling")).dispatchStarted
    BY DEF Moved
  <2> QED
    BY <1>1, <2>1, <2>2, LatestFacts, RowKept
<1> QED
  BY <1>2, <1>3 DEF RequestCancel

LEMMA ConfirmLedger ==
  ASSUME IInv, ConfirmTermination(Job, JobOwner, TRUE) \/ ConfirmCleanup(Job, JobOwner)
  PROVE  LedgerStep
<1>1. IInv' /\ count[Job] > 0 /\ count' = count
  BY JobFacts, ConfirmKeeps DEF ConfirmTermination, ConfirmCleanup
<1>2. PICK target : Transition(Latest(Job), JobOwner, target, NoCost, FALSE)
  BY DEF ConfirmTermination, ConfirmCleanup
<1>3. attempt' = [attempt EXCEPT ![Latest(Job)] = Moved(attempt[Latest(Job)], JobOwner, Coerced(Latest(Job), target))]
  BY <1>2 DEF Transition
<1>4. attempt[Latest(Job)].dispatchStarted =>
        Moved(attempt[Latest(Job)], JobOwner, Coerced(Latest(Job), target)).dispatchStarted
  BY DEF Moved
<1> QED
  BY <1>1, <1>3, <1>4, LatestFacts, RowKept

LEMMA LeaseLedger ==
  ASSUME IInv, NEW a \in Admitted, NEW lease \in BOOLEAN,
         attempt' = [attempt EXCEPT ![a].leased = lease], UNCHANGED <<count, bill, cancel, evidence, view>>
  PROVE  LedgerStep
<1>1. IInv'
  BY LeaseKeeps
<1>2. a \in Attempt /\ attempt[a] \in AttemptRow
  BY DEF IInv, TypeOK, Admitted
<1>3. [attempt[a] EXCEPT !.leased = lease].dispatchStarted = attempt[a].dispatchStarted
  BY <1>2 DEF AttemptRow
<1>4. attempt' = [attempt EXCEPT ![a] = [attempt[a] EXCEPT !.leased = lease]]
  OBVIOUS
<1> QED
  BY <1>1, <1>3, <1>4, RowKept

LEMMA ReclaimLedger == ASSUME IInv, ReclaimExpired PROVE LedgerStep
<1>1. IInv' /\ count' = count
  BY ReclaimKeeps DEF ReclaimExpired
<1>2. Admitted' = Admitted
  BY <1>1 DEF Admitted
<1>3. ASSUME NEW k \in Dispatch
      PROVE  Started(k)' = Started(k)
  <2>1. attempt[<<Job, k>>] \in AttemptRow /\ <<Job, k>> \in Attempt
    BY CountFacts DEF IInv, TypeOK
  <2>2. attempt'[<<Job, k>>] \in {attempt[<<Job, k>>], Reclaimed(attempt[<<Job, k>>])}
    BY <2>1 DEF ReclaimExpired
  <2> QED
    BY <2>1, <2>2 DEF Reclaimed, AttemptRow, Started
<1> QED
  BY <1>1, <1>2, <1>3, CountFacts DEF LedgerStep

\* What latest_attempt returns, and what a thread forgets.
LEMMA ReadFacts ==
  ASSUME IInv
  PROVE  NoRead \in Read /\ (count[Job] > 0 => LatestRead \in Read /\ LatestRead.attempt = Latest(Job))
<1>1. NoRead \in Read
  BY AttemptsAssumption DEF NoRead, Read
<1>2. CASE count[Job] > 0
  <2>1. Latest(Job) \in {<<Job, k>> : k \in 0 .. MaxAttempts}
    BY CountFacts DEF Latest
  <2> QED
    BY <1>1, <1>2, <2>1, LatestFacts DEF LatestRead, Read, AttemptRow
<1> QED
  BY <1>1, <1>2

-----------------------------------------------------------------------------
(* Frames: what is left to show of a step of one thread, or of one worker.  *)

ThreadStays(t) == thread'[t] = thread[t]
WorkerStays(k) == worker'[k] = worker[k]

\* Threads and workers that stay as they are know no less after a ledger step.
LEMMA ThreadsStillKnow ==
  ASSUME LInv, LedgerStep, UNCHANGED starts, NEW t \in Thread, ThreadStays(t)
  PROVE  ThreadKnows(t)'
<1>1. count[Job] \in Int /\ count'[Job] \in Int
  BY JobFacts DEF LInv, LedgerStep, IInv, TypeOK
<1>2. ThreadKnows(t) /\ thread[t] \in ThreadRow
  BY DEF LInv
<1>3. thread[t].pc = "spawn" => thread[t].claimed \in Dispatch /\ thread[t].claimed \in 1 .. count'[Job]
  <2>1. thread[t].pc = "spawn" => thread[t].claimed \in 1 .. count[Job]
    BY <1>2 DEF ThreadKnows
  <2> QED
    BY <1>1, <2>1, CountFacts DEF LInv, LedgerStep, Dispatch
<1>4. thread[t].pc = "spawn" => Started(thread[t].claimed) /\ starts[thread[t].claimed] = 0
  BY <1>2 DEF ThreadKnows
<1>5. thread[t].pc = "spawn" => attempt'[<<Job, thread[t].claimed>>].dispatchStarted
  BY <1>3, <1>4 DEF LedgerStep, Started
<1> QED
  BY <1>1, <1>2, <1>3, <1>4, <1>5 DEF ThreadKnows, ThreadStays, LedgerStep, Started

LEMMA WorkersStillKnow ==
  ASSUME LInv, LedgerStep, UNCHANGED starts, NEW k \in Dispatch, WorkerStays(k)
  PROVE  WorkerKnows(k)'
<1>1. count[Job] \in Int /\ count'[Job] \in Int
  BY JobFacts DEF LInv, LedgerStep, IInv, TypeOK
<1> QED
  BY <1>1 DEF LInv, WorkerKnows, WorkerStays, LedgerStep

LEMMA DispatchesStay ==
  ASSUME LInv, LedgerStep, UNCHANGED starts
  PROVE  DispatchedOnce' /\ UnadmittedIdle'
<1>1. count[Job] \in Int /\ count'[Job] \in Int
  BY JobFacts DEF LInv, LedgerStep, IInv, TypeOK
<1>2. UnadmittedIdle'
  BY <1>1 DEF LInv, LedgerStep, UnadmittedIdle, Dispatch
<1>3. ASSUME NEW k \in Dispatch PROVE starts'[k] <= (IF attempt'[<<Job, k>>].dispatchStarted THEN 1 ELSE 0)
  <2>1. starts[k] \in Nat /\ starts[k] <= (IF attempt[<<Job, k>>].dispatchStarted THEN 1 ELSE 0)
    BY DEF LInv, DispatchedOnce
  <2>2. attempt[<<Job, k>>].dispatchStarted => attempt'[<<Job, k>>].dispatchStarted
    BY DEF LedgerStep, Started
  <2> QED
    BY <2>1, <2>2
<1> QED
  BY <1>2, <1>3 DEF DispatchedOnce

\* A step of one thread.
LEMMA ThreadMoves ==
  ASSUME LInv, LedgerStep, OuterTyped', UNCHANGED <<worker, starts>>,
         NEW t \in Thread, NEW x \in ThreadRow, thread' = [thread EXCEPT ![t] = x],
         ThreadKnows(t)',
         x.pc = "spawn" => \A u \in Thread \ {t} : thread[u].pc = "spawn" => thread[u].claimed # x.claimed
  PROVE  LInv'
<1>1. /\ thread' \in [Thread -> ThreadRow] /\ thread'[t] = x
      /\ \A u \in Thread \ {t} : ThreadStays(u)
  BY DEF LInv, ThreadStays
<1>2. \A u \in Thread : ThreadKnows(u)'
  BY <1>1, ThreadsStillKnow
<1>3. \A k \in Dispatch : WorkerKnows(k)'
  BY WorkersStillKnow DEF WorkerStays
<1>4. ClaimsDiffer'
  BY <1>1 DEF LInv, ClaimsDiffer, ThreadStays
<1> QED
  BY <1>1, <1>2, <1>3, <1>4, DispatchesStay DEF LInv, LedgerStep

\* A step of one worker.
LEMMA WorkerMoves ==
  ASSUME LInv, LedgerStep, OuterTyped', UNCHANGED <<thread, starts>>,
         NEW k \in Dispatch, NEW x \in WorkerRow, worker' = [worker EXCEPT ![k] = x],
         WorkerKnows(k)'
  PROVE  LInv'
<1>1. /\ worker' \in [Dispatch -> WorkerRow]
      /\ \A j \in Dispatch \ {k} : WorkerStays(j)
  BY DEF LInv, WorkerStays
<1>2. \A j \in Dispatch : WorkerKnows(j)'
  BY <1>1, WorkersStillKnow
<1>3. \A t \in Thread : ThreadKnows(t)'
  BY ThreadsStillKnow DEF ThreadStays
<1>4. ClaimsDiffer'
  BY DEF LInv, ClaimsDiffer
<1> QED
  BY <1>1, <1>2, <1>3, <1>4, DispatchesStay DEF LInv, LedgerStep

\* A step of neither.
LEMMA LedgerMoves ==
  ASSUME LInv, LedgerStep, OuterTyped', UNCHANGED <<thread, worker, starts>>
  PROVE  LInv'
<1>1. \A t \in Thread : ThreadKnows(t)'
  BY ThreadsStillKnow DEF ThreadStays
<1>2. \A k \in Dispatch : WorkerKnows(k)'
  BY WorkersStillKnow DEF WorkerStays
<1>3. ClaimsDiffer'
  BY DEF LInv, ClaimsDiffer
<1> QED
  BY <1>1, <1>2, <1>3, DispatchesStay DEF LInv, LedgerStep

\* A thread that goes on without a read.
LEMMA ThreadGoes ==
  ASSUME LInv, LedgerStep, OuterTyped', UNCHANGED <<worker, starts>>,
         NEW t \in Thread, NEW pc \in {"begin", "admit", "claim", "noChild", "lost", "mark", "markFailed", "reset", "done"},
         Goto(t, pc),
         pc \in {"claim", "reset", "noChild", "lost"} \/ (pc = "admit" /\ t \in Retrier) => count'[Job] > 0
  PROVE  LInv'
<1> DEFINE x == [pc |-> pc, read |-> NoRead, claimed |-> 0]
<1>1. x \in ThreadRow
  BY ReadFacts, AttemptsAssumption DEF LInv, ThreadRow
<1>2. thread' = [thread EXCEPT ![t] = x] /\ thread'[t] = x
  BY DEF LInv, Goto
<1>3. ThreadKnows(t)'
  BY <1>2 DEF ThreadKnows
<1>4. x.pc # "spawn"
  OBVIOUS
<1> HIDE DEF x
<1> QED
  BY <1>1, <1>2, <1>3, <1>4, ThreadMoves

-----------------------------------------------------------------------------
(* The API.                                                                 *)

LEMMA IngestKeeps == ASSUME LInv, AdmitRow \/ AdmitJob \/ Mark \/ MarkFailed PROVE LInv'
<1>1. Ingest \in Thread /\ Ingest \notin Retrier
  BY IngestAssumption DEF Thread
<1>2. CASE AdmitRow
  <2>1. LedgerStep /\ OuterTyped'
    BY <1>2, SameLedger DEF LInv, OuterTyped, RowStatus, AdmitRow
  <2> QED
    BY <1>1, <1>2, <2>1, ThreadGoes DEF AdmitRow
<1>3. CASE AdmitJob
  <2>1. LedgerStep /\ OuterTyped'
    BY <1>3, AdmitLedger DEF LInv, OuterTyped, AdmitJob
  <2>2. count'[Job] > 0
    BY <1>3, JobFacts, CountFacts DEF AdmitJob, Admit, LInv, IInv, TypeOK
  <2> QED
    BY <1>1, <1>3, <2>1, <2>2, ThreadGoes DEF AdmitJob
<1>4. CASE Mark
  <2>1. LedgerStep /\ OuterTyped'
    BY <1>4, SameLedger DEF LInv, OuterTyped, RowStatus, Mark
  <2> QED
    BY <1>1, <1>4, <2>1, ThreadGoes DEF Mark
<1>5. CASE MarkFailed
  <2>1. LedgerStep /\ OuterTyped'
    BY <1>5, SameLedger DEF LInv, OuterTyped, RowStatus, MarkFailed
  <2> QED
    BY <1>1, <1>5, <2>1, ThreadGoes DEF MarkFailed
<1> QED
  BY <1>2, <1>3, <1>4, <1>5

LEMMA MarkingPc == \A t : Marking(t) \in {"mark", "done"}
  BY DEF Marking

LEMMA ClaimThreadKeeps == ASSUME LInv, NEW t \in Thread, Claim(t) PROVE LInv'
<1>1. count[Job] > 0 /\ OuterTyped'
  BY DEF LInv, ThreadKnows, Claim, At, OuterTyped
<1>2. CASE Goto(t, Marking(t)) /\ (ClaimCancelled(Job, JobOwner) \/ UNCHANGED ledger)
  <2>1. LedgerStep
    BY <1>2, ClaimLedger, SameLedger DEF LInv
  <2> QED
    BY <1>1, <1>2, <2>1, MarkingPc, ThreadGoes DEF Claim
<1>3. CASE /\ ClaimDispatch(Job, JobOwner)
           /\ thread' = [thread EXCEPT ![t].pc = "spawn", ![t].claimed = count[Job]]
  <2> DEFINE x == [thread[t] EXCEPT !.pc = "spawn", !.claimed = count[Job]]
  <2>1. LedgerStep
    BY <1>3, ClaimLedger DEF LInv
  <2>2. x \in ThreadRow /\ thread' = [thread EXCEPT ![t] = x] /\ thread'[t] = x
        /\ x.pc = "spawn" /\ x.claimed = count[Job]
    BY <1>3, CountFacts DEF LInv, ThreadRow
  <2>3. /\ ~Started(count[Job]) /\ count[Job] \in Dispatch /\ count[Job] \in Nat
        /\ count'[Job] = count[Job]
    BY <1>1, <1>3, LatestFacts DEF LInv, ClaimDispatch, Started, Dispatch
  <2>4. starts[count[Job]] = 0
    BY <2>3 DEF LInv, DispatchedOnce, Started
  <2>5. Started(count[Job])'
    <3>1. attempt' = [attempt EXCEPT ![Latest(Job)] =
                        Moved(attempt[Latest(Job)], JobOwner, Coerced(Latest(Job), "validating"))]
      BY <1>3, JobAssumption, LocalAssumption DEF ClaimDispatch, Transition
    <3>2. Coerced(Latest(Job), "validating") = "validating"
      BY <1>1, <1>3, LatestFacts DEF LInv, ClaimDispatch, Coerced, Latest
    <3>3. attempt'[Latest(Job)] = Moved(attempt[Latest(Job)], JobOwner, "validating")
      BY <1>1, <3>1, <3>2, LatestFacts DEF LInv, IInv, TypeOK
    <3>4. attempt'[<<Job, count[Job]>>].dispatchStarted
      BY <1>1, <3>3, LatestFacts DEF LInv, Moved, Running
    <3> QED
      BY <2>3, <3>4 DEF Started
  <2>6. ThreadKnows(t)'
    <3>1. thread'[t].pc = "spawn" /\ thread'[t].claimed = count[Job]
      BY <2>2
    <3>2. thread'[t].claimed \in 1 .. count'[Job] /\ count'[Job] > 0
      BY <1>1, <2>3, <3>1
    <3>3. Started(thread[t].claimed)' /\ starts'[thread'[t].claimed] = 0
      <4>1. starts' = starts
        BY DEF Claim
      <4> HIDE DEF x
      <4> QED
        BY <2>3, <2>4, <2>5, <3>1, <4>1 DEF Started
    <3> HIDE DEF x
    <3> QED
      BY <3>1, <3>2, <3>3 DEF ThreadKnows
  <2>7. \A u \in Thread \ {t} : thread[u].pc = "spawn" => thread[u].claimed # x.claimed
    BY <2>2, <2>3 DEF LInv, ThreadKnows
  <2> HIDE DEF x
  <2>8. UNCHANGED <<worker, starts>>
    BY DEF Claim
  <2> QED
    BY <1>1, <2>1, <2>2, <2>6, <2>7, <2>8, ThreadMoves
<1> QED
  BY <1>2, <1>3 DEF Claim

LEMMA SpawnKeeps == ASSUME LInv, NEW t \in Thread, Spawn(t) PROVE LInv'
<1> DEFINE k == thread[t].claimed
           x == [worker[k] EXCEPT !.pc = "start", !.read = NoRead]
<1>1. /\ k \in 1 .. count[Job] /\ k \in Dispatch /\ Started(k) /\ starts[k] = 0
      /\ count[Job] > 0 /\ thread[t].pc = "spawn" /\ worker[k] \in WorkerRow
  BY CountFacts DEF LInv, ThreadKnows, Spawn, At, Dispatch
<1>2. LedgerStep /\ OuterTyped' /\ UNCHANGED <<count, attempt>>
  BY SameLedger DEF Spawn, LInv, OuterTyped, ledger
<1>3. PICK pc \in {"mark", "done", "lost"} : thread' = [thread EXCEPT ![t] = [pc |-> pc, read |-> NoRead, claimed |-> 0]]
  BY MarkingPc DEF Spawn, Goto
<1>4. [pc |-> pc, read |-> NoRead, claimed |-> 0] \in ThreadRow
  BY ReadFacts, AttemptsAssumption DEF LInv, ThreadRow
<1>5. /\ thread' \in [Thread -> ThreadRow] /\ thread'[t].pc = pc
      /\ \A u \in Thread \ {t} : thread'[u] = thread[u]
  BY <1>3, <1>4 DEF LInv
<1>6. worker' = [worker EXCEPT ![k] = x] /\ x \in WorkerRow /\ x.pc = "start"
  BY <1>1, ReadFacts DEF LInv, Spawn, WorkerGoto, WorkerRow
<1>7. /\ worker' \in [Dispatch -> WorkerRow] /\ worker'[k] = x
      /\ \A j \in Dispatch \ {k} : worker'[j] = worker[j]
  BY <1>1, <1>6 DEF LInv
<1>8. /\ starts' \in [Dispatch -> Nat] /\ starts'[k] = 1
      /\ \A j \in Dispatch \ {k} : starts'[j] = starts[j]
  BY <1>1 DEF LInv, Spawn
<1>9. \A u \in Thread : ThreadKnows(u)'
  <2>1. ThreadKnows(t)'
    BY <1>1, <1>2, <1>5 DEF ThreadKnows
  <2>2. ASSUME NEW u \in Thread \ {t} PROVE ThreadKnows(u)'
    <3>1. thread[u].pc = "spawn" => thread[u].claimed \in Dispatch \ {k}
      <4>1. thread[u].pc = "spawn" => thread[u].claimed # k
        BY <1>1 DEF LInv, ClaimsDiffer
      <4>2. thread[u].pc = "spawn" => thread[u].claimed \in 1 .. count[Job]
        BY DEF LInv, ThreadKnows
      <4>3. thread[u].pc = "spawn" => thread[u].claimed \in Dispatch
        BY <4>2, CountFacts DEF LInv, Dispatch
      <4> QED
        BY <4>1, <4>3
    <3>2. Admitted' = Admitted
      BY <1>2 DEF Admitted
    <3>3. ThreadKnows(u)
      BY DEF LInv
    <3>4. thread[u].pc = "spawn" => starts'[thread[u].claimed] = starts[thread[u].claimed]
      BY <1>8, <3>1
    <3> QED
      BY <1>2, <1>5, <3>2, <3>3, <3>4 DEF ThreadKnows, Started
  <2> QED
    BY <2>1, <2>2
<1>10. \A j \in Dispatch : WorkerKnows(j)'
  <2>1. Admitted' = Admitted
    BY <1>2 DEF Admitted
  <2> QED
    BY <1>1, <1>2, <1>6, <1>7, <1>8, <2>1 DEF LInv, WorkerKnows
<1>11. ClaimsDiffer'
  BY <1>5 DEF LInv, ClaimsDiffer
<1>12. DispatchedOnce' /\ UnadmittedIdle'
  BY <1>1, <1>2, <1>8 DEF LInv, DispatchedOnce, UnadmittedIdle, Started
<1> QED
  BY <1>2, <1>5, <1>7, <1>8, <1>9, <1>10, <1>11, <1>12 DEF LInv, LedgerStep

LEMMA ReadToReportKeeps == ASSUME LInv, NEW t \in Thread, ReadToReport(t) \/ ReadBefore(t) PROVE LInv'
<1> DEFINE x == [thread[t] EXCEPT !.read = LatestRead, !.pc = thread'[t].pc]
<1>1. count[Job] > 0 /\ LedgerStep /\ OuterTyped' /\ UNCHANGED <<worker, starts, count>>
  BY SameLedger DEF LInv, OuterTyped, ReadToReport, ReadBefore, ledger
<1>2. LatestRead \in Read /\ LatestRead.attempt \in Admitted
  BY <1>1, ReadFacts, LatestFacts DEF LInv
<1>3. /\ thread'[t].pc \in {"admit", "writeFailed", "writeUnknown"}
      /\ thread' = [thread EXCEPT ![t] = x] /\ thread'[t] = x
      /\ x.pc \in {"admit", "writeFailed", "writeUnknown"} /\ x.read = LatestRead /\ x \in ThreadRow
  <2>1. thread \in [Thread -> ThreadRow] /\ thread[t] \in ThreadRow
    BY DEF LInv
  <2>2. PICK pc \in {"admit", "writeFailed", "writeUnknown"} :
          thread' = [thread EXCEPT ![t].read = LatestRead, ![t].pc = pc]
    BY DEF ReadToReport, ReadBefore
  <2>3. thread'[t] = [thread[t] EXCEPT !.read = LatestRead, !.pc = pc]
    BY <2>1, <2>2
  <2>4. thread'[t].pc = pc
    BY <2>1, <2>3 DEF ThreadRow
  <2>5. x = [thread[t] EXCEPT !.read = LatestRead, !.pc = pc]
    BY <2>4
  <2>6. x.pc = pc /\ x.read = LatestRead /\ x \in ThreadRow
    BY <1>2, <2>1, <2>5 DEF ThreadRow
  <2>7. thread' = [thread EXCEPT ![t] = x]
    BY <2>1, <2>2, <2>5
  <2> QED
    BY <2>3, <2>4, <2>5, <2>6, <2>7
<1>4. Admitted' = Admitted
  BY <1>1 DEF Admitted
<1>5. ThreadKnows(t)'
  BY <1>1, <1>2, <1>3, <1>4 DEF ThreadKnows
<1> HIDE DEF x
<1> QED
  BY <1>1, <1>3, <1>5, ThreadMoves

LEMMA ReportKeeps == ASSUME LInv, NEW t \in Thread, Report(t) PROVE LInv'
<1> DEFINE target == IF thread[t].pc = "writeFailed" THEN "failed" ELSE "outcome_unknown"
<1>1. OuterTyped' /\ UNCHANGED <<worker, starts>>
  BY DEF LInv, OuterTyped, Report
<1>2. \E pc \in {"markFailed", "done"} : Goto(t, pc)
  BY DEF Report
<1>3. thread[t].read.attempt \in Admitted
  BY DEF LInv, ThreadKnows, Report, At
<1>4. LedgerStep
  <2>1. CASE UNCHANGED ledger
    BY <2>1, SameLedger DEF LInv
  <2>2. CASE Write(thread[t].read, target, NoCost, target = "failed")
    <3>1. target \in Status /\ target # "cancelling" /\ (target = "failed") \in BOOLEAN
      BY DEF Status, Live, Running, Terminal
    <3> QED
      BY <1>3, <2>2, <3>1, TransitionLedger DEF LInv, Write
  <2> QED
    BY <2>1, <2>2 DEF Report
<1> QED
  BY <1>1, <1>2, <1>4, ThreadGoes

LEMMA RouteKeeps ==
  ASSUME LInv, NEW t \in Thread, SpawnFails(t) \/ RetryAdmit(t) \/ ResetRow(t) \/ Cancel(t)
  PROVE  LInv'
<1>1. CASE SpawnFails(t)
  <2>1. LedgerStep /\ OuterTyped' /\ UNCHANGED count
    BY <1>1, SameLedger DEF LInv, OuterTyped, SpawnFails, ledger
  <2>2. count'[Job] > 0
    BY <1>1, <2>1 DEF LInv, ThreadKnows, SpawnFails, At
  <2> QED
    BY <1>1, <2>1, <2>2, ThreadGoes DEF SpawnFails
<1>2. CASE RetryAdmit(t)
  <2>1. OuterTyped' /\ count[Job] > 0 /\ count[Job] \in Nat
    BY <1>2, CountFacts DEF LInv, OuterTyped, RetryAdmit, ThreadKnows, At
  <2>2. LedgerStep
    BY <1>2, AdmitLedger, SameLedger DEF LInv, RetryAdmit
  <2>3. count'[Job] \in Int /\ count'[Job] > 0
    BY <2>1, <2>2, JobFacts DEF LedgerStep, IInv, TypeOK
  <2>4. PICK pc \in {"reset", "done"} : Goto(t, pc)
    BY <1>2 DEF RetryAdmit
  <2> QED
    BY <1>2, <2>1, <2>2, <2>3, <2>4, ThreadGoes DEF RetryAdmit
<1>3. CASE ResetRow(t)
  <2>1. LedgerStep /\ OuterTyped' /\ UNCHANGED count
    BY <1>3, SameLedger DEF LInv, OuterTyped, RowStatus, ResetRow, ledger
  <2>2. count'[Job] > 0
    BY <1>3, <2>1 DEF LInv, ThreadKnows, ResetRow, At
  <2> QED
    BY <1>3, <2>1, <2>2, ThreadGoes DEF ResetRow
<1>4. CASE Cancel(t)
  <2>1. LedgerStep /\ OuterTyped'
    BY <1>4, CancelLedger DEF LInv, OuterTyped, Cancel
  <2> QED
    BY <1>4, <2>1, ThreadGoes DEF Cancel
<1> QED
  BY <1>1, <1>2, <1>3, <1>4

LEMMA ApiKeeps == ASSUME LInv, NEW t \in Thread, ApiStep(t) PROVE LInv'
  BY ClaimThreadKeeps, SpawnKeeps, ReadToReportKeeps, ReportKeeps, RouteKeeps DEF ApiStep

-----------------------------------------------------------------------------
(* The worker.                                                              *)

\* A worker that goes on without a read, or on to another call of update_job.
LEMMA WorkerGoes ==
  ASSUME LInv, LedgerStep, OuterTyped', UNCHANGED <<thread, starts>>,
         NEW k \in Dispatch, worker[k].pc # "none",
         NEW x \in WorkerRow, worker' = [worker EXCEPT ![k] = x],
         x.pc \notin {"none", "write"},
         x.pc \in {"check", "fetch", "row"} => x.target \in {"processing", "completed", "failed", "cancelled"}
  PROVE  LInv'
<1>1. count[Job] > 0 /\ starts[k] > 0
  BY DEF LInv, WorkerKnows
<1>2. count'[Job] > 0
  BY <1>1, JobFacts DEF LInv, LedgerStep, IInv, TypeOK
<1>3. worker'[k] = x
  BY DEF LInv
<1>4. WorkerKnows(k)'
  BY <1>1, <1>2, <1>3 DEF WorkerKnows
<1> QED
  BY <1>4, WorkerMoves

\* The two ways to go on.
LEMMA WorkerGotoKeeps ==
  ASSUME LInv, LedgerStep, OuterTyped', UNCHANGED <<thread, starts>>,
         NEW k \in Dispatch, worker[k].pc # "none",
         NEW pc \in {"start", "check", "fetch", "row", "work", "published", "handler",
                     "matchFailed", "terminate", "cleanup", "done"},
         WorkerGoto(k, pc),
         pc \in {"check", "fetch", "row"} => worker[k].target \in {"processing", "completed", "failed", "cancelled"}
  PROVE  LInv'
<1> DEFINE x == [worker[k] EXCEPT !.pc = pc, !.read = NoRead, !.target = IF pc = "done" THEN "none" ELSE worker[k].target]
<1>1. worker[k] \in WorkerRow /\ NoRead \in Read
  BY ReadFacts DEF LInv
<1>2. worker' = [worker EXCEPT ![k] = x]
  BY <1>1 DEF LInv, WorkerGoto
<1>3. x \in WorkerRow /\ x.pc = pc /\ (pc # "done" => x.target = worker[k].target)
  BY <1>1 DEF WorkerRow, RowStatus
<1> HIDE DEF x
<1> QED
  BY <1>2, <1>3, WorkerGoes

LEMMA UpdateKeeps ==
  ASSUME LInv, LedgerStep, OuterTyped', UNCHANGED <<thread, starts>>,
         NEW k \in Dispatch, worker[k].pc # "none",
         NEW pc \in {"check", "fetch"}, NEW status \in {"processing", "completed", "failed", "cancelled"},
         Update(k, pc, status)
  PROVE  LInv'
<1> DEFINE x == [worker[k] EXCEPT !.pc = pc, !.target = status]
<1>1. worker[k] \in WorkerRow
  BY DEF LInv
<1>2. worker' = [worker EXCEPT ![k] = x]
  BY <1>1 DEF LInv, Update
<1>3. x \in WorkerRow /\ x.pc = pc /\ x.target = status
  BY <1>1 DEF WorkerRow, RowStatus
<1> HIDE DEF x
<1> QED
  BY <1>2, <1>3, WorkerGoes

LEMMA WorkKeeps ==
  ASSUME LInv, NEW k \in Dispatch,
         Check(k) \/ WriteRefused(k) \/ WriteRow(k) \/ Progress(k) \/ Fail(k) \/ MatchReady(k) \/ Handle(k)
         \/ MatchFailed(k) \/ WorkerDies(k)
  PROVE  LInv'
<1>1. LedgerStep
  BY SameLedger DEF LInv, Check, WriteRefused, WriteRow, Progress, Fail, MatchReady, Handle, MatchFailed, WorkerDies
<1>2. /\ worker[k].pc # "none" /\ UNCHANGED <<thread, starts>>
      /\ worker[k].pc \in {"check", "fetch", "write", "row"} =>
           worker[k].target \in {"processing", "completed", "failed", "cancelled"}
  BY DEF LInv, WorkerKnows, WorkerAt, Alive, Check, WriteRefused, WriteRow, Progress, Fail, MatchReady, Handle,
         MatchFailed, WorkerDies
<1>3. OuterTyped'
  BY <1>2, LifecycleAssumption DEF LInv, OuterTyped, RowStatus, WorkerAt, Check, WriteRefused, WriteRow, Progress, Fail,
         MatchReady, Handle, MatchFailed, WorkerDies
<1>4. CASE Check(k)
  <2>1. WorkerGoto(k, "fetch") \/ WorkerGoto(k, "done") \/ Update(k, "fetch", "cancelled")
    BY <1>4 DEF Check
  <2>2. worker[k].target \in {"processing", "completed", "failed", "cancelled"}
    BY <1>2, <1>4 DEF Check, WorkerAt
  <2> QED
    BY <1>1, <1>2, <1>3, <2>1, <2>2, WorkerGotoKeeps, UpdateKeeps
<1>5. CASE WriteRefused(k)
  <2>1. WorkerGoto(k, "handler") \/ WorkerGoto(k, "done")
    BY <1>5 DEF WriteRefused
  <2> QED
    BY <1>1, <1>2, <1>3, <2>1, WorkerGotoKeeps
<1>6. CASE WriteRow(k)
  <2>1. /\ AfterRow(worker[k].target) \in {"work", "done", "matchFailed", "terminate"}
        /\ WorkerGoto(k, AfterRow(worker[k].target))
    BY <1>2, <1>6 DEF WriteRow, WorkerAt, AfterRow
  <2> QED
    BY <1>1, <1>2, <1>3, <2>1, WorkerGotoKeeps
<1>7. CASE Progress(k) \/ MatchReady(k)
  <2>1. Update(k, "check", "processing") \/ Update(k, "check", "completed")
    BY <1>7 DEF Progress, MatchReady
  <2> QED
    BY <1>1, <1>2, <1>3, <2>1, UpdateKeeps
<1>8. CASE Handle(k)
  <2>1. Update(k, "fetch", "cancelled") \/ Update(k, "check", "failed")
    BY <1>8 DEF Handle
  <2> QED
    BY <1>1, <1>2, <1>3, <2>1, UpdateKeeps
<1>9. CASE Fail(k) \/ MatchFailed(k) \/ WorkerDies(k)
  <2>1. WorkerGoto(k, "handler") \/ WorkerGoto(k, "done")
    BY <1>9 DEF Fail, MatchFailed, WorkerDies
  <2> QED
    BY <1>1, <1>2, <1>3, <2>1, WorkerGotoKeeps
<1> QED
  BY <1>4, <1>5, <1>6, <1>7, <1>8, <1>9

LEMMA StartKeeps == ASSUME LInv, NEW k \in Dispatch, Start(k) PROVE LInv'
<1>1. /\ worker[k].pc # "none" /\ UNCHANGED <<thread, starts>> /\ OuterTyped' /\ count[Job] > 0
      /\ Update(k, "fetch", "cancelled") \/ Update(k, "check", "processing")
  BY DEF LInv, WorkerKnows, OuterTyped, WorkerAt, Start
<1>2. LedgerStep
  BY <1>1, LatestFacts, LeaseLedger DEF LInv, Start
<1> QED
  BY <1>1, <1>2, UpdateKeeps

LEMMA FetchKeeps == ASSUME LInv, NEW k \in Dispatch, Fetch(k) PROVE LInv'
<1> DEFINE x == [worker[k] EXCEPT !.pc = "write", !.read = LatestRead]
<1>1. /\ worker[k] \in WorkerRow /\ UNCHANGED <<thread, starts, count>> /\ OuterTyped'
      /\ count[Job] > 0 /\ starts[k] > 0
      /\ worker[k].target \in {"processing", "completed", "failed", "cancelled"}
  BY DEF LInv, WorkerKnows, OuterTyped, WorkerAt, Fetch, ledger
<1>2. LedgerStep
  BY SameLedger DEF LInv, Fetch
<1>3. LatestRead \in Read /\ LatestRead.attempt \in Admitted /\ Admitted' = Admitted
  BY <1>1, ReadFacts, LatestFacts DEF LInv, Admitted
<1>4. /\ worker' = [worker EXCEPT ![k] = x] /\ x \in WorkerRow /\ worker'[k] = x
      /\ x.pc = "write" /\ x.target = worker[k].target /\ x.read = LatestRead
  BY <1>1, <1>3 DEF LInv, Fetch, WorkerRow
<1> HIDE DEF x
<1>5. WorkerKnows(k)'
  BY <1>1, <1>3, <1>4 DEF WorkerKnows
<1> QED
  BY <1>1, <1>2, <1>4, <1>5, WorkerMoves

LEMMA PublishKeeps == ASSUME LInv, NEW k \in Dispatch, Publish(k) PROVE LInv'
<1> DEFINE x == [worker[k] EXCEPT !.pc = "published", !.published = TRUE]
<1>1. worker[k] \in WorkerRow /\ worker[k].pc # "none" /\ UNCHANGED <<thread, starts>> /\ OuterTyped' /\ LedgerStep
  BY SameLedger DEF LInv, OuterTyped, WorkerAt, Publish
<1>2. worker' = [worker EXCEPT ![k] = x] /\ x \in WorkerRow /\ x.pc = "published"
  BY <1>1 DEF LInv, Publish, WorkerRow
<1> HIDE DEF x
<1> QED
  BY <1>1, <1>2, WorkerGoes

LEMMA WriteKeeps == ASSUME LInv, NEW k \in Dispatch, WriteOutcome(k) \/ WriteProgress(k) PROVE LInv'
<1>1. /\ worker[k].pc = "write" /\ UNCHANGED <<thread, starts>> /\ OuterTyped'
      /\ WorkerGoto(k, "row") /\ worker[k].read.attempt \in Admitted
      /\ worker[k].target \in {"processing", "completed", "failed", "cancelled"}
  BY DEF LInv, WorkerKnows, OuterTyped, WorkerAt, WriteOutcome, WriteProgress
<1>2. LedgerStep
  <2>1. CASE WriteOutcome(k)
    <3>1. Outcome(worker[k].target) \in Status \ {"cancelling"}
      BY <1>1 DEF Outcome, Status, Live, Running, Terminal
    <3>2. FALSE \in BOOLEAN /\ (IF worker[k].target = "processing" THEN NoCost ELSE 0) \in Amount \cup {NoCost}
      BY JobFacts
    <3> QED
      BY <1>1, <2>1, <3>1, <3>2, TransitionLedger DEF LInv, WriteOutcome, Write
  <2>2. CASE WriteProgress(k)
    BY <1>1, <2>2, LeaseLedger DEF LInv, WriteProgress
  <2> QED
    BY <2>1, <2>2
<1> QED
  BY <1>1, <1>2, WorkerGotoKeeps

LEMMA ConfirmWorkerKeeps == ASSUME LInv, NEW k \in Dispatch, Terminate(k) \/ Cleanup(k) PROVE LInv'
<1>1. /\ worker[k].pc # "none" /\ UNCHANGED <<thread, starts>> /\ OuterTyped'
      /\ WorkerGoto(k, "cleanup") \/ WorkerGoto(k, "done")
  BY DEF LInv, OuterTyped, WorkerAt, Terminate, Cleanup
<1>2. LedgerStep
  BY ConfirmLedger DEF LInv, Terminate, Cleanup
<1> QED
  BY <1>1, <1>2, WorkerGotoKeeps

LEMMA WorkerKeeps ==
  ASSUME LInv, NEW k \in Dispatch, WorkerStep(k) \/ RenewLease(k) \/ WorkerDies(k)
  PROVE  LInv'
<1>1. CASE RenewLease(k)
  <2>1. LedgerStep
    <3>1. Latest(Job) \in Admitted
      BY <1>1, LatestFacts DEF LInv, WorkerKnows, RenewLease, Alive
    <3> QED
      BY <1>1, <3>1, LeaseLedger DEF LInv, RenewLease, Heartbeat
  <2>2. OuterTyped' /\ UNCHANGED <<thread, worker, starts>>
    BY <1>1 DEF LInv, OuterTyped, RenewLease, lifecycle
  <2> QED
    BY <2>1, <2>2, LedgerMoves
<1>2. CASE WorkerStep(k)
  BY <1>2, WorkKeeps, StartKeeps, FetchKeeps, PublishKeeps, WriteKeeps, ConfirmWorkerKeeps DEF WorkerStep, Ends
<1> QED
  BY <1>1, <1>2, WorkKeeps

-----------------------------------------------------------------------------
(* Deaths, and the whole.                                                   *)

LEMMA CrashKeeps == ASSUME LInv, Crash PROVE LInv'
<1>0. OuterTyped'
  <2>1. crashes < MaxCrashes /\ crashes' = crashes + 1 /\ apiUp' = FALSE /\ row' = row /\ match' = match
    BY DEF Crash
  <2>2. OuterTyped
    BY DEF LInv
  <2>3. crashes' \in 0 .. MaxCrashes
    BY <2>1, <2>2, LifecycleAssumption DEF OuterTyped
  <2> QED
    BY <2>1, <2>2, <2>3 DEF OuterTyped
<1>1. OuterTyped' /\ UNCHANGED <<worker, starts, count>> /\ LedgerStep
  BY <1>0, SameLedger DEF LInv, Crash, ledger
<1> DEFINE idle == [pc |-> "done", read |-> NoRead, claimed |-> 0]
<1>2. idle \in ThreadRow
  BY ReadFacts, AttemptsAssumption DEF LInv, ThreadRow
<1>3. /\ thread' \in [Thread -> ThreadRow]
      /\ \A t \in Thread : thread'[t].pc \in {"begin", "done"}
  BY <1>2 DEF LInv, Crash
<1>4. \A t \in Thread : ThreadKnows(t)'
  BY <1>3 DEF ThreadKnows
<1>5. \A k \in Dispatch : WorkerKnows(k)'
  BY <1>1, WorkersStillKnow DEF WorkerStays
<1>6. ClaimsDiffer'
  BY <1>3 DEF ClaimsDiffer
<1> QED
  BY <1>1, <1>3, <1>4, <1>5, <1>6, DispatchesStay DEF LInv, LedgerStep

LEMMA AroundKeeps == ASSUME LInv, Restart \/ Expire \/ UNCHANGED allVars PROVE LInv'
<1>1. OuterTyped' /\ UNCHANGED <<thread, worker, starts>>
  BY DEF LInv, OuterTyped, Restart, Expire, allVars, lifecycle
<1>2. LedgerStep
  <2>1. CASE Restart
    BY <2>1, SameLedger, ReclaimLedger DEF LInv, Restart
  <2>2. CASE Expire
    BY <2>2, LatestFacts, LeaseLedger DEF LInv, Expire, LeaseExpires
  <2>3. CASE UNCHANGED allVars
    BY <2>3, SameLedger DEF LInv, allVars
  <2> QED
    BY <2>1, <2>2, <2>3
<1> QED
  BY <1>1, <1>2, LedgerMoves

LEMMA LifecycleInitInvariant == LifecycleInit => LInv
<1> SUFFICES ASSUME LifecycleInit PROVE LInv
  OBVIOUS
<1>1. IInv
  BY InitInvariant DEF LifecycleInit
<1>2. NoRead \in Read /\ 0 \in 0 .. MaxAttempts
  BY <1>1, ReadFacts, AttemptsAssumption
<1>3. OuterTyped
  BY LifecycleAssumption DEF LifecycleInit, OuterTyped, RowStatus
<1>4. [pc |-> "begin", read |-> NoRead, claimed |-> 0] \in ThreadRow /\ Unstarted \in WorkerRow
  BY <1>2 DEF ThreadRow, WorkerRow, Unstarted, RowStatus
<1>5. thread \in [Thread -> ThreadRow] /\ worker \in [Dispatch -> WorkerRow] /\ starts \in [Dispatch -> Nat]
  BY <1>4 DEF LifecycleInit
<1>6. /\ \A t \in Thread : thread[t].pc = "begin"
      /\ \A k \in Dispatch : worker[k].pc = "none" /\ starts[k] = 0
  BY DEF LifecycleInit, Unstarted
<1>7. \A k \in Dispatch : ~Started(k)
  BY <1>1, CountFacts DEF LifecycleInit, Init, Started, NoAttempt
<1>8. (\A t \in Thread : ThreadKnows(t)) /\ (\A k \in Dispatch : WorkerKnows(k)) /\ ClaimsDiffer
  BY <1>6 DEF ThreadKnows, WorkerKnows, ClaimsDiffer
<1>9. UnadmittedIdle /\ DispatchedOnce
  BY <1>6, <1>7 DEF UnadmittedIdle, DispatchedOnce
<1> QED
  BY <1>1, <1>3, <1>5, <1>8, <1>9 DEF LInv

LEMMA LifecycleNextInvariant == LInv /\ [LifecycleNext]_allVars => LInv'
<1> SUFFICES ASSUME LInv, [LifecycleNext]_allVars PROVE LInv'
  OBVIOUS
<1>1. CASE IngestStep
  BY <1>1, IngestKeeps, ApiKeeps DEF IngestStep, Thread
<1>2. CASE \E t \in Thread \ {Ingest} : ApiStep(t)
  BY <1>2, ApiKeeps
<1>3. CASE \E k \in Dispatch : WorkerStep(k) \/ RenewLease(k) \/ WorkerDies(k)
  BY <1>3, WorkerKeeps
<1>4. CASE Crash \/ Restart \/ Expire \/ UNCHANGED allVars
  BY <1>4, CrashKeeps, AroundKeeps
<1> QED
  BY <1>1, <1>2, <1>3, <1>4 DEF LifecycleNext

LEMMA LifecycleInvariance == LifecycleSpec => []LInv
  BY LifecycleInitInvariant, LifecycleNextInvariant, PTL DEF LifecycleSpec

(* The invariant of the ledger holds under the API, its workers, their deaths *)
(* and the restarts: what JobLedgerProofs derives from it holds here too.      *)
THEOREM LedgerHoldsInLifecycle == LifecycleSpec => []IInv
<1>1. LInv => IInv
  BY DEF LInv
<1> QED
  BY <1>1, LifecycleInvariance, PTL

(* Threads, workers and rows stay well typed, for any number of them.         *)
THEOREM LifecycleTypeCorrect == LifecycleSpec => []LifecycleTypeOK
<1>1. LInv => LifecycleTypeOK
  BY DEF LInv, IInv, OuterTyped, ThreadRow, WorkerRow, LifecycleTypeOK
<1> QED
  BY <1>1, LifecycleInvariance, PTL

(* At most one process is ever started for an attempt, and none whose dispatch *)
(* is not on record (JobRunner.start, claim_dispatch), whoever retries, cancels,*)
(* reports or dies.                                                            *)
THEOREM AttemptDispatchedOnce == LifecycleSpec => []DispatchedOnce
<1>1. LInv => DispatchedOnce
  BY DEF LInv
<1> QED
  BY <1>1, LifecycleInvariance, PTL

-----------------------------------------------------------------------------
(* While nobody cancels: one execution at a time.                           *)

St(k) == attempt[<<Job, k>>].status

\* The latest attempt, dispatched and neither failed nor followed by another.
Open(k) ==
  k \in Dispatch /\ k = count[Job] /\ St(k) \in {"validating", "running", "complete", "outcome_unknown"}

\* A process that may still work on the match or write an outcome.
Active(w) ==
  \/ w.pc \in {"start", "check", "fetch", "write", "work", "published", "handler"}
  \/ w.pc = "row" /\ w.target # "failed"

\* A thread that claimed an attempt for which no process was started.
Owing(x) == x.pc \in {"spawn", "noChild", "writeFailed"}

\* What a process may be, as far as it alone is concerned.
Proper(k, w) ==
  /\ w.pc \notin {"terminate", "cleanup"} /\ w.target # "cancelled"
  /\ w.pc = "write" => w.read.attempt = <<Job, k>>
  /\ w.pc = "published" \/ w.target = "completed" => w.published

WorkerAlone(k) ==
  /\ Proper(k, worker[k])
  /\ Active(worker[k]) => Open(k)
  /\ St(k) = "complete" => worker[k].published

ThreadAlone(t) ==
  /\ Owing(thread[t]) => Open(count[Job]) /\ worker[count[Job]].pc = "none"
  /\ thread[t].pc = "spawn" => thread[t].claimed = count[Job]
  /\ thread[t].pc = "writeFailed" => thread[t].read.attempt = Latest(Job)

OweOnce == \A t, u \in Thread : Owing(thread[t]) /\ Owing(thread[u]) => t = u

Rest ==
  /\ ~cancel[Job]
  /\ \A k \in Dispatch : WorkerAlone(k)
  /\ \A t \in Thread : ThreadAlone(t)
  /\ OweOnce

SInv == LInv /\ Rest

\* A step of the ledger that can only make an outcome unknown.
Calm ==
  /\ count' = count /\ cancel' = cancel
  /\ \A k \in Dispatch : St(k)' \in {St(k), "outcome_unknown"}

LEMMA CalmOpen ==
  ASSUME Calm, NEW k
  PROVE  Open(k) => Open(k)'
  BY DEF Calm, Open

LEMMA SameCalm == ASSUME UNCHANGED ledger PROVE Calm
  BY DEF ledger, Calm, St

LEMMA LeaseCalm ==
  ASSUME LInv, NEW a \in Admitted, NEW lease,
         attempt' = [attempt EXCEPT ![a].leased = lease], UNCHANGED <<count, cancel>>
  PROVE  Calm /\ \A k \in Dispatch : St(k)' = St(k)
<1>1. attempt \in [Attempt -> AttemptRow]
  BY DEF LInv, IInv, TypeOK
<1>2. \A b \in Attempt : attempt'[b].status = attempt[b].status
  BY <1>1 DEF AttemptRow
<1>3. \A k \in Dispatch : <<Job, k>> \in Attempt
  BY JobFacts
<1> QED
  BY <1>2, <1>3 DEF Calm, St

\* Nobody is cancelled: a transition writes the status it names.
LEMMA TransitionStatus ==
  ASSUME LInv, ~cancel[Job], NEW k \in Dispatch, NEW o, NEW target, NEW cost, NEW noCharge,
         Transition(<<Job, k>>, o, target, cost, noCharge)
  PROVE  St(k)' = target /\ \A j \in Dispatch \ {k} : attempt'[<<Job, j>>] = attempt[<<Job, j>>]
<1>1. attempt \in [Attempt -> AttemptRow] /\ \A j \in Dispatch : <<Job, j>> \in Attempt
  BY JobFacts DEF LInv, IInv, TypeOK
<1>2. Coerced(<<Job, k>>, target) = target
  BY DEF Coerced
<1>3. attempt' = [attempt EXCEPT ![<<Job, k>>] = Moved(attempt[<<Job, k>>], o, target)]
  BY <1>2 DEF Transition
<1> QED
  BY <1>1, <1>3 DEF St, Moved

LEMMA UnknownCalm ==
  ASSUME LInv, ~cancel[Job], NEW k \in Dispatch, NEW o, NEW cost, NEW noCharge,
         Transition(<<Job, k>>, o, "outcome_unknown", cost, noCharge), UNCHANGED <<count, cancel>>
  PROVE  Calm
  BY TransitionStatus DEF Calm, St

-----------------------------------------------------------------------------
(* Frames.                                                                  *)

LEMMA WorkerCalm ==
  ASSUME Rest, Calm, NEW k \in Dispatch, worker'[k] = worker[k]
  PROVE  WorkerAlone(k)'
  BY CalmOpen DEF Rest, WorkerAlone, Proper, Active, Calm

LEMMA ThreadCalm ==
  ASSUME Rest, Calm, NEW t \in Thread, thread'[t] = thread[t],
         Owing(thread[t]) => worker'[count[Job]].pc = "none"
  PROVE  ThreadAlone(t)'
  BY CalmOpen DEF Rest, ThreadAlone, Owing, Calm, Latest

\* A step of neither.
LEMMA RestKept == ASSUME Rest, Calm, UNCHANGED <<thread, worker>> PROVE Rest'
<1>1. ~cancel'[Job]
  BY DEF Rest, Calm
<1>2. (\A k \in Dispatch : WorkerAlone(k)') /\ (\A t \in Thread : ThreadAlone(t)')
  BY WorkerCalm, ThreadCalm DEF Rest, ThreadAlone
<1> QED
  BY <1>1, <1>2 DEF Rest, OweOnce

\* A step of one worker.
LEMMA RestWorker ==
  ASSUME SInv, Calm, UNCHANGED thread, NEW k \in Dispatch, NEW x,
         worker' = [worker EXCEPT ![k] = x], worker[k].pc # "none",
         Proper(k, x), Active(x) => Active(worker[k]), worker[k].published => x.published
  PROVE  Rest'
<1>1. worker'[k] = x /\ \A j \in Dispatch \ {k} : worker'[j] = worker[j]
  BY DEF SInv, LInv
<1>2. WorkerAlone(k)'
  BY <1>1, CalmOpen DEF SInv, Rest, WorkerAlone, Proper, Active, Calm
<1>3. \A j \in Dispatch \ {k} : WorkerAlone(j)'
  BY <1>1, WorkerCalm DEF SInv
<1>4. ASSUME NEW t \in Thread PROVE ThreadAlone(t)'
  <2>1. Owing(thread[t]) => worker[count[Job]].pc = "none" /\ count[Job] \in Dispatch
    BY DEF SInv, Rest, ThreadAlone, Open
  <2>2. Owing(thread[t]) => worker'[count[Job]].pc = "none"
    BY <1>1, <2>1
  <2> QED
    BY <2>2, ThreadCalm DEF SInv
<1>5. ~cancel'[Job] /\ OweOnce'
  BY DEF SInv, Rest, Calm, OweOnce
<1> QED
  BY <1>2, <1>3, <1>4, <1>5 DEF Rest

\* A step of one thread that claims nothing.
LEMMA RestThread ==
  ASSUME SInv, Calm, UNCHANGED worker, NEW t \in Thread, NEW x,
         thread' = [thread EXCEPT ![t] = x],
         Owing(x) => Owing(thread[t]), x.pc # "spawn", x.pc = "writeFailed" => x.read.attempt = Latest(Job)
  PROVE  Rest'
<1>1. thread'[t] = x /\ \A u \in Thread \ {t} : thread'[u] = thread[u]
  BY DEF SInv, LInv
<1>2. \A k \in Dispatch : WorkerAlone(k)'
  BY WorkerCalm DEF SInv
<1>3. \A u \in Thread \ {t} : ThreadAlone(u)'
  BY <1>1, ThreadCalm DEF SInv, Rest, ThreadAlone
<1>4. ThreadAlone(t)'
  BY <1>1, CalmOpen DEF SInv, Rest, ThreadAlone, Calm, Latest
<1>5. ~cancel'[Job] /\ OweOnce'
  BY <1>1 DEF SInv, Rest, Calm, OweOnce
<1> QED
  BY <1>2, <1>3, <1>4, <1>5 DEF Rest

\* One that ends or goes on, and forgets what it read.
LEMMA RestGoto ==
  ASSUME SInv, Calm, UNCHANGED worker, NEW t \in Thread, NEW pc, Goto(t, pc),
         pc \notin {"spawn", "writeFailed"}, pc = "noChild" => Owing(thread[t])
  PROVE  Rest'
<1> DEFINE x == [pc |-> pc, read |-> NoRead, claimed |-> 0]
<1>1. thread' = [thread EXCEPT ![t] = x] /\ x.pc = pc
  BY DEF Goto
<1>2. Owing(x) => Owing(thread[t])
  BY DEF Owing
<1> HIDE DEF x
<1> QED
  BY <1>1, <1>2, RestThread

-----------------------------------------------------------------------------
(* The threads.                                                             *)

\* Where nothing is open, nobody is at work and nobody owes a process.
LEMMA NobodyBusy ==
  ASSUME SInv, ~Open(count[Job])
  PROVE  (\A k \in Dispatch : ~Active(worker[k])) /\ (\A t \in Thread : ~Owing(thread[t]))
  BY DEF SInv, Rest, WorkerAlone, ThreadAlone, Open

LEMMA AdmitRest ==
  ASSUME SInv, NEW t \in Thread, Admit(Job, JobOwner, 0), UNCHANGED worker,
         NEW pc, pc \notin {"spawn", "noChild", "writeFailed"}, Goto(t, pc)
  PROVE  Rest'
<1>1. /\ count' = [count EXCEPT ![Job] = @ + 1] /\ count[Job] < MaxAttempts /\ (count[Job] > 0 => Retryable(Job))
      /\ cancel' = [cancel EXCEPT ![Job] = FALSE]
      /\ attempt' = [attempt EXCEPT ![<<Job, count[Job] + 1>>] =
                       [status |-> "submitted", owner |-> JobOwner, leased |-> TRUE, revision |-> 0,
                        reconciled |-> FALSE, dispatchStarted |-> FALSE]]
  BY DEF Admit
<1>2. count[Job] \in 0 .. MaxAttempts /\ MaxAttempts \in Nat /\ cancel \in [Request -> BOOLEAN]
  BY CountFacts DEF SInv, LInv, IInv, TypeOK
<1>3. ~Open(count[Job])
  <2>1. CASE count[Job] > 0
    <3>1. Latest(Job) \in Admitted /\ St(count[Job]) = attempt[Latest(Job)].status
      BY <2>1, LatestFacts DEF SInv, LInv, St
    <3>2. attempt[Latest(Job)].reconciled => attempt[Latest(Job)].status \in Terminal
      BY <3>1 DEF SInv, LInv, IInv, UnknownNotReconciled
    <3> QED
      BY <1>1, <2>1, <3>1, <3>2 DEF Retryable, Open, Live, Running, Terminal
  <2>2. CASE count[Job] = 0
    BY <2>2 DEF Open, Dispatch
  <2> QED
    BY <1>2, <2>1, <2>2
<1>4. (\A k \in Dispatch : ~Active(worker[k])) /\ (\A u \in Thread : ~Owing(thread[u]))
  BY <1>3, NobodyBusy
<1>5. \A k \in Dispatch : St(k)' \in {St(k), "submitted"}
  <2>1. attempt \in [Attempt -> AttemptRow] /\ \A k \in Dispatch : <<Job, k>> \in Attempt
    BY JobFacts DEF SInv, LInv, IInv, TypeOK
  <2> QED
    BY <1>1, <2>1 DEF St
<1>6. \A k \in Dispatch : WorkerAlone(k)'
  BY <1>4, <1>5 DEF SInv, Rest, WorkerAlone
<1>7. \A u \in Thread : ~Owing(thread'[u])
  BY <1>4 DEF Goto, SInv, LInv, Owing
<1>8. ~cancel'[Job]
  BY <1>1, <1>2, JobFacts
<1> QED
  BY <1>6, <1>7, <1>8 DEF Rest, ThreadAlone, OweOnce, Owing

LEMMA ClaimRest == ASSUME SInv, NEW t \in Thread, Claim(t) PROVE Rest'
<1>1. ~cancel[Job] /\ UNCHANGED worker /\ count[Job] > 0
  BY DEF SInv, LInv, Rest, ThreadKnows, Claim, At
<1>2. CASE Goto(t, Marking(t)) /\ UNCHANGED ledger
  BY <1>1, <1>2, MarkingPc, SameCalm, RestGoto
<1>3. CASE ClaimCancelled(Job, JobOwner)
  BY <1>1, <1>3 DEF ClaimCancelled
<1>4. CASE /\ ClaimDispatch(Job, JobOwner)
           /\ thread' = [thread EXCEPT ![t].pc = "spawn", ![t].claimed = count[Job]]
  <2>1. /\ count[Job] \in Dispatch /\ Latest(Job) = <<Job, count[Job]>> /\ St(count[Job]) = "submitted"
        /\ ~Started(count[Job]) /\ Transition(<<Job, count[Job]>>, JobOwner, "validating", NoCost, FALSE)
        /\ count' = count /\ cancel' = cancel
    BY <1>1, <1>4, LatestFacts, JobAssumption, LocalAssumption DEF SInv, LInv, ClaimDispatch, St, Started
  <2>2. ~Open(count[Job])
    BY <2>1 DEF Open
  <2>3. (\A k \in Dispatch : ~Active(worker[k])) /\ (\A u \in Thread : ~Owing(thread[u]))
    BY <2>2, NobodyBusy
  <2>4. /\ St(count[Job])' = "validating"
        /\ \A j \in Dispatch \ {count[Job]} : St(j)' = St(j)
    <3>1. /\ attempt'[<<Job, count[Job]>>].status = "validating"
          /\ \A j \in Dispatch \ {count[Job]} : attempt'[<<Job, j>>] = attempt[<<Job, j>>]
      BY <1>1, <2>1, TransitionStatus DEF SInv, St
    <3> QED
      BY <2>1, <3>1 DEF St
  <2>5. worker[count[Job]].pc = "none"
    BY <2>1 DEF SInv, LInv, WorkerKnows, DispatchedOnce, Started
  <2>6. \A k \in Dispatch : WorkerAlone(k)'
    BY <1>1, <2>1, <2>3, <2>4 DEF SInv, Rest, WorkerAlone
  <2>7. /\ thread'[t].pc = "spawn" /\ thread'[t].claimed = count[Job]
        /\ \A u \in Thread \ {t} : thread'[u] = thread[u]
    <3>1. thread \in [Thread -> ThreadRow] /\ thread[t] \in ThreadRow
      BY DEF SInv, LInv
    <3>2. thread'[t] = [thread[t] EXCEPT !.pc = "spawn", !.claimed = count[Job]]
      BY <1>4, <3>1
    <3>3. \A u \in Thread \ {t} : thread'[u] = thread[u]
      BY <1>4, <3>1
    <3> QED
      BY <3>1, <3>2, <3>3 DEF ThreadRow
  <2>8. Open(count[Job])'
    BY <2>1, <2>4 DEF Open
  <2>9. \A u \in Thread : ThreadAlone(u)'
    BY <1>1, <2>1, <2>3, <2>5, <2>7, <2>8 DEF ThreadAlone, Owing
  <2>10. OweOnce' /\ ~cancel'[Job]
    BY <1>1, <2>1, <2>3, <2>7 DEF OweOnce
  <2> QED
    BY <2>6, <2>9, <2>10 DEF Rest
<1> QED
  BY <1>2, <1>3, <1>4 DEF Claim

LEMMA SpawnRest == ASSUME SInv, NEW t \in Thread, Spawn(t) PROVE Rest'
<1> DEFINE k == count[Job]
           x == [worker[k] EXCEPT !.pc = "start", !.read = NoRead]
<1>1. /\ thread[t].pc = "spawn" /\ thread[t].claimed = k /\ Open(k) /\ k \in Dispatch
      /\ worker[k] \in WorkerRow /\ UNCHANGED ledger
  BY DEF SInv, LInv, Rest, ThreadAlone, Owing, Open, Spawn, At
<1>2. worker' = [worker EXCEPT ![k] = x]
  BY <1>1 DEF SInv, LInv, Spawn, WorkerGoto
<1>3. worker'[k] = x /\ \A j \in Dispatch \ {k} : worker'[j] = worker[j]
  BY <1>1, <1>2 DEF SInv, LInv
<1>4. x.pc = "start" /\ x.target = worker[k].target /\ x.published = worker[k].published
  BY <1>1 DEF WorkerRow
<1>5. Calm
  BY <1>1, SameCalm
<1> HIDE DEF x
<1>6. WorkerAlone(k)'
  <2>1. WorkerAlone(k)
    BY <1>1 DEF SInv, Rest
  <2>2. Open(k)' /\ St(k)' = St(k) /\ k' = k
    BY <1>1 DEF Open, St, ledger
  <2>3. Proper(k, worker[k]) /\ (St(k) = "complete" => worker[k].published)
    BY <2>1 DEF WorkerAlone
  <2>4. Proper(k, x)
    BY <1>4, <2>3 DEF Proper
  <2>5. Proper(k', worker'[k'])
    BY <1>3, <2>2, <2>4
  <2> HIDE DEF k
  <2> QED
    BY <1>3, <1>4, <2>2, <2>3, <2>5 DEF WorkerAlone, Proper, St
<1>7. \A j \in Dispatch \ {k} : WorkerAlone(j)'
  BY <1>3, <1>5, WorkerCalm DEF SInv
<1>8. \A u \in Thread : ~Owing(thread'[u])
  BY <1>1, MarkingPc DEF SInv, LInv, Rest, OweOnce, Owing, Spawn, Goto
<1>9. ~cancel'[Job]
  BY <1>1 DEF SInv, Rest, ledger
<1> QED
  BY <1>1, <1>6, <1>7, <1>8, <1>9 DEF Rest, ThreadAlone, OweOnce, Owing, ledger

LEMMA ReadRest == ASSUME SInv, NEW t \in Thread, ReadToReport(t) \/ ReadBefore(t) PROVE Rest'
<1>1. thread \in [Thread -> ThreadRow] /\ thread[t] \in ThreadRow /\ UNCHANGED worker /\ Calm
  BY SameCalm DEF SInv, LInv, ReadToReport, ReadBefore
<1>2. PICK pc \in {"admit", "writeFailed", "writeUnknown"} :
        /\ thread' = [thread EXCEPT ![t].read = LatestRead, ![t].pc = pc]
        /\ pc = "writeFailed" => thread[t].pc = "noChild"
  BY DEF ReadToReport, ReadBefore
<1> DEFINE x == [thread[t] EXCEPT !.read = LatestRead, !.pc = pc]
<1>3. x.pc = pc /\ x.read = LatestRead
  BY <1>1 DEF ThreadRow
<1>4. thread' = [thread EXCEPT ![t] = x]
  BY <1>1, <1>2
<1>5. (Owing(x) => Owing(thread[t])) /\ LatestRead.attempt = Latest(Job)
  BY <1>2, <1>3 DEF Owing, LatestRead
<1> HIDE DEF x
<1> QED
  BY <1>1, <1>2, <1>3, <1>4, <1>5, RestThread

LEMMA ReportRest == ASSUME SInv, NEW t \in Thread, Report(t) PROVE Rest'
<1>1. ~cancel[Job] /\ UNCHANGED worker
  BY DEF SInv, Rest, Report
<1>2. PICK pc \in {"markFailed", "done"} : Goto(t, pc)
  BY DEF Report
<1>3. PICK k \in Dispatch : thread[t].read.attempt = <<Job, k>>
  BY JobFacts DEF SInv, LInv, ThreadKnows, Report, At, Admitted
<1>4. CASE UNCHANGED ledger
  BY <1>1, <1>2, <1>4, SameCalm, RestGoto
<1>5. CASE Write(thread[t].read, "outcome_unknown", NoCost, FALSE)
  <2>1. Calm
    BY <1>1, <1>3, <1>5, UnknownCalm DEF SInv, Write
  <2> QED
    BY <1>1, <1>2, <2>1, RestGoto
<1>6. CASE thread[t].pc = "writeFailed" /\ Write(thread[t].read, "failed", NoCost, TRUE)
  <2>1. /\ k = count[Job] /\ worker[k].pc = "none" /\ Owing(thread[t])
        /\ count' = count /\ cancel' = cancel
    BY <1>3, <1>6 DEF SInv, Rest, ThreadAlone, Owing, Latest, Write
  <2>2. St(k)' = "failed" /\ \A j \in Dispatch \ {k} : St(j)' = St(j)
    <3>1. Transition(<<Job, k>>, JobOwner, "failed", NoCost, TRUE)
      BY <1>3, <1>6 DEF Write
    <3>2. St(k)' = "failed" /\ \A j \in Dispatch \ {k} : attempt'[<<Job, j>>] = attempt[<<Job, j>>]
      BY <1>1, <3>1, TransitionStatus DEF SInv
    <3> QED
      BY <3>2 DEF St
  <2>3. \A j \in Dispatch : ~Active(worker[j])
    BY <2>1 DEF SInv, Rest, WorkerAlone, Open, Active
  <2>4. \A j \in Dispatch : WorkerAlone(j)'
    BY <1>1, <2>2, <2>3 DEF SInv, Rest, WorkerAlone
  <2>5. \A u \in Thread : ~Owing(thread'[u])
    BY <1>2, <2>1 DEF SInv, LInv, Rest, OweOnce, Owing, Goto
  <2> QED
    BY <1>1, <2>1, <2>4, <2>5 DEF Rest, ThreadAlone, OweOnce, Owing
<1> QED
  BY <1>4, <1>5, <1>6 DEF Report, At

LEMMA RouteRest ==
  ASSUME Canceller = {}, SInv, NEW t \in Thread,
         SpawnFails(t) \/ RetryAdmit(t) \/ ResetRow(t) \/ Cancel(t)
  PROVE  Rest'
<1>1. CASE RetryAdmit(t)
  BY <1>1, AdmitRest, SameCalm, RestGoto DEF RetryAdmit
<1>2. CASE SpawnFails(t)
  BY <1>2, SameCalm, RestGoto DEF SpawnFails, Owing, At
<1>3. CASE ResetRow(t)
  BY <1>3, SameCalm, RestGoto DEF ResetRow
<1>4. CASE Cancel(t)
  BY <1>4 DEF Cancel
<1> QED
  BY <1>1, <1>2, <1>3, <1>4

LEMMA ApiRest ==
  ASSUME Canceller = {}, SInv, NEW t \in Thread, ApiStep(t)
  PROVE  Rest'
  BY ClaimRest, SpawnRest, ReadRest, ReportRest, RouteRest DEF ApiStep

LEMMA IngestRest == ASSUME SInv, AdmitRow \/ AdmitJob \/ Mark \/ MarkFailed PROVE Rest'
<1>1. Ingest \in Thread
  BY DEF Thread
<1> QED
  BY <1>1, AdmitRest, SameCalm, RestGoto DEF AdmitRow, AdmitJob, Mark, MarkFailed

-----------------------------------------------------------------------------
(* The workers.                                                             *)

LEMMA RestWorkerGoto ==
  ASSUME SInv, Calm, UNCHANGED thread, NEW k \in Dispatch, worker[k].pc # "none",
         NEW pc, WorkerGoto(k, pc), pc \notin {"terminate", "cleanup", "write", "published", "start"},
         pc \in {"check", "fetch", "work", "handler"} => Active(worker[k]),
         pc = "row" => Active(worker[k]) \/ worker[k].target = "failed"
  PROVE  Rest'
<1> DEFINE x == [worker[k] EXCEPT !.pc = pc, !.read = NoRead, !.target = IF pc = "done" THEN "none" ELSE worker[k].target]
<1>1. worker[k] \in WorkerRow /\ Proper(k, worker[k])
  BY DEF SInv, LInv, Rest, WorkerAlone
<1>2. worker' = [worker EXCEPT ![k] = x]
  BY <1>1 DEF SInv, LInv, WorkerGoto
<1>3. /\ x.pc = pc /\ x.published = worker[k].published
      /\ x.target = IF pc = "done" THEN "none" ELSE worker[k].target
  BY <1>1 DEF WorkerRow
<1> HIDE DEF x
<1>4. Proper(k, x) /\ (Active(x) => Active(worker[k]))
  BY <1>1, <1>3 DEF Proper, Active
<1> QED
  BY <1>2, <1>3, <1>4, RestWorker

LEMMA RestUpdate ==
  ASSUME SInv, Calm, UNCHANGED thread, NEW k \in Dispatch,
         NEW status \in {"processing", "completed", "failed"},
         Active(worker[k]), status = "completed" => worker[k].published,
         Update(k, "check", status)
  PROVE  Rest'
<1> DEFINE x == [worker[k] EXCEPT !.pc = "check", !.target = status]
<1>1. worker[k] \in WorkerRow /\ worker[k].pc # "none"
  BY DEF SInv, LInv, Active
<1>2. worker' = [worker EXCEPT ![k] = x]
  BY <1>1 DEF SInv, LInv, Update
<1>3. x.pc = "check" /\ x.published = worker[k].published /\ x.target = status
  BY <1>1 DEF WorkerRow
<1> HIDE DEF x
<1>4. Proper(k, x)
  BY <1>3 DEF Proper
<1> QED
  BY <1>1, <1>2, <1>3, <1>4, RestWorker

LEMMA WorkRest ==
  ASSUME SInv, NEW k \in Dispatch,
         Check(k) \/ WriteRefused(k) \/ WriteRow(k) \/ Progress(k) \/ Fail(k) \/ MatchReady(k) \/ Handle(k)
         \/ MatchFailed(k) \/ WorkerDies(k)
  PROVE  Rest'
<1>1. Calm /\ UNCHANGED thread /\ worker[k].pc # "none" /\ ~cancel[Job] /\ Proper(k, worker[k])
  BY SameCalm DEF SInv, Rest, WorkerAlone, WorkerAt, Alive, Check, WriteRefused, WriteRow, Progress, Fail, MatchReady, Handle,
                  MatchFailed, WorkerDies
<1>2. CASE Check(k)
  BY <1>1, <1>2, RestWorkerGoto DEF Check, WorkerAt, Active
<1>3. CASE WriteRefused(k)
  BY <1>1, <1>3, RestWorkerGoto DEF WriteRefused, WorkerAt, Active
<1>4. CASE WriteRow(k)
  <2>1. worker[k].pc = "row" /\ worker[k].target \in {"processing", "completed", "failed"}
    BY <1>1, <1>4 DEF SInv, LInv, WorkerKnows, WriteRow, WorkerAt, Proper
  <2>2. /\ AfterRow(worker[k].target) \in {"work", "done", "matchFailed"}
        /\ AfterRow(worker[k].target) = "work" => Active(worker[k])
        /\ WorkerGoto(k, AfterRow(worker[k].target))
    BY <1>4, <2>1 DEF WriteRow, AfterRow, Active
  <2> QED
    BY <1>1, <2>2, RestWorkerGoto
<1>5. CASE Progress(k)
  BY <1>1, <1>5, RestUpdate DEF Progress, WorkerAt, Active
<1>6. CASE MatchReady(k)
  BY <1>1, <1>6, RestUpdate DEF MatchReady, WorkerAt, Active, Proper
<1>7. CASE Handle(k)
  BY <1>1, <1>7, RestUpdate DEF Handle, WorkerAt, Active
<1>8. CASE Fail(k) \/ MatchFailed(k) \/ WorkerDies(k)
  BY <1>1, <1>8, RestWorkerGoto DEF Fail, MatchFailed, WorkerDies, WorkerAt, Active
<1> QED
  BY <1>2, <1>3, <1>4, <1>5, <1>6, <1>7, <1>8

LEMMA StartRest == ASSUME SInv, NEW k \in Dispatch, Start(k) PROVE Rest'
<1>1. /\ Active(worker[k]) /\ UNCHANGED thread /\ count[Job] > 0 /\ ~cancel[Job]
      /\ Update(k, "check", "processing")
  BY DEF SInv, LInv, WorkerKnows, Rest, Active, WorkerAt, Start
<1>2. Calm
  BY <1>1, LatestFacts, LeaseCalm DEF SInv, LInv, Start
<1> QED
  BY <1>1, <1>2, RestUpdate

LEMMA FetchRest == ASSUME SInv, NEW k \in Dispatch, Fetch(k) PROVE Rest'
<1> DEFINE x == [worker[k] EXCEPT !.pc = "write", !.read = LatestRead]
<1>1. /\ worker[k] \in WorkerRow /\ worker[k].pc = "fetch" /\ Active(worker[k]) /\ UNCHANGED thread
      /\ Calm /\ Proper(k, worker[k]) /\ k = count[Job]
  BY SameCalm DEF SInv, LInv, Rest, WorkerAlone, Open, Active, WorkerAt, Fetch
<1>2. LatestRead.attempt = <<Job, k>>
  BY <1>1 DEF LatestRead, Latest
<1>3. /\ worker' = [worker EXCEPT ![k] = x] /\ x.pc = "write" /\ x.target = worker[k].target
      /\ x.read = LatestRead /\ x.published = worker[k].published
  BY <1>1 DEF SInv, LInv, Fetch, WorkerRow
<1> HIDE DEF x
<1>4. Proper(k, x)
  BY <1>1, <1>2, <1>3 DEF Proper
<1> QED
  BY <1>1, <1>3, <1>4, RestWorker

LEMMA PublishRest == ASSUME SInv, NEW k \in Dispatch, Publish(k) PROVE Rest'
<1> DEFINE x == [worker[k] EXCEPT !.pc = "published", !.published = TRUE]
<1>1. worker[k] \in WorkerRow /\ Active(worker[k]) /\ worker[k].pc # "none" /\ UNCHANGED thread /\ Calm /\ Proper(k, worker[k])
  BY SameCalm DEF SInv, LInv, Rest, WorkerAlone, Active, WorkerAt, Publish
<1>2. /\ worker' = [worker EXCEPT ![k] = x] /\ x.pc = "published" /\ x.published = TRUE
      /\ x.target = worker[k].target
  BY <1>1 DEF SInv, LInv, Publish, WorkerRow
<1> HIDE DEF x
<1>3. Proper(k, x)
  BY <1>1, <1>2 DEF Proper
<1> QED
  BY <1>1, <1>2, <1>3, RestWorker

\* A worker's target names a status that is not a cancellation.
LEMMA WriterFacts ==
  ASSUME SInv, NEW k \in Dispatch, worker[k].pc = "write"
  PROVE  /\ worker[k].target \in {"processing", "completed", "failed"} /\ worker[k].read.attempt = <<Job, k>>
         /\ k = count[Job] /\ Active(worker[k]) /\ ~cancel[Job] /\ Open(k)
         /\ worker[k].target = "completed" => worker[k].published
  BY DEF SInv, LInv, WorkerKnows, Rest, WorkerAlone, Proper, Active, Open

LEMMA OutcomeRest == ASSUME SInv, NEW k \in Dispatch, WriteOutcome(k) PROVE Rest'
<1> DEFINE x == [worker[k] EXCEPT !.pc = "row", !.read = NoRead]
           target == worker[k].target
<1>1. /\ worker[k].pc = "write" /\ target \in {"processing", "completed", "failed"}
      /\ worker[k].read.attempt = <<Job, k>> /\ k = count[Job] /\ ~cancel[Job] /\ UNCHANGED thread
      /\ target = "completed" => worker[k].published
      /\ Proper(k, worker[k]) /\ worker[k] \in WorkerRow
  BY WriterFacts DEF SInv, LInv, Rest, WorkerAlone, WorkerAt, WriteOutcome
<1>2. count' = count /\ cancel' = cancel
  BY DEF WriteOutcome, Write
<1>3. St(k)' = Outcome(target) /\ \A j \in Dispatch \ {k} : St(j)' = St(j)
  <2>1. PICK cost : Transition(<<Job, k>>, JobOwner, Outcome(target), cost, FALSE)
    BY <1>1 DEF WriteOutcome, Write
  <2>2. St(k)' = Outcome(target) /\ \A j \in Dispatch \ {k} : attempt'[<<Job, j>>] = attempt[<<Job, j>>]
    BY <1>1, <2>1, TransitionStatus DEF SInv
  <2> QED
    BY <2>2 DEF St
<1>4. worker' = [worker EXCEPT ![k] = x]
  BY <1>1 DEF SInv, LInv, WriteOutcome, WorkerGoto
<1>5. worker'[k] = x /\ \A j \in Dispatch \ {k} : worker'[j] = worker[j]
  BY <1>4 DEF SInv, LInv
<1>6. x.pc = "row" /\ x.target = target /\ x.published = worker[k].published
  BY <1>1 DEF WorkerRow
<1> HIDE DEF x
<1>7. target # "failed" => Open(k)'
  BY <1>1, <1>2, <1>3 DEF Open, Outcome
<1>8. WorkerAlone(k)'
  <2>1. Proper(k, x)
    BY <1>1, <1>6 DEF Proper
  <2>2. St(k)' = "complete" => x.published
    BY <1>1, <1>3, <1>6 DEF Outcome
  <2>3. Active(x) => Open(k)'
    BY <1>6, <1>7 DEF Active
  <2> QED
    BY <1>5, <2>1, <2>2, <2>3 DEF WorkerAlone, Proper, Active
<1>9. ASSUME NEW j \in Dispatch \ {k} PROVE WorkerAlone(j)'
  <2>1. ~Active(worker[j]) /\ WorkerAlone(j)
    BY <1>1 DEF SInv, Rest, WorkerAlone, Open
  <2> QED
    BY <1>3, <1>5, <2>1 DEF WorkerAlone, Proper, Active, St
<1>10. \A t \in Thread : ~Owing(thread[t])
  BY <1>1 DEF SInv, Rest, ThreadAlone
<1> QED
  BY <1>1, <1>2, <1>8, <1>9, <1>10 DEF Rest, ThreadAlone, OweOnce, Owing

LEMMA ProgressRest == ASSUME SInv, NEW k \in Dispatch, WriteProgress(k) PROVE Rest'
<1>1. /\ worker[k].pc = "write" /\ Active(worker[k]) /\ UNCHANGED thread /\ WorkerGoto(k, "row")
      /\ worker[k].read.attempt \in Admitted
  BY WriterFacts DEF SInv, LInv, WorkerKnows, WorkerAt, WriteProgress
<1>2. Calm
  BY <1>1, LeaseCalm DEF SInv, WriteProgress
<1> QED
  BY <1>1, <1>2, RestWorkerGoto

LEMMA WorkerRest ==
  ASSUME SInv, NEW k \in Dispatch, WorkerStep(k) \/ RenewLease(k) \/ WorkerDies(k)
  PROVE  Rest'
<1>1. CASE Terminate(k) \/ Cleanup(k)
  BY <1>1 DEF SInv, Rest, WorkerAlone, Proper, WorkerAt, Terminate, Cleanup
<1>2. CASE RenewLease(k)
  <2>1. Latest(Job) \in Admitted
    BY <1>2, LatestFacts DEF SInv, LInv, WorkerKnows, RenewLease, Alive
  <2>2. Calm /\ UNCHANGED <<thread, worker>>
    BY <1>2, <2>1, LeaseCalm DEF SInv, RenewLease, Heartbeat, lifecycle
  <2> QED
    BY <2>2, RestKept DEF SInv
<1> QED
  BY <1>1, <1>2, WorkRest, StartRest, FetchRest, PublishRest, OutcomeRest, ProgressRest DEF WorkerStep, Ends

LEMMA AroundRest == ASSUME SInv, Crash \/ Restart \/ Expire \/ UNCHANGED allVars PROVE Rest'
<1>1. CASE Crash
  <2>1. Calm /\ UNCHANGED worker /\ \A t \in Thread : ~Owing(thread'[t])
    BY <1>1, SameCalm DEF Crash, Owing
  <2>2. \A k \in Dispatch : WorkerAlone(k)'
    BY <2>1, WorkerCalm DEF SInv
  <2>3. ~cancel'[Job]
    BY <2>1 DEF SInv, Rest, Calm
  <2> QED
    BY <2>1, <2>2, <2>3 DEF Rest, ThreadAlone, OweOnce, Owing
<1>2. CASE Restart
  <2>1. CASE ReclaimExpired
    <3>1. count' = count /\ cancel' = cancel
      BY <2>1 DEF ReclaimExpired
    <3>2. \A k \in Dispatch : St(k)' \in {St(k), "outcome_unknown"}
      <4>1. attempt \in [Attempt -> AttemptRow] /\ \A k \in Dispatch : <<Job, k>> \in Attempt
        BY JobFacts DEF SInv, LInv, IInv, TypeOK
      <4> QED
        BY <2>1, <4>1 DEF ReclaimExpired, Reclaimed, AttemptRow, St
    <3> QED
      BY <1>2, <3>1, <3>2, RestKept DEF SInv, Restart, Calm
  <2>2. CASE UNCHANGED ledger
    BY <1>2, <2>2, SameCalm, RestKept DEF SInv, Restart
  <2> QED
    BY <1>2, <2>1, <2>2 DEF Restart
<1>3. CASE Expire
  <2>1. Calm /\ UNCHANGED <<thread, worker>>
    BY <1>3, LatestFacts, LeaseCalm DEF SInv, LInv, Expire, LeaseExpires, lifecycle
  <2> QED
    BY <2>1, RestKept DEF SInv
<1>4. CASE UNCHANGED allVars
  BY <1>4, SameCalm, RestKept DEF SInv, allVars, lifecycle
<1> QED
  BY <1>1, <1>2, <1>3, <1>4

LEMMA AloneInvariance == ASSUME Canceller = {} PROVE LifecycleSpec => []SInv
<1>1. LifecycleInit => SInv
  <2> SUFFICES ASSUME LifecycleInit PROVE Rest
    BY LifecycleInitInvariant DEF SInv
  <2>1. LInv
    BY LifecycleInitInvariant
  <2>2. /\ ~cancel[Job]
        /\ \A t \in Thread : thread[t].pc = "begin"
        /\ \A k \in Dispatch : worker[k] = Unstarted /\ St(k) = "none"
    BY JobFacts DEF LifecycleInit, Init, St, NoAttempt
  <2> QED
    BY <2>2 DEF Rest, WorkerAlone, ThreadAlone, OweOnce, Owing, Proper, Active, Unstarted
<1>2. SInv /\ [LifecycleNext]_allVars => SInv'
  <2> SUFFICES ASSUME SInv, [LifecycleNext]_allVars PROVE Rest'
    BY LifecycleNextInvariant DEF SInv
  <2>1. CASE IngestStep
    BY <2>1, IngestRest, ApiRest DEF IngestStep, Thread
  <2>2. CASE \E t \in Thread \ {Ingest} : ApiStep(t)
    BY <2>2, ApiRest
  <2>3. CASE \E k \in Dispatch : WorkerStep(k) \/ RenewLease(k) \/ WorkerDies(k)
    BY <2>3, WorkerRest
  <2>4. CASE Crash \/ Restart \/ Expire \/ UNCHANGED allVars
    BY <2>4, AroundRest
  <2> QED
    BY <2>1, <2>2, <2>3, <2>4 DEF LifecycleNext
<1> QED
  BY <1>1, <1>2, PTL DEF LifecycleSpec

(* One execution at a time: while nobody cancels, two processes never work on  *)
(* the match together, whatever retries, reports, deaths and restarts occur.   *)
THEOREM OneAtATime == ASSUME Canceller = {} PROVE LifecycleSpec => []OneExecution
<1>1. SInv => OneExecution
  BY DEF SInv, Rest, WorkerAlone, Active, Open, OneExecution, Working
<1> QED
  BY <1>1, AloneInvariance, PTL

(* While nobody cancels, a completion in the ledger is one of a result that    *)
(* this attempt's process published (processor.py, update_job).                *)
THEOREM CompletedIsPublished == ASSUME Canceller = {} PROVE LifecycleSpec => []CompleteWasPublished
<1>1. SInv => CompleteWasPublished
  BY DEF SInv, Rest, WorkerAlone, St, CompleteWasPublished
<1> QED
  BY <1>1, AloneInvariance, PTL

\* A step of a worker leaves every other attempt's status alone.
LEMMA WorkerMovesItself ==
  ASSUME SInv, NEW k \in Dispatch, WorkerStep(k) \/ WorkerDies(k)
  PROVE  /\ \A j \in Dispatch \ {k} : worker'[j] = worker[j]
         /\ \A j \in Dispatch \ {k} : St(j)' = St(j)
<1>1. CASE Terminate(k) \/ Cleanup(k)
  BY <1>1 DEF SInv, Rest, WorkerAlone, Proper, WorkerAt, Terminate, Cleanup
<1>2. CASE Start(k)
  <2>1. Latest(Job) \in Admitted
    BY <1>2, LatestFacts DEF SInv, LInv, WorkerKnows, WorkerAt, Start
  <2>2. \A j \in Dispatch : St(j)' = St(j)
    BY <1>2, <2>1, LeaseCalm DEF SInv, Start
  <2> QED
    BY <1>2, <2>2 DEF SInv, LInv, Start, Update
<1>3. CASE WriteOutcome(k)
  <2>1. ~cancel[Job] /\ worker[k].read.attempt = <<Job, k>>
    BY <1>3, WriterFacts DEF WriteOutcome, WorkerAt
  <2>2. PICK cost : Transition(<<Job, k>>, JobOwner, Outcome(worker[k].target), cost, FALSE)
    BY <1>3, <2>1 DEF WriteOutcome, Write
  <2>3. \A j \in Dispatch \ {k} : attempt'[<<Job, j>>] = attempt[<<Job, j>>]
    BY <2>1, <2>2, TransitionStatus DEF SInv
  <2>4. \A j \in Dispatch \ {k} : St(j)' = St(j)
    BY <2>3 DEF St
  <2> QED
    BY <1>3, <2>4 DEF SInv, LInv, WriteOutcome, WorkerGoto
<1>4. CASE WriteProgress(k)
  <2>1. worker[k].read.attempt \in Admitted
    BY <1>4 DEF SInv, LInv, WorkerKnows, WorkerAt, WriteProgress
  <2>2. \A j \in Dispatch : St(j)' = St(j)
    BY <1>4, <2>1, LeaseCalm DEF SInv, WriteProgress
  <2> QED
    BY <1>4, <2>2 DEF SInv, LInv, WriteProgress, WorkerGoto
<1>5. CASE Check(k) \/ WriteRefused(k) \/ WriteRow(k) \/ Progress(k) \/ Fail(k) \/ MatchReady(k) \/ Handle(k)
           \/ MatchFailed(k) \/ WorkerDies(k) \/ Fetch(k) \/ Publish(k)
  <2>1. UNCHANGED ledger
    BY <1>5 DEF Check, WriteRefused, WriteRow, Progress, Fail, MatchReady, Handle, MatchFailed, WorkerDies, Fetch, Publish
  <2>2. \A j \in Dispatch \ {k} : worker'[j] = worker[j]
    BY <1>5 DEF SInv, LInv, Check, WriteRefused, WriteRow, Progress, Fail, MatchReady, Handle, MatchFailed, WorkerDies, Fetch,
                Publish, WorkerGoto, Update
  <2> QED
    BY <2>1, <2>2 DEF ledger, St
<1> QED
  BY <1>1, <1>2, <1>3, <1>4, <1>5 DEF WorkerStep, Ends

(* While nobody cancels, a worker moves no attempt but the one it was started  *)
(* for, though it names it by the job and reads the latest one (update_job).    *)
THEOREM WorkerMovesItsOwn == ASSUME Canceller = {} PROVE LifecycleSpec => WorkerKeepsToItsAttempt
<1> DEFINE Own ==
      \A k \in Dispatch : worker'[k] # worker[k] /\ starts'[k] = starts[k] =>
        \A j \in Dispatch \ {k} : attempt'[<<Job, j>>].status = attempt[<<Job, j>>].status
<1>1. SInv /\ [LifecycleNext]_allVars => [Own]_allVars
  <2> SUFFICES ASSUME SInv, [LifecycleNext]_allVars, NEW k \in Dispatch,
                      worker'[k] # worker[k], starts'[k] = starts[k], NEW j \in Dispatch \ {k}
               PROVE  attempt'[<<Job, j>>].status = attempt[<<Job, j>>].status
    OBVIOUS
  <2>1. CASE \E i \in Dispatch : WorkerStep(i) \/ WorkerDies(i)
    <3>1. PICK i \in Dispatch : WorkerStep(i) \/ WorkerDies(i)
      BY <2>1
    <3>2. (\A n \in Dispatch \ {i} : worker'[n] = worker[n]) /\ (\A n \in Dispatch \ {i} : St(n)' = St(n))
      BY <3>1, WorkerMovesItself
    <3> QED
      BY <3>2 DEF St
  <2>2. CASE \E t \in Thread : Spawn(t)
    <3>1. PICK t \in Thread : Spawn(t)
      BY <2>2
    <3>2. thread[t].claimed = k
      BY <3>1 DEF SInv, LInv, Spawn, WorkerGoto
    <3>3. starts'[k] = starts[k] + 1 /\ starts[k] \in Nat
      BY <3>1, <3>2 DEF SInv, LInv, Spawn
    <3> QED
      BY <3>3
  <2>3. CASE UNCHANGED worker
    BY <2>3
  <2>4. \/ \E i \in Dispatch : WorkerStep(i) \/ WorkerDies(i)
        \/ \E t \in Thread : Spawn(t)
        \/ UNCHANGED worker
    BY DEF LifecycleNext, IngestStep, ApiStep, Thread, AdmitRow, AdmitJob, Mark, MarkFailed, Claim, SpawnFails, ReadToReport,
           Report, ReadBefore, RetryAdmit, ResetRow, Cancel, RenewLease, Crash, Restart, Expire, lifecycle, allVars
  <2> QED
    BY <2>1, <2>2, <2>3, <2>4
<1> QED
  BY <1>1, AloneInvariance, PTL DEF LifecycleSpec, WorkerKeepsToItsAttempt

=============================================================================
