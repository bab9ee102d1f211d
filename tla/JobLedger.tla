----------------------------- MODULE JobLedger -----------------------------
(***************************************************************************)
(* DurableJobLedger (backend/app/workbench/jobs.py): the SQLite ledger     *)
(* that owns logical job requests, their execution attempts, and the money *)
(* each attempt reserves, spends and gives back.  The API process, the     *)
(* worker processes and the provider gateway all open it; each of its      *)
(* operations is one BEGIN IMMEDIATE transaction, hence one action here.   *)
(* A caller that reads latest_attempt in one transaction and commits a     *)
(* transition with expected_revision in another is two actions,            *)
(* ReadLatest and Commit, with anything in between.                        *)
(*                                                                         *)
(* An operation that raises, or that answers from what is already stored   *)
(* (an idempotent submit, a repeated retry, a replayed receipt), changes   *)
(* nothing: it is the disabled guard of its action.                        *)
(***************************************************************************)
EXTENDS Integers, FiniteSets, FiniteSetsExt

CONSTANTS
  Request,       \* logical request identities (job ids, provider request ids)
  Local,         \* the requests whose authorisedLocation is "local"
  Provider,      \* the requests of scope "provider", which share GroupLimit
  Budget,        \* authorised budget of each request
  GroupLimit,    \* shared limit of the provider requests
  Amount,        \* money amounts seen in reservations and invoices
  Owner,         \* lease owners: worker and control-plane identities
  Caller,        \* threads that read an attempt and commit on it later
  Receipt,       \* identities of invoices and of recorded charges
  ChargeKind,    \* the kinds of charge a caller records by itself
  MaxAttempts,   \* MAX_ATTEMPTS
  MaxRevision,   \* bound of the model on the revision of an attempt
  NoOwner, NoCost

ASSUME LocalAssumption == Local \subseteq Request /\ Provider \subseteq Request \ Local
ASSUME ProviderAssumption == IsFiniteSet(Provider)   \* a sum over them is taken
ASSUME BudgetAssumption == Budget \in [Request -> Nat] /\ GroupLimit \in Nat
ASSUME AmountAssumption == Amount \subseteq Nat /\ NoCost \notin Nat
ASSUME OwnerAssumption == NoOwner \notin Owner
ASSUME KindAssumption == ChargeKind \subseteq {"settled", "released", "unsettled"}
ASSUME AttemptsAssumption == MaxAttempts \in Nat \ {0} /\ MaxRevision \in Nat

VARIABLES
  count,      \* job_requests / job_attempts: how many attempts a request has
  attempt,    \* job_attempts: one row for each attempt
  bill,       \* job_charges summed by kind, and the last billing event
  cancel,     \* job_cancels: the request has a cancellation row
  evidence,   \* the immutable receipts of invoices and recorded charges
  view        \* the reads of latest_attempt that callers have yet to act on

vars == <<count, attempt, bill, cancel, evidence, view>>

Terminal == {"complete", "failed", "cancelled"}
Running == {"validating", "waiting_for_capacity", "running", "importing", "cancelling"}
Live == Running \cup {"submitted"}
Status == Live \cup Terminal \cup {"outcome_unknown"}

Attempt == Request \X (1 .. MaxAttempts)
Latest(r) == <<r, count[r]>>
Admitted == {a \in Attempt : a[2] <= count[a[1]]}

NoAttempt == [status |-> "none", owner |-> NoOwner, leased |-> FALSE, revision |-> 0,
              reconciled |-> FALSE, dispatchStarted |-> FALSE]
NoBill == [reserved |-> 0, settled |-> 0, unsettled |-> 0, released |-> 0, event |-> "none"]

-----------------------------------------------------------------------------
(* Billing.  A bill is the sum of an attempt's job_charges rows by kind and *)
(* the state of its last row of job_billing_events.                         *)

Max0(n) == IF n > 0 THEN n ELSE 0

\* Variant: a closed bill counts for nothing.
CommitmentOpenOnly(b) == IF b.event = "final" THEN 0 ELSE b.settled + Max0(b.reserved - b.settled)

\* What the ledger counts against the budget for one attempt: a closed bill
\* costs what was settled, an open one at least what it reserved.
Commitment(b) ==
  b.settled + (IF b.event = "final" THEN 0 ELSE Max0(b.reserved - b.settled))

MarkUnsettled(b) ==
  [b EXCEPT !.unsettled = Max0(b.reserved - b.settled), !.event = "unknown"]

\* Variant: the unsettled rest of an overrun is booked as a negative amount.
InvoicedUnclamped(b, amount, final) ==
  [reserved |-> b.reserved,
   settled |-> amount,
   unsettled |-> IF final THEN 0 ELSE b.reserved - amount,
   released |-> IF final THEN b.released + Max0(b.reserved - amount - b.released)
                         ELSE b.released,
   event |-> IF final THEN "final" ELSE "partial"]

\* An invoice states the cumulative total; a final one closes the bill and
\* releases what is left of the reservation.
Invoiced(b, amount, final) ==
  [reserved |-> b.reserved,
   settled |-> amount,
   unsettled |-> IF final THEN 0 ELSE Max0(b.reserved - amount),
   released |-> IF final THEN b.released + Max0(b.reserved - amount - b.released)
                         ELSE b.released,
   event |-> IF final THEN "final" ELSE "partial"]

\* Variant: local work always closes at zero, whatever was charged before.
SettledLocalAtZero(r, b, cost, noCharge) ==
  IF cost # NoCost THEN Invoiced(b, cost, TRUE)
  ELSE IF r \in Local \/ (noCharge /\ b.settled = 0) THEN Invoiced(b, 0, TRUE)
  ELSE MarkUnsettled(b)

\* Closing the bill of an attempt that reaches a terminal status.
Settled(r, b, cost, noCharge) ==
  IF cost # NoCost THEN Invoiced(b, cost, TRUE)
  ELSE IF noCharge /\ b.settled = 0 THEN Invoiced(b, 0, TRUE)
  ELSE IF r \in Local THEN Invoiced(b, b.settled, TRUE)
  ELSE MarkUnsettled(b)

\* Variant: a partial invoice is taken for a complete one.
UncertainUnlessInvoiced(a) ==
  \/ bill[a].event = "unknown"
  \/ /\ bill[a].event \notin {"partial", "final"}
     /\ attempt[a].status \in Terminal \cup {"outcome_unknown"}

Uncertain(a) ==
  \/ bill[a].event \in {"partial", "unknown"}
  \/ bill[a].event # "final" /\ attempt[a].status \in Terminal \cup {"outcome_unknown"}

AttemptsOf(r) == {<<r, k>> : k \in 1 .. count[r]}
RequestTotal(r) == SumFunction([a \in AttemptsOf(r) |-> Commitment(bill[a])])

\* BUDGET_BREACH of the cost summary.
Breached(r) ==
  \/ \E a \in AttemptsOf(r) : bill[a].settled > bill[a].reserved
  \/ RequestTotal(r) > Budget[r]

\* UNBOUNDED_EXPOSURE of the cost summary.
Unbounded(r) ==
  \E a \in AttemptsOf(r) : Uncertain(a) /\ bill[a].reserved <= bill[a].settled

Outstanding(b) == Max0(b.reserved - b.settled - b.released - Max0(b.unsettled))

-----------------------------------------------------------------------------
(* The transition every change of an attempt's status goes through.         *)

\* A transition that enters a terminal status or an unknown outcome.
Closes(a, s) ==
  \/ s = "outcome_unknown" /\ attempt[a].status # "outcome_unknown"
  \/ s \in Terminal /\ attempt[a].status \notin Terminal

\* A cancelled request turns every other live transition into its wind-down.
Coerced(a, target) ==
  IF /\ attempt[a].status \notin Terminal
     /\ cancel[a[1]]
     /\ target \notin {"cancelled", "cancelling", "outcome_unknown"}
  THEN "cancelling" ELSE target

\* Variant: an unknown outcome may be left like any other status.
TransitionAllowedFromUnknown(a, o, target) ==
  /\ o = attempt[a].owner \/ ~attempt[a].leased
  /\ attempt[a].status \in Terminal => target \in {attempt[a].status, "outcome_unknown"}

TransitionAllowed(a, o, target) ==
  /\ o = attempt[a].owner \/ ~attempt[a].leased
  /\ attempt[a].status = "outcome_unknown" => target = "outcome_unknown"
  /\ attempt[a].status \in Terminal => target \in {attempt[a].status, "outcome_unknown"}

\* Variant: a late unknown outcome keeps the reconciliation of the attempt.
MovedStillReconciled(row, o, s) ==
  [row EXCEPT !.status = s, !.owner = o, !.revision = @ + 1,
              !.dispatchStarted = @ \/ s \in (Running \ {"cancelling"}) \cup {"outcome_unknown"}]

Moved(row, o, s) ==
  [status |-> s, owner |-> o, leased |-> row.leased, revision |-> row.revision + 1,
   reconciled |-> row.reconciled /\ s # "outcome_unknown",
   dispatchStarted |-> \/ row.dispatchStarted
                       \/ s \in (Running \ {"cancelling"}) \cup {"outcome_unknown"}]

BillAfter(a, s, cost, noCharge) ==
  IF ~Closes(a, s) THEN bill[a]
  ELSE IF s = "outcome_unknown" THEN MarkUnsettled(bill[a])
  ELSE Settled(a[1], bill[a], cost, noCharge)

Transition(a, o, target, cost, noCharge) ==
  LET s == Coerced(a, target) IN
  /\ TransitionAllowed(a, o, target)
  /\ attempt[a].revision < MaxRevision
  /\ Closes(a, s) /\ cost # NoCost => cost >= bill[a].settled
  /\ attempt' = [attempt EXCEPT ![a] = Moved(attempt[a], o, s)]
  /\ bill' = [bill EXCEPT ![a] = BillAfter(a, s, cost, noCharge)]

-----------------------------------------------------------------------------
(* Admission and dispatch.                                                  *)

\* Variant: only an unknown outcome stands in the way of a retry.
RetryableWhileLive(r) ==
  LET last == attempt[Latest(r)] IN
  /\ last.status # "complete"
  /\ last.status = "outcome_unknown" => last.reconciled

\* A first submission, or the explicit retry of an attempt that failed or was
\* cancelled; anything else is answered with an existing attempt or refused.
Retryable(r) ==
  LET last == attempt[Latest(r)] IN
  /\ last.status \notin Live \cup {"complete"}
  /\ last.status = "outcome_unknown" => last.reconciled

Affordable(r, amount) ==
  /\ amount <= Max0(Budget[r] - RequestTotal(r))
  /\ Budget[r] > 0 => amount > 0

GroupAffordable(amount) ==
  /\ \A p \in Provider : ~Breached(p) /\ ~Unbounded(p)
  /\ amount + SumFunction([p \in Provider |-> RequestTotal(p)]) <= GroupLimit

Admit(r, o, amount) ==
  /\ count[r] < MaxAttempts
  /\ count[r] > 0 => Retryable(r)
  /\ ~Breached(r)
  /\ \A a \in AttemptsOf(r) : ~Uncertain(a)
  /\ r \notin Provider => amount = Max0(Budget[r] - RequestTotal(r))
  /\ Affordable(r, amount)
  /\ r \notin Local => \A other \in Request : ~Breached(other)
  /\ r \in Provider => GroupAffordable(amount)
  /\ count' = [count EXCEPT ![r] = @ + 1]
  /\ attempt' = [attempt EXCEPT ![<<r, count[r] + 1>>] =
                   [status |-> "submitted", owner |-> o, leased |-> TRUE, revision |-> 0,
                    reconciled |-> FALSE, dispatchStarted |-> FALSE]]
  /\ bill' = [bill EXCEPT ![<<r, count[r] + 1>>] = [NoBill EXCEPT !.reserved = amount]]
  /\ cancel' = [cancel EXCEPT ![r] = FALSE]
  /\ UNCHANGED <<evidence, view>>

\* claim_dispatch: a submitted attempt is handed to one dispatcher ...
ClaimDispatch(r, o) ==
  LET a == Latest(r) IN
  /\ count[r] > 0
  /\ ~attempt[a].dispatchStarted
  /\ ~cancel[r]
  /\ attempt[a].status = "submitted"
  /\ Transition(a, o, IF r \in Provider THEN "running" ELSE "validating", NoCost, FALSE)
  /\ UNCHANGED <<count, cancel, evidence, view>>

\* ... unless its cancellation was asked for first: it then ends, free of charge.
ClaimCancelled(r, o) ==
  LET a == Latest(r) IN
  /\ count[r] > 0
  /\ ~attempt[a].dispatchStarted
  /\ cancel[r]
  /\ attempt[a].status \in {"submitted", "cancelling"}
  /\ Transition(a, o, "cancelled", NoCost, TRUE)
  /\ UNCHANGED <<count, cancel, evidence, view>>

-----------------------------------------------------------------------------
(* Callers that read the latest attempt, then commit on what they read.     *)

ReadLatest(c, r) ==
  /\ count[r] > 0
  /\ view' = {v \in view : v.caller # c} \cup
             {[caller |-> c, attempt |-> Latest(r), revision |-> attempt[Latest(r)].revision,
               status |-> attempt[Latest(r)].status]}
  /\ UNCHANGED <<count, attempt, bill, cancel, evidence>>

Commit(v, o, target, cost, noCharge) ==
  /\ attempt[v.attempt].revision = v.revision
  /\ Transition(v.attempt, o, target, cost, noCharge)
  /\ view' = view \ {v}
  /\ UNCHANGED <<count, cancel, evidence>>

\* Storage.update_job("processing") on an attempt it read as submitted.
CommitRunning(v, o) ==
  v.status = "submitted" /\ Commit(v, o, "running", NoCost, FALSE)

\* timeout_before_response, lost_connection, a gateway exception.
CommitUnknown(v, o) == Commit(v, o, "outcome_unknown", NoCost, FALSE)

\* import_attempt, disk_exhaustion, update_job, the gateway's outcome.
CommitOutcome(v, o, target, cost, noCharge) ==
  /\ noCharge => target = "failed" /\ cost = NoCost
  /\ Commit(v, o, target, cost, noCharge)

-----------------------------------------------------------------------------
(* Leases.  leased stands for leaseExpiresAt >= now: time passing turns it  *)
(* off, a heartbeat of the owner turns it on whatever the status.           *)

Heartbeat(a, o) ==
  /\ attempt[a].owner = o
  /\ ~attempt[a].leased
  /\ attempt' = [attempt EXCEPT ![a].leased = TRUE]
  /\ UNCHANGED <<count, bill, cancel, evidence, view>>

LeaseExpires(a) ==
  /\ attempt[a].leased
  /\ attempt' = [attempt EXCEPT ![a].leased = FALSE]
  /\ UNCHANGED <<count, bill, cancel, evidence, view>>

\* reclaim_expired at the start of the API: every running attempt whose lease
\* ran out becomes unknown, all in one transaction.
Expired == {a \in Admitted : attempt[a].status \in Running /\ ~attempt[a].leased}

\* Variant: the revision is left for the next transition to bump.
ReclaimedSameRevision(row) == [row EXCEPT !.status = "outcome_unknown"]

Reclaimed(row) == [row EXCEPT !.status = "outcome_unknown", !.revision = @ + 1]

ReclaimExpired ==
  /\ Expired # {}
  /\ \A a \in Expired : attempt[a].revision < MaxRevision
  /\ attempt' = [a \in Attempt |-> IF a \in Expired THEN Reclaimed(attempt[a]) ELSE attempt[a]]
  /\ bill' = [a \in Attempt |-> IF a \in Expired THEN MarkUnsettled(bill[a]) ELSE bill[a]]
  /\ UNCHANGED <<count, cancel, evidence, view>>

-----------------------------------------------------------------------------
(* Evidence about money that arrives from outside.                          *)

\* Variant: no receipt is remembered.
EventIdsForgotten == {}

\* The identities already used for a billing event, or for a recorded charge.
EventIds == {e.id : e \in {x \in evidence : x.kind # "released"}}
ChargeIds == {e.id : e \in {x \in evidence : x.kind \in ChargeKind}}

Receive(e, a, kind, amount) ==
  evidence' = evidence \cup {[id |-> e, attempt |-> a, kind |-> kind, amount |-> amount]}

\* reconcile_attempt with an invoice: a final one decides the outcome too.  It
\* asks nothing of the attempt's present status, owner or lease.
Decided(row, outcome, final) ==
  [row EXCEPT !.status = IF final THEN outcome ELSE @,
              !.reconciled = final,
              !.revision = @ + 1]

Reconcile(a, outcome, amount, final, e) ==
  /\ e \notin EventIds
  /\ amount >= bill[a].settled
  /\ attempt[a].revision < MaxRevision
  /\ attempt' = [attempt EXCEPT ![a] = Decided(attempt[a], outcome, final)]
  /\ bill' = [bill EXCEPT ![a] = Invoiced(bill[a], amount, final)]
  /\ Receive(e, a, IF final THEN "final" ELSE "partial", amount)
  /\ UNCHANGED <<count, cancel, view>>

\* reconcile_attempt without one: an outcome says nothing about the bill.
ReconcileUnbilled(a) ==
  /\ bill[a].event # "final"
  /\ bill' = [bill EXCEPT ![a] = MarkUnsettled(bill[a])]
  /\ UNCHANGED <<count, attempt, cancel, evidence, view>>

\* record_charge.  The attempt's row, hence its revision, is left alone.
Charged(b, kind, amount) ==
  CASE kind = "settled" -> Invoiced(b, b.settled + amount, FALSE)
    [] kind = "released" -> [b EXCEPT !.released = @ + amount]
    [] OTHER -> [b EXCEPT !.unsettled = @ + amount, !.event = "unknown"]

RecordCharge(a, kind, amount, e) ==
  /\ e \notin ChargeIds
  /\ kind # "released" => e \notin EventIds
  /\ kind # "settled" => amount <= Outstanding(bill[a])
  /\ bill' = [bill EXCEPT ![a] = Charged(bill[a], kind, amount)]
  /\ Receive(e, a, kind, amount)
  /\ UNCHANGED <<count, attempt, cancel, view>>

-----------------------------------------------------------------------------
(* Cancellation.                                                            *)

\* Variant: the cancellation row is inserted, the attempt is not told.
RequestCancelRowOnly(r) ==
  /\ count[r] > 0
  /\ cancel' = [cancel EXCEPT ![r] = TRUE]
  /\ UNCHANGED <<count, attempt, bill, evidence, view>>

\* request_cancel.
RequestCancel(r) ==
  LET a == Latest(r) IN
  /\ count[r] > 0
  /\ cancel' = [cancel EXCEPT ![r] = TRUE]
  /\ IF attempt[a].status \in Live
       THEN Transition(a, attempt[a].owner, "cancelling", NoCost, FALSE)
       ELSE UNCHANGED <<attempt, bill>>
  /\ UNCHANGED <<count, evidence, view>>

\* confirm_termination: the worker says that it has stopped.
ConfirmTermination(r, o, costKnown) ==
  LET a == Latest(r)
      outcome == IF attempt[a].status \notin Live THEN attempt[a].status
                 ELSE IF costKnown THEN "cancelled" ELSE "outcome_unknown" IN
  /\ count[r] > 0
  /\ Transition(a, o, outcome, NoCost, FALSE)
  /\ UNCHANGED <<count, cancel, evidence, view>>

\* confirm_cleanup: the same status again, under a new revision.
ConfirmCleanup(r, o) ==
  /\ count[r] > 0
  /\ Transition(Latest(r), o, attempt[Latest(r)].status, NoCost, FALSE)
  /\ UNCHANGED <<count, cancel, evidence, view>>

-----------------------------------------------------------------------------
Init ==
  /\ count = [r \in Request |-> 0]
  /\ attempt = [a \in Attempt |-> NoAttempt]
  /\ bill = [a \in Attempt |-> NoBill]
  /\ cancel = [r \in Request |-> FALSE]
  /\ evidence = {}
  /\ view = {}

AdmitSome == \E r \in Request, o \in Owner, n \in Amount : Admit(r, o, n)
ClaimSome == \E r \in Request, o \in Owner : ClaimDispatch(r, o) \/ ClaimCancelled(r, o)
ReadSome == \E c \in Caller, r \in Request : ReadLatest(c, r)
CommitSome ==
  \E v \in view, o \in Owner :
    \/ CommitRunning(v, o)
    \/ CommitUnknown(v, o)
    \/ \E target \in Terminal, cost \in Amount \cup {NoCost}, noCharge \in BOOLEAN :
         CommitOutcome(v, o, target, cost, noCharge)
LeaseSome ==
  \E a \in Admitted : LeaseExpires(a) \/ \E o \in Owner : Heartbeat(a, o)
MoneySome ==
  \E a \in Admitted :
    \/ ReconcileUnbilled(a)
    \/ \E outcome \in {"complete", "failed"}, n \in Amount, final \in BOOLEAN, e \in Receipt :
         Reconcile(a, outcome, n, final, e)
    \/ \E kind \in ChargeKind, n \in Amount, e \in Receipt : RecordCharge(a, kind, n, e)
CancelSome ==
  \E r \in Request :
    \/ RequestCancel(r)
    \/ \E o \in Owner : ConfirmCleanup(r, o) \/ \E known \in BOOLEAN : ConfirmTermination(r, o, known)

Next ==
  \/ AdmitSome \/ ClaimSome \/ ReadSome \/ CommitSome
  \/ LeaseSome \/ ReclaimExpired \/ MoneySome \/ CancelSome

Spec == Init /\ [][Next]_vars
-----------------------------------------------------------------------------
(* What the ledger promises.                                                *)

AttemptRow == [status : Status \cup {"none"}, owner : Owner \cup {NoOwner}, leased : BOOLEAN,
               revision : 0 .. MaxRevision, reconciled : BOOLEAN, dispatchStarted : BOOLEAN]
Bill == [reserved : Nat, settled : Nat, unsettled : Nat, released : Nat,
         event : {"none", "partial", "final", "unknown"}]
Evidence == [id : Receipt, attempt : Attempt, amount : Nat,
             kind : {"partial", "final"} \cup ChargeKind]
View == [caller : Caller, attempt : Attempt, revision : 0 .. MaxRevision, status : Status]

\* Types.  The sums of charges are signed in the code (record_charge and the
\* invoices insert differences); none of the totals is ever negative.
TypeOK ==
  /\ count \in [Request -> 0 .. MaxAttempts]
  /\ attempt \in [Attempt -> AttemptRow]
  /\ bill \in [Attempt -> Bill]
  /\ cancel \in [Request -> BOOLEAN]
  /\ evidence \subseteq Evidence
  /\ view \subseteq View

\* One execution at a time: an attempt that a later one followed is over, or
\* was reconciled; no interleaving of retries, late commits, reclaims and
\* cancellations brings an earlier attempt back to life (admit, _transition).
OneLiveAttempt ==
  \A r \in Request : \A k \in 1 .. count[r] - 1 : attempt[<<r, k>>].status \notin Live

\* Only a final invoice settles an unknown outcome, and one that becomes unknown
\* again loses the reconciliation it had: reconciled is what lets a retry pass
\* (admit), so a stale one would start a second paid execution.
UnknownNotReconciled ==
  \A a \in Admitted : attempt[a].reconciled => attempt[a].status \in Terminal

\* A cancellation and the live attempt it is aimed at agree at all times: the
\* attempt winds down exactly when its request has a cancellation row, however
\* requests to cancel, dispatch claims, progress commits and retries interleave.
CancelWindsDown ==
  \A a \in Admitted :
    attempt[a].status \in Live =>
      (attempt[a].status = "cancelling" <=> cancel[a[1]])

\* Optimistic concurrency: a caller whose revision is still current has read the
\* status the row still has.  Every writer of a status bumps the revision, the
\* startup reclaim and the reconciliation included (they bypass _transition).
ViewFresh ==
  \A v \in view :
    v.revision = attempt[v.attempt].revision => v.status = attempt[v.attempt].status

\* What a set of attempts holds: reserved for them and not given back.
Held(b) == b.reserved - b.released
Exposure(A) == SumFunction([a \in A |-> Held(bill[a])])

\* All that the attempts of a request hold fits its budget at any time: through
\* retries, reopened bills, recorded releases and late invoices, a reservation is
\* made only out of what no earlier attempt holds (admit).  An attempt whose
\* invoices stay within what it holds therefore spends nothing of another's.
BudgetRespected == \A r \in Request : Exposure(AttemptsOf(r)) <= Budget[r]

\* The same for the shared limit of the provider requests together.
ProviderAttempts == {a \in Admitted : a[1] \in Provider}
GroupRespected == Exposure(ProviderAttempts) <= GroupLimit

\* The budget rule of the runbook, on the ledger's own totals (settled, still
\* outstanding, unsettled), as long as no invoice exceeded a reservation.
BudgetAtAllTimes ==
  \A r \in Request :
    (\A a \in AttemptsOf(r) : bill[a].settled <= bill[a].reserved) => RequestTotal(r) <= Budget[r]

\* An attempt leaves an unknown outcome only by a final invoice that closes its
\* bill in the same step (reconcile_attempt): no timeout, no late worker and no
\* cancellation declares on its own that an uncertain execution ended.
UnknownNeedsInvoice ==
  [][\A a \in Admitted :
       attempt[a].status = "outcome_unknown" /\ attempt'[a].status # "outcome_unknown" =>
         attempt'[a].reconciled /\ bill'[a].event = "final"]_vars

\* A new attempt starts only when every earlier one of its request has a closed
\* bill: an execution that may still cost something is never doubled.
AdmittedOnlyWhenSettled ==
  [][\A r \in Request :
       count'[r] # count[r] => \A a \in AttemptsOf(r) : bill[a].event = "final"]_vars

\* Once an attempt is over, only new evidence closes its bill: a receipt that was
\* already applied and is delivered again after the bill was reopened is not
\* taken for the answer to the new uncertainty (_apply_invoice).
ReplayHarmless ==
  [][\A a \in Admitted :
       attempt[a].status \notin Live /\ bill[a].event # "final" /\ bill'[a].event = "final" =>
         \E e \in evidence' \ evidence : e.attempt = a /\ e.kind = "final"]_vars

\* What is known to be charged is never forgotten: no settlement, replay, cancel
\* or reconciliation lowers the settled total of an attempt.
KnownChargesKept ==
  [][\A a \in Admitted : bill'[a].settled >= bill[a].settled]_vars
==========================================================================================================================================================
