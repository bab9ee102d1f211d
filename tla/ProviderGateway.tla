--------------------------- MODULE ProviderGateway --------------------------
(***************************************************************************)
(* Paid provider calls (provider_gateway.py, provider_billing.py).  Each   *)
(* request of a client runs in a thread of the API: it reads the evidence  *)
(* and the policy, reserves money in the ledger, checks under the          *)
(* publication lock that both are still current, claims the attempt, calls *)
(* the provider, writes the outcome and the invoice down and only then     *)
(* publishes.  Several clients may send the same logical request at the    *)
(* same time; the policy and the generation may change; a lease may run    *)
(* out; the API may be killed anywhere.  The ledger is the module JobLedger *)
(* itself: every step below that writes to it is one of its transactions.  *)
(***************************************************************************)
EXTENDS JobLedger

CONSTANTS
  Asks,           \* the logical request that each caller makes
  MaxChanges,     \* bounds of the model: changes of the evidence or the policy,
  MaxCrashes,     \* kills of the API process
  Nobody

\* A caller's thread has its own owner identity and makes one provider call, whose
\* invoice has an identity of its own.
ASSUME GatewayAssumption ==
  /\ Caller \subseteq Owner /\ Caller \subseteq Receipt
  /\ Asks \in [Caller -> Provider]
  /\ MaxChanges \in Nat /\ MaxCrashes \in Nat
  /\ Nobody \notin Caller /\ Nobody \notin Attempt

VARIABLES
  task,        \* "report" (execute) or "proposal" (_dispatch_proposal)
  generation,  \* the current generation, counted
  policy,      \* the settings of the match (rights, provider, teams), counted
  bound,       \* the generation a request's stored payload was made from
  pc,          \* where each caller is
  call,        \* what each caller remembers
  result,      \* provider_results: the caller whose answer was saved
  reports,     \* ReportStore: the callers whose report was published
  stalled,     \* running attempts whose lease ran out
  crashes      \* how often the API was killed

calls == <<task, bound, pc, call, result, reports>>
world == <<generation, policy, stalled, crashes>>
gvars == <<vars, calls, world>>

NoUsage == [amount |-> 0, final |-> FALSE]
Usage == {NoUsage} \cup [amount : Amount, final : BOOLEAN]
NewCall == [generation |-> 0, policy |-> 0, anchor |-> 0, outcome |-> "none", usage |-> NoUsage,
            sent |-> Nobody, answer |-> Nobody]

Steps == {"start", "read", "admitted", "checked", "claimed", "calling", "answered", "viewed",
          "billing", "publishing", "local", "saving", "done", "dead"}

\* The types of the gateway's own state; those of the ledger are TypeOK's.
GatewayTypeOK ==
  /\ task \in [Provider -> {"report", "proposal"}]
  /\ generation \in 0 .. MaxChanges /\ policy \in 0 .. MaxChanges
  /\ bound \in [Provider -> 0 .. MaxChanges]
  /\ pc \in [Caller -> Steps]
  /\ call \in [Caller -> [generation : 0 .. MaxChanges, policy : 0 .. MaxChanges,
                          anchor : 0 .. MaxAttempts, outcome : {"none", "free", "unknown", "ok"},
                          usage : Usage, sent : Attempt \cup {Nobody},
                          answer : Caller \cup {Nobody}]]
  /\ result \in [Provider -> Caller \cup {Nobody}]
  /\ reports \subseteq Caller /\ stalled \subseteq Attempt
  /\ crashes \in 0 .. MaxCrashes

GatewayInit ==
  /\ Init
  /\ task \in [Provider -> {"report", "proposal"}]
  /\ generation = 0 /\ policy = 0 /\ bound = [r \in Provider |-> 0]
  /\ pc = [c \in Caller |-> "start"] /\ call = [c \in Caller |-> NewCall]
  /\ result = [r \in Provider |-> Nobody]
  /\ reports = {} /\ stalled = {} /\ crashes = 0

-----------------------------------------------------------------------------
(* Helpers.                                                                 *)

At(c, step) == pc[c] = step
Goto(c, step) == pc' = [pc EXCEPT ![c] = step]
Note(c, row) == call' = [call EXCEPT ![c] = row]

\* A caller that returns leaves behind what the properties ask about.
Left(row) == [NewCall EXCEPT !.usage = row.usage, !.sent = row.sent, !.answer = row.answer]
Return(c, answer) == Goto(c, "done") /\ Note(c, Left([call[c] EXCEPT !.answer = answer]))
Fails(c) == Return(c, Nobody)

\* Once it is admitted a caller has no more use for the attempt that it retries.
Unanchored(c) == Note(c, [call[c] EXCEPT !.anchor = 0])

IsReport(c) == task[Asks[c]] = "report"

\* The evidence and the settings that the caller read are the current ones.
Fresh(c) == call[c].generation = generation /\ call[c].policy = policy

\* policy_revision digests the settings and updatedAt.  A write of the match's status, a
\* failed dispatch and the rollback of a remote import move updatedAt, forth or back,
\* without a lock and at any time.  It is no variable here: a caller that compares
\* revisions may find another one although the settings are the same, and one that found
\* the same goes on although updatedAt moves the moment after.

\* Writers of the pointer and of the settings hold the publication lock exclusively;
\* a caller holds it shared from its freshness check to its claim.
DispatchPending == \E c \in Caller : pc[c] = "checked"

-----------------------------------------------------------------------------
(* Reading and admission.                                                   *)

\* generation_snapshot, then policy_revision under the publication lock, then the
\* attempt to retry: of a proposal the last one if it failed without a result, of a
\* report the one that the client names.
Anchors(c) ==
  LET r == Asks[c] IN
  IF IsReport(c) THEN 0 .. count[r]
  ELSE IF count[r] > 0 /\ attempt[Latest(r)].status = "failed" /\ result[r] = Nobody
         THEN {count[r]} ELSE {0}

Read(c) ==
  /\ At(c, "start")
  /\ \E anchor \in Anchors(c) :
       Note(c, [NewCall EXCEPT !.generation = generation, !.policy = policy, !.anchor = anchor])
  /\ Goto(c, "read")
  /\ UNCHANGED <<vars, task, bound, result, reports, world>>

\* resolve_policy refuses (rights, settings, budget, an open reconciliation, a request
\* of other content): the client gets an error, or a report made locally for nothing.
Deny(c) ==
  /\ At(c, "read")
  /\ Fails(c) \/ (IsReport(c) /\ Goto(c, "local") /\ Unanchored(c))
  /\ UNCHANGED <<vars, task, bound, result, reports, world>>

\* The payload of a stored request holds its evidence: it only matches its own.
SameRequest(c) == count[Asks[c]] > 0 => bound[Asks[c]] = call[c].generation

\* DurableJobLedger.admit answers with an attempt that exists: the child of the retried
\* one, an attempt that is alive or complete, or, without a retry, whatever came last.
Existing(c) ==
  LET last == attempt[Latest(Asks[c])] IN
  /\ count[Asks[c]] > 0
  /\ \/ call[c].anchor \in 1 .. count[Asks[c]] - 1
     \/ last.status \in Live \cup {"complete"}
     \/ call[c].anchor = 0 /\ last.status # "outcome_unknown"

Join(c) ==
  /\ At(c, "read") /\ SameRequest(c) /\ Existing(c)
  /\ Goto(c, "admitted") /\ Unanchored(c)
  /\ UNCHANGED <<vars, task, bound, result, reports, world>>

\* ... or makes a new one and reserves the bound of its cost.
Reserve(c) ==
  LET r == Asks[c] IN
  /\ At(c, "read") /\ SameRequest(c) /\ ~Existing(c)
  /\ \E amount \in Amount : Admit(r, c, amount)
  /\ bound' = [bound EXCEPT ![r] = call[c].generation]
  /\ Goto(c, "admitted") /\ Unanchored(c)
  /\ UNCHANGED <<task, result, reports, world>>

-----------------------------------------------------------------------------
(* Dispatch.                                                                *)

\* Under the publication lock: a caller that finds another generation or revision gives
\* its attempt back, a request that has an answer is answered with it, anything else goes
\* on to the claim.
Check(c) ==
  /\ At(c, "admitted")
  /\ \/ Goto(c, "answered") /\ Note(c, [call[c] EXCEPT !.outcome = "free"])
     \/ Fresh(c) /\ result[Asks[c]] # Nobody /\ Return(c, result[Asks[c]])
     \/ Fresh(c) /\ result[Asks[c]] = Nobody /\ Goto(c, "checked") /\ UNCHANGED call
  /\ UNCHANGED <<vars, task, bound, result, reports, world>>

\* Variant: the answer of claim_dispatch is not looked at.
ClaimIgnored(c) ==
  /\ At(c, "checked")
  /\ ClaimDispatch(Asks[c], c) \/ UNCHANGED vars
  /\ Goto(c, "claimed")
  /\ UNCHANGED <<task, bound, call, result, reports, world>>

\* ProviderBudgetLedger.claim: of all callers of a request one gets to dispatch it.
Claimable(c) ==
  LET a == Latest(Asks[c]) IN
  /\ attempt[a].status = "submitted" /\ ~attempt[a].dispatchStarted
  /\ TransitionAllowed(a, c, "running")

Claim(c) ==
  /\ At(c, "checked")
  /\ IF Claimable(c) THEN ClaimDispatch(Asks[c], c) /\ Goto(c, "claimed") /\ UNCHANGED call
                     ELSE UNCHANGED vars /\ Fails(c)
  /\ UNCHANGED <<task, bound, result, reports, world>>

Outcome(c, outcome, usage, sent) ==
  Note(c, [call[c] EXCEPT !.outcome = outcome, !.usage = usage, !.sent = sent])

\* maintain_job_lease renews the lease first; a caller that lost the attempt does not
\* call, and says that it does not know.
Lost(c) ==
  /\ At(c, "claimed") /\ attempt[Latest(Asks[c])].owner # c
  /\ Goto(c, "answered") /\ Outcome(c, "unknown", NoUsage, Nobody)
  /\ UNCHANGED <<vars, task, bound, result, reports, world>>

Renew(c) ==
  LET a == Latest(Asks[c]) IN IF attempt[a].leased THEN UNCHANGED vars ELSE Heartbeat(a, c)

\* The adapter proves that nothing left the machine (ProviderNotDispatched) ...
NotSent(c) ==
  /\ At(c, "claimed") /\ attempt[Latest(Asks[c])].owner = c
  /\ Renew(c)
  /\ Goto(c, "answered") /\ Outcome(c, "free", NoUsage, Nobody)
  /\ UNCHANGED <<task, bound, result, reports, world>>

\* ... or hands the request to the provider.
Send(c) ==
  /\ At(c, "claimed") /\ attempt[Latest(Asks[c])].owner = c
  /\ Renew(c)
  /\ Goto(c, "calling") /\ Outcome(c, "none", NoUsage, Latest(Asks[c]))
  /\ UNCHANGED <<task, bound, result, reports, world>>

\* The thread of maintain_job_lease, for as long as it finds its own live attempt.
KeepLease(c) ==
  /\ At(c, "calling")
  /\ attempt[Latest(Asks[c])].status \in Live
  /\ Heartbeat(Latest(Asks[c]), c)
  /\ UNCHANGED <<calls, world>>

\* Variant: whatever goes wrong in the call is taken for a call that never left.
AnswerOrFree(c) ==
  /\ At(c, "calling")
  /\ \/ \E usage \in Usage : Outcome(c, "ok", usage, call[c].sent)
     \/ Outcome(c, "free", NoUsage, call[c].sent)
  /\ Goto(c, "answered")
  /\ UNCHANGED <<vars, task, bound, result, reports, world>>

\* The provider answers, with or without an invoice, or the call ends otherwise: a
\* timeout, a lost connection, an answer that cannot be read.
Answer(c) ==
  /\ At(c, "calling")
  /\ \/ \E usage \in Usage : Outcome(c, "ok", usage, call[c].sent)
     \/ Outcome(c, "unknown", NoUsage, call[c].sent)
  /\ Goto(c, "answered")
  /\ UNCHANGED <<vars, task, bound, result, reports, world>>

-----------------------------------------------------------------------------
(* The outcome and the invoice.  latest_attempt and transition are two       *)
(* transactions of the ledger.                                              *)

ReadOutcome(c) ==
  /\ At(c, "answered")
  /\ ReadLatest(c, Asks[c])
  /\ Goto(c, "viewed")
  /\ UNCHANGED <<task, bound, call, result, reports, world>>

Target(c) == CASE call[c].outcome = "free" -> "failed"
               [] call[c].outcome = "ok" -> "complete"
               [] OTHER -> "outcome_unknown"

\* Variant: the report is published first, the invoice written down after that.
PublishedFirst(c) ==
  IF call[c].outcome = "ok" THEN Goto(c, "publishing") /\ UNCHANGED call ELSE Fails(c)

\* Without an answer the client gets the error; an invoice comes before anything else.
AfterOutcome(c) ==
  \/ call[c].outcome # "ok" /\ Fails(c)
  \/ call[c].outcome = "ok" /\ call[c].usage = NoUsage /\ Goto(c, "publishing") /\ UNCHANGED call
  \/ call[c].outcome = "ok" /\ call[c].usage # NoUsage /\ Goto(c, "billing") /\ UNCHANGED call

\* Variant: the row is written over whatever the revision is.
WriteOutcomeBlind(c) ==
  /\ At(c, "viewed")
  /\ \E v \in view :
       /\ v.caller = c
       /\ Transition(v.attempt, c, Target(c), NoCost, call[c].outcome = "free")
       /\ view' = view \ {v}
       /\ UNCHANGED <<count, cancel, evidence>>
  /\ AfterOutcome(c)
  /\ UNCHANGED <<task, bound, result, reports, world>>

\* A caller whose view is out of date, that lost the lease or meets an attempt that
\* ended otherwise gets an error and goes no further.
Writable(c, v) ==
  /\ v.revision = attempt[v.attempt].revision
  /\ TransitionAllowed(v.attempt, c, Target(c))

WriteOutcome(c) ==
  /\ At(c, "viewed")
  /\ \E v \in view :
       /\ v.caller = c
       /\ IF ~Writable(c, v) THEN UNCHANGED vars /\ Fails(c)
          ELSE /\ IF Target(c) = "outcome_unknown" THEN CommitUnknown(v, c)
                  ELSE CommitOutcome(v, c, Target(c), NoCost, call[c].outcome = "free")
               /\ AfterOutcome(c)
  /\ UNCHANGED <<task, bound, result, reports, world>>

\* reconcile_attempt on the attempt just completed; refused when the total is lower
\* than what is known already.
SettleInvoice(c) ==
  LET a == Latest(Asks[c])
      usage == call[c].usage IN
  /\ At(c, "billing")
  /\ IF usage.amount < bill[a].settled THEN UNCHANGED vars /\ Fails(c)
     ELSE /\ Reconcile(a, "complete", usage.amount, usage.final, c)
          /\ Goto(c, "publishing") /\ UNCHANGED call
  /\ UNCHANGED <<task, bound, result, reports, world>>

-----------------------------------------------------------------------------
(* Publication.                                                             *)

\* ReportStore.publish, under the exclusive locks: generation and revision are compared
\* once more.  A report made locally ends there.
PublishReport(c) ==
  /\ IsReport(c) /\ pc[c] \in {"publishing", "local"}
  /\ \/ /\ Fresh(c) /\ reports' = reports \cup {c}
        /\ IF At(c, "local") THEN Fails(c) ELSE Goto(c, "saving") /\ UNCHANGED call
     \/ Fails(c) /\ UNCHANGED reports
  /\ UNCHANGED <<vars, task, bound, result, world>>

\* INSERT ... ON CONFLICT DO NOTHING.
Saved(c) == [result EXCEPT ![Asks[c]] = IF @ = Nobody THEN c ELSE @]

SaveReport(c) ==
  /\ At(c, "saving")
  /\ result' = Saved(c) /\ Return(c, c)
  /\ UNCHANGED <<vars, task, bound, reports, world>>

\* A proposal is compared and saved under one publication lock.
SaveProposal(c) ==
  /\ At(c, "publishing") /\ ~IsReport(c)
  /\ \/ Fresh(c) /\ result' = Saved(c) /\ Return(c, c)
     \/ Fails(c) /\ UNCHANGED result
  /\ UNCHANGED <<vars, task, bound, reports, world>>

-----------------------------------------------------------------------------
(* What happens around the callers.                                         *)

\* Variant: settings are written without waiting for the callers that checked them.
ChangeAnytime ==
  /\ generation + policy < MaxChanges
  /\ \/ generation' = generation + 1 /\ UNCHANGED policy
     \/ policy' = policy + 1 /\ UNCHANGED generation
  /\ UNCHANGED <<vars, calls, stalled, crashes>>

\* A publication of the match, or Storage.update_match_config.
Change ==
  /\ ~DispatchPending
  /\ generation + policy < MaxChanges
  /\ \/ generation' = generation + 1 /\ UNCHANGED policy
     \/ policy' = policy + 1 /\ UNCHANGED generation
  /\ UNCHANGED <<vars, calls, stalled, crashes>>

\* A lease that runs out under a running attempt: its process is dead or suspended, or
\* its heartbeat thread failed.
Expire(a) ==
  /\ LeaseExpires(a)
  /\ stalled' = IF attempt[a].status \in Running THEN stalled \cup {a} ELSE stalled
  /\ UNCHANGED <<calls, generation, policy, crashes>>

\* The API is killed, with all its callers, and starts again: it reclaims the running
\* attempts whose lease ran out, perhaps while it was down.  Others stay as they are.
Restart ==
  /\ crashes < MaxCrashes /\ crashes' = crashes + 1
  /\ pc' = [c \in Caller |-> IF pc[c] \in {"start", "done"} THEN pc[c] ELSE "dead"]
  /\ call' = [c \in Caller |-> IF pc'[c] = "dead" THEN Left(call[c]) ELSE call[c]]
  /\ ReclaimExpired \/ (Expired = {} /\ UNCHANGED vars)
  /\ UNCHANGED <<task, bound, result, reports, generation, policy, stalled>>

CallerStep(c) ==
  \/ Read(c) \/ Deny(c) \/ Join(c) \/ Reserve(c)
  \/ Check(c) \/ Claim(c) \/ Lost(c) \/ NotSent(c) \/ Send(c) \/ KeepLease(c) \/ Answer(c)
  \/ ReadOutcome(c) \/ WriteOutcome(c) \/ SettleInvoice(c)
  \/ PublishReport(c) \/ SaveReport(c) \/ SaveProposal(c)

GatewayNext ==
  \/ \E c \in Caller : CallerStep(c)
  \/ \E a \in Admitted : Expire(a)
  \/ Change \/ Restart

GatewaySpec == GatewayInit /\ [][GatewayNext]_gvars
-----------------------------------------------------------------------------
(* What the gateway promises.                                               *)

Sent(c) == call[c].sent # Nobody
Stalled(r) == \E a \in stalled : a[1] = r

\* The provider executes a logical request once, whatever the duplicates, retries,
\* crashes and restarts: a retry is dispatched only after an attempt that never left
\* the machine.  Only a lease that runs out under a running attempt voids this.
CalledOnce ==
  \A c, d \in Caller :
    c # d /\ Sent(c) /\ Sent(d) /\ Asks[c] = Asks[d] => Stalled(Asks[c])

\* A bill is closed at zero only for an attempt that was never handed to the provider:
\* uncertainty is not free (ProviderNotDispatched is proof, a timeout is not).
FreeWasNotCalled ==
  \A c \in Caller :
    Sent(c) /\ call[c].sent \notin stalled /\ bill[call[c].sent].event = "final" =>
      \E e \in evidence : e.attempt = call[c].sent /\ e.kind = "final"

\* The invoice comes first: no report is published, no answer saved and no caller
\* told that its answer is stale before the ledger holds the invoice the answer came with.
\* Only a caller of a request under which a lease ran out may end without: an earlier
\* caller may have written a higher total on the attempt that it meant (settle_invoice).
InvoiceFirst ==
  \A c \in Caller :
    /\ call[c].usage # NoUsage
    /\ c \in reports \/ result[Asks[c]] = c \/ (pc[c] = "done" /\ ~Stalled(Asks[c]))
    => \E e \in evidence : e.id = c /\ e.amount = call[c].usage.amount

\* All callers of one logical request that get an answer get the same one, the saved one
\* (the replay before the claim, ON CONFLICT DO NOTHING), unless a lease ran out.
OneAnswer ==
  \A c \in Caller :
    call[c].answer # Nobody /\ ~Stalled(Asks[c]) => call[c].answer = result[Asks[c]]

\* However callers, crashes and changes interleave, what happens to the ledger is what
\* its own operations may do: all that is proved of JobLedger holds under the gateway.
ImplementsLedger == Spec

\* What is dispatched, published or saved was made from the generation and under the
\* settings (rights, provider, teams) that are current at that moment.  Nothing is said of
\* updatedAt: at its claim a caller's policy revision may be out of date by that alone.
CurrentStep(c) ==
  \/ pc[c] = "checked" /\ pc'[c] = "claimed"
  \/ c \in reports' \ reports
  \/ task[Asks[c]] = "proposal" /\ result'[Asks[c]] = c /\ result[Asks[c]] # c
  => Fresh(c)

CurrentOnly == [][\A c \in Caller : CurrentStep(c)]_gvars
=============================================================================
