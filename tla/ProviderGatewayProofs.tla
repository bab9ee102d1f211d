----------------------- MODULE ProviderGatewayProofs -----------------------
(***************************************************************************)
(* Proof that the provider gateway works the ledger only through the       *)
(* ledger's own operations, asks the provider once, says "free" only of    *)
(* what was not sent, puts the invoice first and gives one answer, for     *)
(* every set of callers, every price list and every number of changes and  *)
(* kills.                                                                  *)
(***************************************************************************)
EXTENDS ProviderGateway, JobLedgerProofs

\* A caller that was admitted has an attempt to name, and one that is about to
\* write an invoice has one.
CallersKnow ==
  \A c \in Caller :
    /\ pc[c] \in {"admitted", "checked", "claimed", "calling", "answered", "viewed", "billing"} => count[Asks[c]] > 0
    /\ pc[c] = "billing" => call[c].usage # NoUsage

GInv == IInv /\ GatewayTypeOK /\ CallersKnow

-----------------------------------------------------------------------------
(* The steps as steps of the ledger.                                        *)

LEMMA CallerFacts ==
  ASSUME NEW c \in Caller
  PROVE  c \in Owner /\ c \in Receipt /\ Asks[c] \in Provider /\ Asks[c] \in Request
  BY GatewayAssumption, LocalAssumption

\* The attempt that a caller names exists, once its request has one.
LEMMA NamedAdmitted ==
  ASSUME GInv, NEW c \in Caller, count[Asks[c]] > 0
  PROVE  Latest(Asks[c]) \in Admitted
<1>1. Asks[c] \in Request
  BY CallerFacts
<1> QED
  BY <1>1, LatestAdmitted DEF GInv, IInv

LEMMA RenewStep ==
  ASSUME GInv, NEW c \in Caller, count[Asks[c]] > 0,
         Renew(c) \/ Heartbeat(Latest(Asks[c]), c)
  PROVE  [Next]_vars
<1>1. Latest(Asks[c]) \in Admitted /\ c \in Owner
  BY CallerFacts, NamedAdmitted
<1>2. CASE UNCHANGED vars
  BY <1>2
<1>3. CASE Heartbeat(Latest(Asks[c]), c)
  BY <1>1, <1>3 DEF Next, LeaseSome
<1> QED
  BY <1>2, <1>3 DEF Renew

LEMMA ReserveStep ==
  ASSUME NEW c \in Caller, Reserve(c)
  PROVE  [Next]_vars
<1>1. PICK amount \in Amount : Admit(Asks[c], c, amount)
  BY DEF Reserve
<1> QED
  BY <1>1, CallerFacts DEF Next, AdmitSome

LEMMA ClaimStep ==
  ASSUME NEW c \in Caller, Claim(c)
  PROVE  [Next]_vars
<1>1. ClaimDispatch(Asks[c], c) \/ UNCHANGED vars
  BY DEF Claim
<1> QED
  BY <1>1, CallerFacts DEF Next, ClaimSome

LEMMA WriteOutcomeStep ==
  ASSUME NEW c \in Caller, WriteOutcome(c)
  PROVE  [Next]_vars
<1>1. PICK v \in view :
        \/ UNCHANGED vars
        \/ CommitUnknown(v, c)
        \/ Target(c) # "outcome_unknown" /\ CommitOutcome(v, c, Target(c), NoCost, call[c].outcome = "free")
  BY DEF WriteOutcome
<1>2. Target(c) # "outcome_unknown" => Target(c) \in Terminal
  BY DEF Target, Terminal
<1>3. c \in Owner /\ NoCost \in Amount \cup {NoCost} /\ (call[c].outcome = "free") \in BOOLEAN
  BY CallerFacts
<1>4. CASE CommitOutcome(v, c, Target(c), NoCost, call[c].outcome = "free") /\ Target(c) \in Terminal
  BY <1>3, <1>4 DEF Next, CommitSome
<1>5. CASE CommitUnknown(v, c)
  BY <1>3, <1>5 DEF Next, CommitSome
<1> QED
  BY <1>1, <1>2, <1>4, <1>5

LEMMA SettleInvoiceStep ==
  ASSUME GInv, NEW c \in Caller, SettleInvoice(c)
  PROVE  [Next]_vars
<1> DEFINE usage == call[c].usage
<1>1. count[Asks[c]] > 0 /\ usage # NoUsage
  BY DEF SettleInvoice, At, GInv, CallersKnow
<1>2. Latest(Asks[c]) \in Admitted /\ c \in Receipt
  BY <1>1, CallerFacts, NamedAdmitted
<1>3. usage.amount \in Amount /\ usage.final \in BOOLEAN
  BY <1>1 DEF GInv, GatewayTypeOK, Usage
<1>4. UNCHANGED vars \/ Reconcile(Latest(Asks[c]), "complete", usage.amount, usage.final, c)
  BY DEF SettleInvoice
<1>5. CASE Reconcile(Latest(Asks[c]), "complete", usage.amount, usage.final, c)
  <2>1. MoneySome
    BY <1>2, <1>3, <1>5 DEF MoneySome
  <2> QED
    BY <2>1 DEF Next
<1> QED
  BY <1>4, <1>5

\* Every step of the gateway is a step of the ledger, or leaves it alone.
LEMMA GatewayStep == GInv /\ [GatewayNext]_gvars => [Next]_vars
<1> SUFFICES ASSUME GInv, [GatewayNext]_gvars PROVE [Next]_vars
  OBVIOUS
<1>1. CASE \E c \in Caller : CallerStep(c)
  <2> PICK c \in Caller : CallerStep(c)
    BY <1>1
  <2>1. CASE Read(c) \/ Deny(c) \/ Join(c) \/ Check(c) \/ Lost(c) \/ Answer(c)
             \/ PublishReport(c) \/ SaveReport(c) \/ SaveProposal(c)
    BY <2>1 DEF Read, Deny, Join, Check, Lost, Answer, PublishReport, SaveReport, SaveProposal
  <2>2. CASE NotSent(c) \/ Send(c) \/ KeepLease(c)
    <3>1. count[Asks[c]] > 0 /\ (Renew(c) \/ Heartbeat(Latest(Asks[c]), c))
      BY <2>2 DEF NotSent, Send, KeepLease, At, GInv, CallersKnow
    <3> QED
      BY <3>1, RenewStep
  <2>3. CASE ReadOutcome(c)
    BY <2>3, CallerFacts DEF ReadOutcome, Next, ReadSome
  <2> QED
    BY <2>1, <2>2, <2>3, ReserveStep, ClaimStep, WriteOutcomeStep, SettleInvoiceStep DEF CallerStep
<1>2. CASE \E a \in Admitted : Expire(a)
  BY <1>2 DEF Expire, Next, LeaseSome
<1>3. CASE Change
  BY <1>3 DEF Change
<1>4. CASE Restart
  BY <1>4 DEF Restart, Next
<1>5. CASE UNCHANGED gvars
  BY <1>5 DEF gvars
<1> QED
  BY <1>1, <1>2, <1>3, <1>4, <1>5 DEF GatewayNext

-----------------------------------------------------------------------------
(* The gateway's own state.                                                 *)

CallRow == [generation : 0 .. MaxChanges, policy : 0 .. MaxChanges,
            anchor : 0 .. MaxAttempts, outcome : {"none", "free", "unknown", "ok"},
            usage : Usage, sent : Attempt \cup {Nobody}, answer : Caller \cup {Nobody}]

LEMMA NewCallRow == NewCall \in CallRow
  BY GatewayAssumption, AttemptsAssumption DEF NewCall, CallRow, Usage

\* What a caller that returns leaves behind.
LEMMA LeftRow ==
  ASSUME NEW row \in CallRow, NEW answer \in Caller \cup {Nobody}
  PROVE  Left([row EXCEPT !.answer = answer]) \in CallRow /\ Left(row) \in CallRow
  BY GatewayAssumption, AttemptsAssumption, NewCallRow DEF CallRow, Left, NewCall

\* A caller that is admitted, or goes on alone, forgets only what it would have retried.
LEMMA UnanchoredRow ==
  ASSUME call \in [Caller -> CallRow], NEW c \in Caller
  PROVE  /\ [call[c] EXCEPT !.anchor = 0] \in CallRow
         /\ Unanchored(c) => /\ call'[c].sent = call[c].sent /\ call'[c].usage = call[c].usage
                             /\ call'[c].outcome = call[c].outcome
                             /\ call'[c].answer = call[c].answer
  BY AttemptsAssumption DEF CallRow, Unanchored, Note

LEMMA NoteTyped ==
  ASSUME call \in [Caller -> CallRow], NEW c \in Caller, NEW row \in CallRow, Note(c, row)
  PROVE  call' \in [Caller -> CallRow]
  BY DEF Note

LEMMA GotoTyped ==
  ASSUME pc \in [Caller -> Steps], NEW c \in Caller, NEW step \in Steps, Goto(c, step)
  PROVE  /\ pc' \in [Caller -> Steps]
         /\ pc'[c] = step /\ \A d \in Caller \ {c} : pc'[d] = pc[d]
  BY DEF Goto

LEMMA ReturnTyped ==
  ASSUME pc \in [Caller -> Steps], call \in [Caller -> CallRow], NEW c \in Caller,
         NEW answer \in Caller \cup {Nobody}, Return(c, answer)
  PROVE  /\ pc' \in [Caller -> Steps] /\ call' \in [Caller -> CallRow]
         /\ pc'[c] = "done" /\ \A d \in Caller \ {c} : pc'[d] = pc[d] /\ call'[d] = call[d]
  BY LeftRow DEF Return, Goto, Note, Steps

LEMMA OutcomeTyped ==
  ASSUME call \in [Caller -> CallRow], NEW c \in Caller,
         NEW outcome \in {"none", "free", "unknown", "ok"}, NEW usage \in Usage,
         NEW sent \in Attempt \cup {Nobody}, Outcome(c, outcome, usage, sent)
  PROVE  call' \in [Caller -> CallRow]
  BY DEF Outcome, Note, CallRow

\* The attempts of a request become more, never fewer.
LEMMA CountGrows ==
  ASSUME IInv, [Next]_vars, NEW r \in Request
  PROVE  count'[r] >= count[r]
<1>1. count \in [Request -> 0 .. MaxAttempts] /\ AttemptsAssumption
  BY AttemptsAssumption DEF IInv, TypeOK
<1>2. CASE AdmitSome
  BY <1>1, <1>2 DEF AdmitSome, Admit
<1>3. CASE count' = count
  BY <1>1, <1>3
<1>4. CASE ~AdmitSome
  BY <1>3, <1>4 DEF Next, ClaimSome, ClaimDispatch, ClaimCancelled, ReadSome, ReadLatest, CommitSome,
     CommitRunning, CommitUnknown, CommitOutcome, Commit, LeaseSome, LeaseExpires, Heartbeat,
     ReclaimExpired, MoneySome, ReconcileUnbilled, Reconcile, RecordCharge, CancelSome,
     RequestCancel, ConfirmTermination, ConfirmCleanup, vars
<1> QED
  BY <1>2, <1>4

Working == {"admitted", "checked", "claimed", "calling", "answered", "viewed", "billing"}

\* What a step of one caller has to do about the invariant CallersKnow.
LEMMA KnowsStill ==
  ASSUME GInv, [Next]_vars, NEW c \in Caller,
         \A d \in Caller \ {c} : pc'[d] = pc[d] /\ call'[d] = call[d],
         pc'[c] \in Working => count'[Asks[c]] > 0,
         pc'[c] = "billing" => call'[c].usage # NoUsage
  PROVE  CallersKnow'
<1>1. SUFFICES ASSUME NEW d \in Caller
               PROVE  /\ pc'[d] \in Working => count'[Asks[d]] > 0
                      /\ pc'[d] = "billing" => call'[d].usage # NoUsage
  BY DEF CallersKnow, Working
<1>2. CASE d = c
  BY <1>2
<1>3. CASE d # c
  <2>1. count'[Asks[d]] >= count[Asks[d]] /\ count[Asks[d]] \in Int /\ count'[Asks[d]] \in Int
    <3>1. TypeOK /\ TypeOK'
      BY NextInvariant DEF GInv, IInv
    <3> QED
      BY <3>1, CountGrows, CallerFacts, AttemptsAssumption DEF GInv, TypeOK
  <2> QED
    BY <1>3, <2>1 DEF GInv, CallersKnow, Working
<1> QED
  BY <1>2, <1>3

\* A caller that goes on, with what it remembers.
LEMMA GoesOn ==
  ASSUME GInv, [Next]_vars, NEW c \in Caller, NEW step \in Steps, Goto(c, step),
         NEW row \in CallRow, Note(c, row) \/ (UNCHANGED call /\ row = call[c]),
         step \in Working => count'[Asks[c]] > 0, step = "billing" => row.usage # NoUsage
  PROVE  /\ pc' \in [Caller -> Steps] /\ call' \in [Caller -> CallRow]
         /\ CallersKnow'
<1>1. pc \in [Caller -> Steps] /\ call \in [Caller -> CallRow]
  BY DEF GInv, GatewayTypeOK, CallRow
<1>2. call' \in [Caller -> CallRow] /\ call'[c] = row /\ \A d \in Caller \ {c} : call'[d] = call[d]
  BY <1>1 DEF Note
<1>3. pc' \in [Caller -> Steps] /\ pc'[c] = step /\ \A d \in Caller \ {c} : pc'[d] = pc[d]
  BY <1>1, GotoTyped
<1> QED
  BY <1>2, <1>3, KnowsStill

\* A caller that returns.
LEMMA ReturnsTyped ==
  ASSUME GInv, [Next]_vars, NEW c \in Caller, NEW answer \in Caller \cup {Nobody}, Return(c, answer)
  PROVE  /\ pc' \in [Caller -> Steps] /\ call' \in [Caller -> CallRow]
         /\ CallersKnow'
<1>1. pc \in [Caller -> Steps] /\ call \in [Caller -> CallRow]
  BY DEF GInv, GatewayTypeOK, CallRow
<1>2. /\ pc' \in [Caller -> Steps] /\ call' \in [Caller -> CallRow]
      /\ pc'[c] = "done" /\ \A d \in Caller \ {c} : pc'[d] = pc[d] /\ call'[d] = call[d]
  BY <1>1, ReturnTyped, Zenon
<1> QED
  BY <1>2, KnowsStill DEF Working

CallerTyped == pc' \in [Caller -> Steps] /\ call' \in [Caller -> CallRow] /\ CallersKnow'

LEMMA CallerKeeps ==
  ASSUME GInv, [Next]_vars, NEW c \in Caller, CallerStep(c)
  PROVE  CallerTyped
<1> DEFINE r == Asks[c]
<1>1. /\ call[c] \in CallRow /\ call \in [Caller -> CallRow] /\ r \in Provider /\ r \in Request
      /\ Nobody \in Caller \cup {Nobody} /\ result[r] \in Caller \cup {Nobody}
  BY CallerFacts DEF GInv, GatewayTypeOK, CallRow
<1>2. /\ count[r] \in 0 .. MaxAttempts /\ count'[r] \in 0 .. MaxAttempts /\ count'[r] >= count[r]
      /\ pc[c] \in Working => count[r] > 0
  <2>1. TypeOK /\ TypeOK'
    BY NextInvariant DEF GInv, IInv
  <2> QED
    BY <1>1, <2>1, CountGrows DEF GInv, TypeOK, CallersKnow, Working
<1>3. CASE Read(c)
  <2>1. PICK anchor \in Anchors(c) :
          Note(c, [NewCall EXCEPT !.generation = generation, !.policy = policy, !.anchor = anchor])
    BY <1>3 DEF Read
  <2>2. anchor \in 0 .. MaxAttempts
    BY <1>2, AttemptsAssumption DEF Anchors
  <2>3. [NewCall EXCEPT !.generation = generation, !.policy = policy, !.anchor = anchor] \in CallRow
    BY <2>2, NewCallRow DEF CallRow, GInv, GatewayTypeOK, NewCall
  <2> QED
    BY <1>3, <2>1, <2>3, GoesOn DEF Read, Steps, Working, CallerTyped
<1>4. CASE Deny(c)
  <2>1. CASE Fails(c)
    BY <1>1, <2>1, ReturnsTyped DEF Fails, CallerTyped
  <2>2. CASE Goto(c, "local") /\ Unanchored(c)
    BY <1>1, <2>2, UnanchoredRow, GoesOn DEF Unanchored, Steps, Working, CallerTyped
  <2> QED
    BY <1>4, <2>1, <2>2 DEF Deny
<1>5. CASE Join(c)
  <2>1. count[r] > 0
    BY <1>5 DEF Join, Existing
  <2> QED
    BY <1>1, <1>2, <1>5, <2>1, UnanchoredRow, GoesOn
       DEF Join, Unanchored, Steps, Working, CallerTyped
<1>6. CASE Reserve(c)
  <2>1. count'[r] = count[r] + 1
    BY <1>1, <1>6 DEF Reserve, Admit, GInv, IInv, TypeOK
  <2> QED
    BY <1>1, <1>2, <1>6, <2>1, UnanchoredRow, GoesOn
       DEF Reserve, Unanchored, Steps, Working, CallerTyped
<1>7. CASE Check(c)
  <2>1. count[r] > 0
    BY <1>2, <1>7 DEF Check, At, Working
  <2>2. CASE Goto(c, "answered") /\ Note(c, [call[c] EXCEPT !.outcome = "free"])
    <3>1. [call[c] EXCEPT !.outcome = "free"] \in CallRow
      BY <1>1 DEF CallRow
    <3> QED
      BY <1>2, <2>1, <2>2, <3>1, GoesOn DEF Steps, Working, CallerTyped
  <2>3. CASE Return(c, result[r])
    BY <1>1, <2>3, ReturnsTyped DEF CallerTyped
  <2>4. CASE Goto(c, "checked") /\ UNCHANGED call
    BY <1>1, <1>2, <2>1, <2>4, GoesOn DEF Steps, Working, CallerTyped
  <2> QED
    BY <1>7, <2>2, <2>3, <2>4 DEF Check
<1>8. CASE Claim(c)
  <2>1. count[r] > 0
    BY <1>2, <1>8 DEF Claim, At, Working
  <2>2. CASE Goto(c, "claimed") /\ UNCHANGED call
    BY <1>1, <1>2, <2>1, <2>2, GoesOn DEF Steps, Working, CallerTyped
  <2>3. CASE Fails(c)
    BY <1>1, <2>3, ReturnsTyped DEF Fails, CallerTyped
  <2> QED
    BY <1>8, <2>2, <2>3 DEF Claim
<1>9. CASE Lost(c) \/ NotSent(c) \/ Send(c) \/ Answer(c)
  <2>1. PICK outcome \in {"none", "free", "unknown", "ok"}, usage \in Usage,
             sent \in Attempt \cup {Nobody}, step \in {"answered", "calling"} :
          Outcome(c, outcome, usage, sent) /\ Goto(c, step)
    <3>1. NoUsage \in Usage
      BY DEF Usage
    <3>2. pc[c] = "claimed" => Latest(r) \in Attempt
      BY <1>2, NamedAdmitted DEF Working, Admitted
    <3>3. call[c].sent \in Attempt \cup {Nobody}
      BY <1>1 DEF CallRow
    <3> QED
      BY <1>9, <3>1, <3>2, <3>3 DEF Lost, NotSent, Send, Answer, At
  <2>2. [call[c] EXCEPT !.outcome = outcome, !.usage = usage, !.sent = sent] \in CallRow
    BY <1>1 DEF CallRow
  <2>3. count[r] > 0
    BY <1>2, <1>9 DEF Lost, NotSent, Send, Answer, At, Working
  <2> QED
    BY <1>2, <2>1, <2>2, <2>3, GoesOn DEF Outcome, Steps, Working, CallerTyped
<1>10. CASE KeepLease(c)
  <2>1. pc' = pc /\ call' = call
    BY <1>10 DEF KeepLease, calls
  <2> QED
    BY <1>1, <1>2, <2>1, KnowsStill DEF CallerTyped, GInv, GatewayTypeOK, CallersKnow, CallRow, Working
<1>11. CASE ReadOutcome(c)
  <2>1. count[r] > 0
    BY <1>2, <1>11 DEF ReadOutcome, At, Working
  <2> QED
    BY <1>1, <1>2, <1>11, <2>1, GoesOn DEF ReadOutcome, Steps, Working, CallerTyped
<1>12. CASE WriteOutcome(c)
  <2>1. Fails(c) \/ AfterOutcome(c)
    BY <1>12 DEF WriteOutcome
  <2>2. count[r] > 0
    BY <1>2, <1>12 DEF WriteOutcome, At, Working
  <2>3. CASE Fails(c)
    BY <1>1, <2>3, ReturnsTyped DEF Fails, CallerTyped
  <2>4. CASE Goto(c, "publishing") /\ UNCHANGED call
    BY <1>1, <2>4, GoesOn DEF Steps, Working, CallerTyped
  <2>5. CASE call[c].usage # NoUsage /\ Goto(c, "billing") /\ UNCHANGED call
    BY <1>1, <1>2, <2>2, <2>5, GoesOn DEF Steps, Working, CallerTyped
  <2> QED
    BY <2>1, <2>3, <2>4, <2>5 DEF AfterOutcome
<1>13. CASE SettleInvoice(c)
  <2>1. CASE Fails(c)
    BY <1>1, <2>1, ReturnsTyped DEF Fails, CallerTyped
  <2>2. CASE Goto(c, "publishing") /\ UNCHANGED call
    BY <1>1, <2>2, GoesOn DEF Steps, Working, CallerTyped
  <2> QED
    BY <1>13, <2>1, <2>2 DEF SettleInvoice
<1>14. CASE PublishReport(c)
  <2>1. CASE Goto(c, "saving") /\ UNCHANGED call
    BY <1>1, <2>1, GoesOn DEF Steps, Working, CallerTyped
  <2>2. CASE Fails(c)
    BY <1>1, <2>2, ReturnsTyped DEF Fails, CallerTyped
  <2> QED
    BY <1>14, <2>1, <2>2 DEF PublishReport
<1>15. CASE SaveReport(c) \/ SaveProposal(c)
  <2>1. Return(c, c) \/ Return(c, Nobody)
    BY <1>15 DEF SaveReport, SaveProposal, Fails
  <2> QED
    BY <2>1, ReturnsTyped DEF CallerTyped
<1> QED
  BY <1>3, <1>4, <1>5, <1>6, <1>7, <1>8, <1>9, <1>10, <1>11, <1>12, <1>13, <1>14, <1>15 DEF CallerStep

-----------------------------------------------------------------------------
(* Theorems.                                                                *)

\* The variables a caller's step may change besides the caller's own.
LEMMA CallerWorld ==
  ASSUME GInv, [Next]_vars, NEW c \in Caller, CallerStep(c)
  PROVE  /\ task' = task /\ generation' = generation /\ policy' = policy
         /\ stalled' = stalled /\ crashes' = crashes
         /\ bound' \in [Provider -> 0 .. MaxChanges]
         /\ result' \in [Provider -> Caller \cup {Nobody}] /\ reports' \subseteq Caller
<1>1. /\ bound \in [Provider -> 0 .. MaxChanges] /\ call[c].generation \in 0 .. MaxChanges
      /\ result \in [Provider -> Caller \cup {Nobody}] /\ reports \subseteq Caller
  BY DEF GInv, GatewayTypeOK
<1>2. Saved(c) \in [Provider -> Caller \cup {Nobody}]
  BY <1>1 DEF Saved
<1>3. [bound EXCEPT ![Asks[c]] = call[c].generation] \in [Provider -> 0 .. MaxChanges]
  BY <1>1
<1> QED
  BY <1>1, <1>2, <1>3 DEF CallerStep, Read, Deny, Join, Reserve, Check, Claim, Lost, NotSent, Send,
     KeepLease, Answer, ReadOutcome, WriteOutcome, SettleInvoice, PublishReport, SaveReport,
     SaveProposal, world, calls

LEMMA GatewayInitInvariant == GatewayInit => GInv
<1> SUFFICES ASSUME GatewayInit PROVE GInv
  OBVIOUS
<1>1. IInv
  BY InitInvariant DEF GatewayInit
<1>2. GatewayTypeOK
  BY NewCallRow, GatewayAssumption DEF GatewayInit, GatewayTypeOK, CallRow, Steps
<1>3. CallersKnow
  BY DEF GatewayInit, CallersKnow
<1> QED
  BY <1>1, <1>2, <1>3 DEF GInv

LEMMA RestartTyped ==
  ASSUME GInv, [Next]_vars, Restart
  PROVE  pc' \in [Caller -> Steps] /\ call' \in [Caller -> CallRow] /\ CallersKnow'
<1>1. pc \in [Caller -> Steps] /\ call \in [Caller -> CallRow]
  BY DEF GInv, GatewayTypeOK, CallRow
<1>2. \A c \in Caller : Left(call[c]) \in CallRow
  BY <1>1, LeftRow
<1>3. pc' \in [Caller -> Steps] /\ \A c \in Caller : pc'[c] \in {"start", "done", "dead"}
  BY <1>1 DEF Restart, Steps
<1>4. call' \in [Caller -> CallRow]
  BY <1>1, <1>2 DEF Restart
<1>5. CallersKnow'
  BY <1>3 DEF CallersKnow
<1> QED
  BY <1>3, <1>4, <1>5

LEMMA GatewayNextInvariant == GInv /\ [GatewayNext]_gvars => GInv'
<1> SUFFICES ASSUME GInv, [GatewayNext]_gvars PROVE GInv'
  OBVIOUS
<1>1. [Next]_vars /\ IInv'
  BY GatewayStep, NextInvariant DEF GInv
<1>2. CASE \E c \in Caller : CallerStep(c)
  <2> PICK c \in Caller : CallerStep(c)
    BY <1>2
  <2> QED
    BY <1>1, CallerKeeps, CallerWorld DEF CallerTyped, GInv, GatewayTypeOK, CallRow
<1>3. CASE \E a \in Admitted : Expire(a)
  <2>1. UNCHANGED calls /\ UNCHANGED <<generation, policy, crashes, count>> /\ stalled' \subseteq Attempt
    BY <1>3 DEF Expire, LeaseExpires, GInv, GatewayTypeOK, Admitted
  <2> QED
    BY <1>1, <2>1 DEF calls, GInv, GatewayTypeOK, CallersKnow
<1>4. CASE Change
  <2>1. UNCHANGED <<calls, stalled, crashes, count>>
    BY <1>4 DEF Change, vars
  <2>2. generation' \in 0 .. MaxChanges /\ policy' \in 0 .. MaxChanges
    BY <1>4, GatewayAssumption DEF Change, GInv, GatewayTypeOK
  <2> QED
    BY <1>1, <2>1, <2>2 DEF calls, GInv, GatewayTypeOK, CallersKnow
<1>5. CASE Restart
  BY <1>1, <1>5, RestartTyped, GatewayAssumption DEF Restart, GInv, GatewayTypeOK, CallRow
<1>6. CASE UNCHANGED gvars
  BY <1>1, <1>6 DEF gvars, vars, calls, world, GInv, GatewayTypeOK, CallersKnow
<1> QED
  BY <1>2, <1>3, <1>4, <1>5, <1>6 DEF GatewayNext

\* The gateway's own state is well typed, whatever the callers do.
THEOREM GatewayTypeCorrect == GatewaySpec => []GatewayTypeOK
<1>1. GInv => GatewayTypeOK
  BY DEF GInv
<1> QED
  BY <1>1, GatewayInitInvariant, GatewayNextInvariant, PTL DEF GatewaySpec

\* The gateway implements the ledger: every invariant and every action property
\* proved of JobLedger holds under its callers, for any number of them.
THEOREM GatewayImplementsLedger == GatewaySpec => ImplementsLedger
<1>1. GatewayInit => Init
  BY DEF GatewayInit
<1> QED
  BY <1>1, GatewayInitInvariant, GatewayNextInvariant, GatewayStep, PTL
     DEF GatewaySpec, ImplementsLedger, Spec

-----------------------------------------------------------------------------
(* What is dispatched or published is current.                              *)

\* A caller that has checked is up to date until it claims, since it holds off the
\* writers; and only reports are saved after they were published.
CheckedFresh ==
  \A c \in Caller : (pc[c] = "checked" => Fresh(c)) /\ (pc[c] = "saving" => IsReport(c))

\* A step of one caller leaves the others, and what they read, alone.
LEMMA OthersStay ==
  ASSUME GInv, [Next]_vars, NEW c \in Caller, CallerStep(c), NEW d \in Caller, d # c
  PROVE  pc'[d] = pc[d] /\ call'[d] = call[d]
<1>1. pc \in [Caller -> Steps] /\ call \in [Caller -> CallRow]
  BY DEF GInv, GatewayTypeOK, CallRow
<1> QED
  BY <1>1 DEF CallerStep, Read, Deny, Join, Reserve, Check, Claim, Lost, NotSent, Send, KeepLease,
     Answer, ReadOutcome, WriteOutcome, AfterOutcome, SettleInvoice, PublishReport, SaveReport,
     SaveProposal, Unanchored, Outcome, Fails, Return, Goto, Note, calls

LEMMA CheckedFreshKept == GInv /\ CheckedFresh /\ [GatewayNext]_gvars => CheckedFresh'
<1> SUFFICES ASSUME GInv, CheckedFresh, [GatewayNext]_gvars PROVE CheckedFresh'
  OBVIOUS
<1>1. [Next]_vars /\ pc \in [Caller -> Steps] /\ call \in [Caller -> CallRow]
  BY GatewayStep DEF GInv, GatewayTypeOK, CallRow
<1>2. CASE \E c \in Caller : CallerStep(c)
  <2> PICK c \in Caller : CallerStep(c)
    BY <1>2
  <2>1. generation' = generation /\ policy' = policy /\ task' = task
    BY <1>1, CallerWorld
  <2>2. ASSUME NEW d \in Caller, d # c
        PROVE  (pc'[d] = "checked" => Fresh(d)') /\ (pc'[d] = "saving" => IsReport(d)')
    BY <1>1, <2>1, <2>2, OthersStay DEF CheckedFresh, Fresh, IsReport
  <2>3. pc'[c] = "checked" => Check(c) /\ Fresh(c) /\ call' = call
    BY <1>1 DEF CallerStep, Read, Deny, Join, Reserve, Check, Claim, Lost, NotSent, Send, KeepLease,
       Answer, ReadOutcome, WriteOutcome, AfterOutcome, SettleInvoice, PublishReport, SaveReport,
       SaveProposal, Fails, Return, Goto, At, calls
  <2>4. pc'[c] = "saving" => IsReport(c)
    BY <1>1 DEF CallerStep, Read, Deny, Join, Reserve, Check, Claim, Lost, NotSent, Send, KeepLease,
       Answer, ReadOutcome, WriteOutcome, AfterOutcome, SettleInvoice, PublishReport, SaveReport,
       SaveProposal, Fails, Return, Goto, At, calls
  <2> QED
    BY <2>1, <2>2, <2>3, <2>4 DEF CheckedFresh, Fresh, IsReport
<1>3. CASE \E a \in Admitted : Expire(a)
  BY <1>3 DEF Expire, calls, CheckedFresh, Fresh, IsReport
<1>4. CASE Change
  <2>1. pc' = pc /\ task' = task /\ \A c \in Caller : pc[c] # "checked"
    BY <1>4 DEF Change, calls, DispatchPending
  <2> QED
    BY <2>1 DEF CheckedFresh, IsReport
<1>5. CASE Restart
  <2>1. \A c \in Caller : pc'[c] \in {"start", "done", "dead"}
    BY <1>5 DEF Restart
  <2> QED
    BY <2>1 DEF CheckedFresh
<1>6. CASE UNCHANGED gvars
  BY <1>6 DEF gvars, calls, world, CheckedFresh, Fresh, IsReport
<1> QED
  BY <1>2, <1>3, <1>4, <1>5, <1>6 DEF GatewayNext

LEMMA StepsAreCurrent ==
  ASSUME GInv, CheckedFresh, [GatewayNext]_gvars, NEW c \in Caller
  PROVE  CurrentStep(c)
<1>1. pc \in [Caller -> Steps] /\ result \in [Provider -> Caller \cup {Nobody}] /\ Nobody \notin Caller
  BY GatewayAssumption DEF GInv, GatewayTypeOK
<1>2. pc[c] = "checked" => Fresh(c)
  BY DEF CheckedFresh
<1>3. c \in reports' \ reports => Fresh(c)
  BY DEF GatewayNext, CallerStep, Read, Deny, Join, Reserve, Check, Claim, Lost, NotSent, Send,
     KeepLease, Answer, ReadOutcome, WriteOutcome, SettleInvoice, PublishReport, SaveReport,
     SaveProposal, Expire, Change, Restart, calls, gvars
<1>4. ASSUME result'[Asks[c]] = c, result[Asks[c]] # c, task[Asks[c]] = "proposal"
      PROVE  Fresh(c)
  <2>1. PICK d \in Caller : (SaveReport(d) \/ SaveProposal(d)) /\ result' # result
    BY <1>4 DEF GatewayNext, CallerStep, Read, Deny, Join, Reserve, Check, Claim, Lost, NotSent, Send,
       KeepLease, Answer, ReadOutcome, WriteOutcome, SettleInvoice, PublishReport,
       Expire, Change, Restart, calls, gvars
  <2>2. result' = Saved(d)
    BY <2>1 DEF SaveReport, SaveProposal
  <2>3. d = c
    BY <1>1, <1>4, <2>2, CallerFacts DEF Saved
  <2>4. SaveProposal(c)
    BY <1>4, <2>1, <2>3 DEF SaveReport, At, CheckedFresh, IsReport
  <2> QED
    BY <2>1, <2>4 DEF SaveProposal
<1> QED
  BY <1>2, <1>3, <1>4 DEF CurrentStep

\* What is dispatched, published or saved was made from the evidence and under the
\* settings of that moment, for any number of callers and of changes.  The settings are
\* what the publication lock guards; that updatedAt has not moved since is not claimed.
THEOREM DispatchedIsCurrent == GatewaySpec => CurrentOnly
<1>1. GatewayInit => CheckedFresh
  BY DEF GatewayInit, CheckedFresh
<1>2. GInv /\ CheckedFresh /\ [GatewayNext]_gvars => [\A c \in Caller : CurrentStep(c)]_gvars
  BY StepsAreCurrent
<1> QED
  BY <1>1, <1>2, GatewayInitInvariant, GatewayNextInvariant, CheckedFreshKept, PTL
     DEF GatewaySpec, CurrentOnly
-----------------------------------------------------------------------------
(* One call, one answer, the invoice first.  The invariant says where a     *)
(* caller is in its call, and what the ledger holds of the attempt it sent: *)
(* as long as no lease ran out under it, that attempt is its request's last *)
(* one, and runs under the caller's lease or has an outcome that no retry   *)
(* may follow.                                                              *)

\* Until it sends, a caller has no call, no invoice and no answer of its own.
Unsent == {"start", "read", "admitted", "checked", "claimed", "local"}

CallOK(c) ==
  /\ pc[c] \in Unsent => call[c].sent = Nobody /\ call[c].usage = NoUsage /\ call[c].answer = Nobody
  /\ pc[c] \in {"calling", "billing", "publishing", "saving"} => Sent(c)
  /\ pc[c] = "calling" => call[c].usage = NoUsage
  /\ pc[c] \in {"answered", "viewed"} =>
       /\ call[c].outcome = "free" => call[c].sent = Nobody
       /\ call[c].outcome = "ok" => Sent(c)
       /\ call[c].usage # NoUsage => call[c].outcome = "ok"
  /\ call[c].usage # NoUsage => Sent(c)
  /\ pc[c] \notin {"done", "dead"} => call[c].answer = Nobody
  /\ Sent(c) => call[c].sent \in Admitted /\ call[c].sent[1] = Asks[c]

\* What was saved or published was sent for, by callers that are about done.
ResultsOK ==
  /\ \A r \in Provider : result[r] # Nobody => Asks[result[r]] = r /\ Sent(result[r])
  /\ \A c \in Caller : c \in reports \/ result[Asks[c]] = c => pc[c] \in {"saving", "done", "dead"}

\* The ledger as the gateway uses it.
LedgerUse ==
  /\ \A r \in Request : ~cancel[r]
  /\ \A a \in Admitted : attempt[a].status \in Live => bill[a].event = "none" /\ bill[a].settled = 0
  /\ \A r \in Request : \A k \in 1 .. count[r] - 1 : attempt[<<r, k>>].status # "complete"
  /\ \A v \in view : v.attempt[1] = Asks[v.caller]

Decisive == {"complete", "outcome_unknown"}

RunsFor(c, a) == attempt[a].status = "running" /\ attempt[a].owner = c /\ attempt[a].leased

ClaimOK(c) ==
  /\ pc[c] = "claimed" /\ attempt[Latest(Asks[c])].owner = c =>
       attempt[Latest(Asks[c])].status = "running"
  /\ pc[c] = "billing" => attempt[Latest(Asks[c])].status \in Decisive

SentOK(c) ==
  Sent(c) /\ call[c].sent \notin stalled =>
    LET a == call[c].sent IN
    /\ a = Latest(Asks[c])
    /\ RunsFor(c, a) \/ attempt[a].status \in Decisive
    /\ pc[c] \in {"calling", "answered", "viewed"} => RunsFor(c, a)
    /\ pc[c] = "viewed" =>
         \A v \in view : v.caller = c => v.attempt = a /\ v.revision = attempt[a].revision

InvoiceKept(c) == \E e \in evidence : e.id = c /\ e.amount = call[c].usage.amount

PaidOK(c) ==
  /\ pc[c] = "billing" /\ ~Stalled(Asks[c]) => bill[Latest(Asks[c])].settled = 0
  /\ pc[c] \in {"publishing", "saving"} /\ call[c].usage # NoUsage => InvoiceKept(c)

CallsOK == \A c \in Caller : CallOK(c) /\ ClaimOK(c) /\ SentOK(c) /\ PaidOK(c)

CallInv ==
  /\ GInv /\ LedgerUse /\ ResultsOK /\ CallsOK
  /\ CalledOnce /\ FreeWasNotCalled /\ InvoiceFirst /\ OneAnswer

-----------------------------------------------------------------------------
(* What a step of the gateway does to the row and the bill of one attempt.  *)

RowKept(x) ==
  /\ attempt'[x].status = attempt[x].status
  /\ attempt'[x].owner = attempt[x].owner
  /\ attempt'[x].revision = attempt[x].revision
  /\ bill'[x] = bill[x]
  /\ attempt[x].leased /\ attempt[x].status \in Running => attempt'[x].leased \/ x \in stalled'

\* Claimed, written or billed by the caller d, reclaimed by a restart.
Claimed(d, x) ==
  /\ pc[d] = "checked" /\ x = Latest(Asks[d])
  /\ attempt[x].status = "submitted"
  /\ attempt'[x] = Moved(attempt[x], d, "running") /\ bill'[x] = bill[x]

Written(d, x) ==
  /\ pc[d] = "viewed"
  /\ \E v \in view : v.caller = d /\ v.attempt = x /\ v.revision = attempt[x].revision
  /\ TransitionAllowed(x, d, Target(d))
  /\ attempt'[x] = Moved(attempt[x], d, Target(d))
  /\ bill'[x] = BillAfter(x, Target(d), NoCost, call[d].outcome = "free")

Billed(d, x) ==
  LET usage == call[d].usage IN
  /\ pc[d] = "billing" /\ x = Latest(Asks[d])
  /\ attempt'[x] = Decided(attempt[x], "complete", usage.final)
  /\ bill'[x] = Invoiced(bill[x], usage.amount, usage.final)
  /\ Receive(d, x, IF usage.final THEN "final" ELSE "partial", usage.amount)

ReclaimedRow(x) ==
  /\ attempt[x].status \in Running /\ ~attempt[x].leased
  /\ attempt'[x] = Reclaimed(attempt[x]) /\ bill'[x] = MarkUnsettled(bill[x])
  /\ \A d \in Caller : pc'[d] \in {"start", "done", "dead"}

LEMMA LedgerTypes ==
  ASSUME GInv
  PROVE  /\ attempt \in [Attempt -> AttemptRow] /\ bill \in [Attempt -> Bill]
         /\ count \in [Request -> 0 .. MaxAttempts] /\ cancel \in [Request -> BOOLEAN]
         /\ \A x \in Admitted : /\ x \in Attempt /\ attempt[x] \in AttemptRow /\ bill[x] \in Bill
                                /\ attempt[x].status \in Status /\ x[1] \in Request
  BY DEF GInv, IInv, TypeOK, StatusOK, Admitted, Attempt

LEMMA UntouchedRow ==
  ASSUME NEW x, attempt'[x] = attempt[x], bill'[x] = bill[x]
  PROVE  RowKept(x)
  BY DEF RowKept

LEMMA HeartbeatRow ==
  ASSUME GInv, NEW a \in Admitted, NEW o, Heartbeat(a, o), NEW x \in Admitted
  PROVE  RowKept(x)
<1>1. /\ attempt' = [attempt EXCEPT ![a].leased = TRUE] /\ bill' = bill
  BY DEF Heartbeat
<1>2. CASE x = a
  BY <1>1, <1>2, LedgerTypes DEF RowKept, AttemptRow
<1>3. CASE x # a
  <2>1. attempt'[x] = attempt[x]
    BY <1>1, <1>3, LedgerTypes
  <2> QED
    BY <1>1, <2>1, UntouchedRow
<1> QED
  BY <1>2, <1>3

\* No attempt of the gateway is cancelled.
LEMMA NotCoerced ==
  ASSUME GInv, LedgerUse, NEW a \in Admitted, NEW target
  PROVE  Coerced(a, target) = target
  BY LedgerTypes DEF LedgerUse, Coerced

LEMMA TransitionRow ==
  ASSUME GInv, LedgerUse, NEW a \in Admitted, NEW o, NEW target, NEW noCharge,
         Transition(a, o, target, NoCost, noCharge)
  PROVE  /\ TransitionAllowed(a, o, target)
         /\ attempt'[a] = Moved(attempt[a], o, target)
         /\ bill'[a] = BillAfter(a, target, NoCost, noCharge)
         /\ \A x \in Admitted : x # a => attempt'[x] = attempt[x] /\ bill'[x] = bill[x]
<1>1. Coerced(a, target) = target
  BY NotCoerced
<1>2. /\ TransitionAllowed(a, o, target)
      /\ attempt' = [attempt EXCEPT ![a] = Moved(attempt[a], o, target)]
      /\ bill' = [bill EXCEPT ![a] = BillAfter(a, target, NoCost, noCharge)]
  BY <1>1 DEF Transition
<1> QED
  BY <1>2, LedgerTypes

LEMMA CallerRows ==
  ASSUME GInv, LedgerUse, NEW c \in Caller, CallerStep(c), NEW x \in Admitted
  PROVE  RowKept(x) \/ Claimed(c, x) \/ Written(c, x) \/ Billed(c, x)
<1> DEFINE a == Latest(Asks[c])
<1>1. pc[c] \in Working => count[Asks[c]] > 0 /\ a \in Admitted
  BY NamedAdmitted DEF Working, GInv, CallersKnow
<1>2. CASE UNCHANGED vars
  BY <1>2, UntouchedRow DEF vars
<1>3. CASE Read(c) \/ Deny(c) \/ Join(c) \/ Check(c) \/ Lost(c) \/ Answer(c)
           \/ PublishReport(c) \/ SaveReport(c) \/ SaveProposal(c)
  BY <1>2, <1>3 DEF Read, Deny, Join, Check, Lost, Answer, PublishReport, SaveReport, SaveProposal
<1>4. CASE Reserve(c)
  <2>1. PICK amount \in Amount : Admit(Asks[c], c, amount)
    BY <1>4 DEF Reserve
  <2>2. x # <<Asks[c], count[Asks[c]] + 1>>
    BY <2>1, CallerFacts, AdmitAttempts DEF GInv
  <2> QED
    BY <2>1, <2>2, LedgerTypes, UntouchedRow DEF Admit
<1>5. CASE Claim(c)
  <2>1. CASE ClaimDispatch(Asks[c], c)
    <3>1. /\ Transition(a, c, "running", NoCost, FALSE) /\ attempt[a].status = "submitted"
          /\ pc[c] = "checked"
      BY <1>5, <2>1, CallerFacts DEF ClaimDispatch, Claim, At
    <3>2. a \in Admitted
      BY <1>1, <3>1 DEF Working
    <3>3. /\ attempt'[a] = Moved(attempt[a], c, "running")
          /\ bill'[a] = BillAfter(a, "running", NoCost, FALSE)
          /\ \A y \in Admitted : y # a => attempt'[y] = attempt[y] /\ bill'[y] = bill[y]
      <4>1. PICK free : free = FALSE
        OBVIOUS
      <4>2. Transition(a, c, "running", NoCost, free)
        BY <3>1, <4>1, Zenon
      <4> HIDE DEF a
      <4>3. /\ attempt'[a] = Moved(attempt[a], c, "running")
            /\ bill'[a] = BillAfter(a, "running", NoCost, free)
            /\ \A y \in Admitted : y # a => attempt'[y] = attempt[y] /\ bill'[y] = bill[y]
        BY <3>2, <4>2, TransitionRow
      <4> QED
        BY <4>1, <4>3, Zenon
    <3>4. bill'[a] = bill[a]
      BY <3>3 DEF BillAfter, Closes, Terminal
    <3> QED
      BY <3>1, <3>3, <3>4, UntouchedRow DEF Claimed
  <2> QED
    BY <1>2, <1>5, <2>1 DEF Claim
<1>6. CASE NotSent(c) \/ Send(c) \/ KeepLease(c)
  <2>1. a \in Admitted
    BY <1>1, <1>6 DEF NotSent, Send, KeepLease, At, Working
  <2>2. UNCHANGED vars \/ Heartbeat(a, c)
    BY <1>6 DEF NotSent, Send, KeepLease, Renew
  <2> QED
    BY <1>2, <2>1, <2>2, HeartbeatRow
<1>7. CASE ReadOutcome(c)
  BY <1>7, UntouchedRow DEF ReadOutcome, ReadLatest
<1>8. CASE WriteOutcome(c)
  <2>1. PICK v \in view :
          /\ v.caller = c
          /\ \/ UNCHANGED vars
             \/ /\ Writable(c, v)
                /\ \/ Target(c) = "outcome_unknown" /\ CommitUnknown(v, c)
                   \/ CommitOutcome(v, c, Target(c), NoCost, call[c].outcome = "free")
    BY <1>8 DEF WriteOutcome
  <2>2. v.attempt \in Admitted
    BY DEF GInv, IInv, ViewBounded
  <2>3. CASE Writable(c, v) /\ Transition(v.attempt, c, Target(c), NoCost, call[c].outcome = "free")
    <3>1. /\ TransitionAllowed(v.attempt, c, Target(c))
          /\ attempt'[v.attempt] = Moved(attempt[v.attempt], c, Target(c))
          /\ bill'[v.attempt] = BillAfter(v.attempt, Target(c), NoCost, call[c].outcome = "free")
          /\ \A y \in Admitted : y # v.attempt => attempt'[y] = attempt[y] /\ bill'[y] = bill[y]
      BY <2>2, <2>3, TransitionRow
    <3> QED
      BY <1>8, <2>1, <2>3, <3>1, UntouchedRow DEF Written, Writable, WriteOutcome, At
  <2>4. CASE Writable(c, v) /\ Target(c) = "outcome_unknown" /\ CommitUnknown(v, c)
    <3>1. call[c].outcome # "free"
      BY <2>4 DEF Target
    <3>2. Transition(v.attempt, c, Target(c), NoCost, call[c].outcome = "free")
      BY <2>4, <3>1 DEF CommitUnknown, Commit
    <3> QED
      BY <2>3, <2>4, <3>2
  <2>5. CASE Writable(c, v) /\ CommitOutcome(v, c, Target(c), NoCost, call[c].outcome = "free")
    BY <2>3, <2>5 DEF CommitOutcome, Commit
  <2> QED
    BY <1>2, <2>1, <2>4, <2>5
<1>9. CASE SettleInvoice(c)
  <2> DEFINE usage == call[c].usage
  <2>1. CASE Reconcile(a, "complete", usage.amount, usage.final, c)
    <3>1. pc[c] = "billing" /\ a \in Admitted
      BY <1>1, <1>9 DEF SettleInvoice, At, Working
    <3>2. /\ attempt' = [attempt EXCEPT ![a] = Decided(attempt[a], "complete", usage.final)]
          /\ bill' = [bill EXCEPT ![a] = Invoiced(bill[a], usage.amount, usage.final)]
          /\ Receive(c, a, IF usage.final THEN "final" ELSE "partial", usage.amount)
      BY <2>1 DEF Reconcile
    <3>3. CASE x = a
      BY <3>1, <3>2, <3>3, LedgerTypes DEF Billed
    <3>4. CASE x # a
      BY <3>2, <3>4, LedgerTypes, UntouchedRow
    <3> QED
      BY <3>3, <3>4
  <2> QED
    BY <1>2, <1>9, <2>1 DEF SettleInvoice
<1> QED
  BY <1>3, <1>4, <1>5, <1>6, <1>7, <1>8, <1>9 DEF CallerStep
\* A step of the gateway: of a caller, of the clock, of a writer, or a restart.
LEMMA GatewayRows ==
  ASSUME GInv, LedgerUse, [GatewayNext]_gvars, NEW x \in Admitted
  PROVE  \/ RowKept(x) \/ ReclaimedRow(x)
         \/ \E d \in Caller : CallerStep(d) /\ (Claimed(d, x) \/ Written(d, x) \/ Billed(d, x))
<1>1. CASE \E d \in Caller : CallerStep(d)
  BY <1>1, CallerRows
<1>2. CASE \E a \in Admitted : Expire(a)
  <2>1. PICK a \in Admitted : Expire(a)
    BY <1>2
  <2>2. /\ attempt' = [attempt EXCEPT ![a].leased = FALSE] /\ bill' = bill
        /\ attempt[a].status \in Running => a \in stalled'
    BY <2>1 DEF Expire, LeaseExpires
  <2>3. CASE x = a
    BY <2>2, <2>3, LedgerTypes DEF RowKept, AttemptRow
  <2>4. CASE x # a
    <3>1. attempt'[x] = attempt[x]
      BY <2>2, <2>4, LedgerTypes
    <3> QED
      BY <2>2, <3>1, UntouchedRow
  <2> QED
    BY <2>3, <2>4
<1>3. CASE Change
  BY <1>3, UntouchedRow DEF Change, vars
<1>4. CASE Restart
  <2>1. CASE UNCHANGED vars
    BY <2>1, UntouchedRow DEF vars
  <2>2. CASE ReclaimExpired /\ x \in Expired
    <3>1. \A d \in Caller : pc'[d] \in {"start", "done", "dead"}
      BY <1>4 DEF Restart
    <3> QED
      BY <2>2, <3>1, LedgerTypes DEF ReclaimExpired, Expired, ReclaimedRow
  <2>3. CASE ReclaimExpired /\ x \notin Expired
    BY <2>3, LedgerTypes, UntouchedRow DEF ReclaimExpired
  <2> QED
    BY <1>4, <2>1, <2>2, <2>3 DEF Restart
<1>5. CASE UNCHANGED gvars
  BY <1>5, UntouchedRow DEF gvars, vars
<1> QED
  BY <1>1, <1>2, <1>3, <1>4, <1>5 DEF GatewayNext

\* Nothing is forgotten: attempts, receipts, lost leases, saved answers.
LEMMA GatewayGrows ==
  ASSUME GInv, [GatewayNext]_gvars
  PROVE  /\ Admitted \subseteq Admitted' /\ evidence \subseteq evidence' /\ stalled \subseteq stalled'
         /\ \A r \in Provider : result[r] # Nobody => result'[r] = result[r]
<1>1. [Next]_vars
  BY GatewayStep
<1>2. Admitted \subseteq Admitted'
  <2>1. ASSUME NEW x \in Admitted PROVE x \in Admitted'
    <3>1. x \in Attempt /\ x[1] \in Request /\ x[2] \in Int /\ x[2] <= count[x[1]]
      BY DEF Admitted, Attempt
    <3>2. count'[x[1]] >= count[x[1]] /\ count[x[1]] \in Int /\ count'[x[1]] \in Int
      <4>1. TypeOK /\ TypeOK'
        BY <1>1, NextInvariant DEF GInv, IInv
      <4> QED
        BY <1>1, <3>1, <4>1, CountGrows, AttemptsAssumption DEF GInv, TypeOK
    <3> QED
      BY <3>1, <3>2 DEF Admitted
  <2> QED
    BY <2>1
<1>3. evidence \subseteq evidence'
  BY <1>1 DEF Next, vars, AdmitSome, Admit, ClaimSome, ClaimDispatch, ClaimCancelled, ReadSome,
     ReadLatest, CommitSome, CommitRunning, CommitUnknown, CommitOutcome, Commit, LeaseSome,
     LeaseExpires, Heartbeat, ReclaimExpired, MoneySome, ReconcileUnbilled, Reconcile, RecordCharge,
     Receive, CancelSome, RequestCancel, ConfirmTermination, ConfirmCleanup
<1>4. stalled \subseteq stalled'
  BY DEF GatewayNext, CallerStep, Read, Deny, Join, Reserve, Check, Claim, Lost, NotSent, Send,
     KeepLease, Answer, ReadOutcome, WriteOutcome, SettleInvoice, PublishReport, SaveReport,
     SaveProposal, Expire, Change, Restart, calls, world, gvars
<1>5. ASSUME NEW r \in Provider, result[r] # Nobody PROVE result'[r] = result[r]
  <2>1. result' = result \/ \E c \in Caller : result' = Saved(c)
    BY DEF GatewayNext, CallerStep, Read, Deny, Join, Reserve, Check, Claim, Lost, NotSent, Send,
       KeepLease, Answer, ReadOutcome, WriteOutcome, SettleInvoice, PublishReport, SaveReport,
       SaveProposal, Expire, Change, Restart, calls, world, gvars
  <2> QED
    BY <1>5, <2>1 DEF Saved, GInv, GatewayTypeOK
<1> QED
  BY <1>2, <1>3, <1>4, <1>5

\* The request of an attempt that runs or has a decisive outcome gets no new one.
LEMMA DecidedIsLast ==
  ASSUME GInv, [GatewayNext]_gvars, NEW r \in Request, count[r] > 0,
         attempt[Latest(r)].status \in {"running"} \cup Decisive
  PROVE  Latest(r)' = Latest(r)
<1>1. [Next]_vars /\ count \in [Request -> 0 .. MaxAttempts]
  BY GatewayStep, LedgerTypes
<1>2. Latest(r) \in Admitted
  BY LatestAdmitted DEF GInv, IInv
<1>3. ~Retryable(r)
  BY <1>2 DEF Retryable, Decisive, Live, Running, GInv, IInv, UnknownNotReconciled, Terminal
<1>4. count'[r] = count[r]
  <2>1. CASE AdmitSome
    <3>1. PICK q \in Request, o \in Owner, n \in Amount : Admit(q, o, n)
      BY <2>1 DEF AdmitSome
    <3>2. q # r
      BY <1>3, <3>1 DEF Admit
    <3> QED
      BY <1>1, <3>1, <3>2 DEF Admit
  <2>2. CASE ~AdmitSome
    BY <1>1, <2>2 DEF Next, vars, ClaimSome, ClaimDispatch, ClaimCancelled, ReadSome, ReadLatest,
       CommitSome, CommitRunning, CommitUnknown, CommitOutcome, Commit, LeaseSome, LeaseExpires,
       Heartbeat, ReclaimExpired, MoneySome, ReconcileUnbilled, Reconcile, RecordCharge,
       CancelSome, RequestCancel, ConfirmTermination, ConfirmCleanup
  <2> QED
    BY <2>1, <2>2
<1> QED
  BY <1>4 DEF Latest
-----------------------------------------------------------------------------
(* Where the callers are.                                                   *)

LEMMA ReturnFacts ==
  ASSUME GInv, NEW c \in Caller, NEW answer, Return(c, answer)
  PROVE  /\ pc'[c] = "done"
         /\ call'[c].sent = call[c].sent /\ call'[c].usage = call[c].usage
         /\ call'[c].answer = answer
<1>1. pc \in [Caller -> Steps] /\ call \in [Caller -> CallRow]
  BY DEF GInv, GatewayTypeOK, CallRow
<1> QED
  BY <1>1 DEF Return, Goto, Note, Left, NewCall, CallRow

\* A caller that goes to another step and remembers what it did.
LEMMA GotoFacts ==
  ASSUME GInv, NEW c \in Caller, NEW step, Goto(c, step)
  PROVE  pc'[c] = step
  BY DEF Goto, GInv, GatewayTypeOK

LEMMA OutcomeFacts ==
  ASSUME GInv, NEW c \in Caller, NEW outcome, NEW usage, NEW sent, Outcome(c, outcome, usage, sent)
  PROVE  /\ call'[c].outcome = outcome /\ call'[c].usage = usage /\ call'[c].sent = sent
         /\ call'[c].answer = call[c].answer
<1>1. call \in [Caller -> CallRow]
  BY DEF GInv, GatewayTypeOK, CallRow
<1> QED
  BY <1>1 DEF Outcome, Note, CallRow

LEMMA OwnCallKept ==
  ASSUME GInv, NEW c \in Caller, CallOK(c), CallerStep(c), Admitted \subseteq Admitted'
  PROVE  CallOK(c)'
<1>1. call[c] \in CallRow /\ pc[c] \in Steps /\ call \in [Caller -> CallRow]
  BY DEF GInv, GatewayTypeOK, CallRow
<1>2. ASSUME NEW answer, Return(c, answer)
      PROVE  CallOK(c)'
  BY <1>2, ReturnFacts DEF CallOK, Sent, Unsent
<1>3. CASE Fails(c)
  BY <1>2, <1>3 DEF Fails
<1>4. CASE Read(c)
  <2>1. /\ pc'[c] = "read" /\ call'[c].sent = Nobody /\ call'[c].usage = NoUsage
        /\ call'[c].answer = Nobody
    BY <1>1, <1>4, GotoFacts DEF Read, Note, NewCall
  <2> QED
    BY <2>1 DEF CallOK, Sent, Unsent
<1>5. CASE call' = call /\ pc[c] \in Unsent /\ pc'[c] \in Unsent
  BY <1>5 DEF CallOK, Sent, Unsent, Steps
<1>6. CASE Deny(c) \/ Join(c) \/ Reserve(c)
  <2>1. Fails(c) \/ (Unanchored(c) /\ pc[c] = "read" /\ pc'[c] \in {"local", "admitted"})
    BY <1>6, GotoFacts DEF Deny, Join, Reserve, At
  <2> QED
    BY <1>1, <1>3, <2>1, UnanchoredRow DEF CallOK, Sent, Unsent
<1>7. CASE Check(c)
  <2>1. CASE Goto(c, "answered") /\ Note(c, [call[c] EXCEPT !.outcome = "free"])
    <3>1. /\ pc[c] = "admitted" /\ pc'[c] = "answered"
          /\ call'[c].sent = call[c].sent /\ call'[c].usage = call[c].usage
          /\ call'[c].answer = call[c].answer /\ call'[c].outcome = "free"
      BY <1>1, <1>7, <2>1, GotoFacts DEF Check, At, Note, CallRow
    <3> QED
      BY <3>1 DEF CallOK, Sent, Unsent
  <2>2. CASE Return(c, result[Asks[c]])
    BY <1>2, <2>2
  <2>3. CASE Goto(c, "checked") /\ UNCHANGED call
    BY <1>5, <1>7, <2>3, GotoFacts DEF Check, At, Unsent
  <2> QED
    BY <1>7, <2>1, <2>2, <2>3 DEF Check
<1>8. CASE Claim(c)
  <2>1. Fails(c) \/ (call' = call /\ pc[c] = "checked" /\ pc'[c] = "claimed")
    BY <1>8, GotoFacts DEF Claim, At
  <2> QED
    BY <1>3, <1>5, <2>1 DEF Unsent
<1>9. CASE Lost(c) \/ NotSent(c)
  <2>1. /\ pc[c] = "claimed" /\ pc'[c] = "answered"
        /\ \E outcome \in {"free", "unknown"} : Outcome(c, outcome, NoUsage, Nobody)
    BY <1>9, GotoFacts DEF Lost, NotSent, At
  <2>2. /\ call'[c].outcome \in {"free", "unknown"} /\ call'[c].usage = NoUsage
        /\ call'[c].sent = Nobody /\ call'[c].answer = call[c].answer
    BY <2>1, OutcomeFacts
  <2> QED
    BY <2>1, <2>2 DEF CallOK, Sent, Unsent
<1>10. CASE Send(c)
  <2>1. pc[c] = "claimed" /\ pc'[c] = "calling" /\ Outcome(c, "none", NoUsage, Latest(Asks[c]))
    BY <1>10, GotoFacts DEF Send, At
  <2>2. /\ call'[c].usage = NoUsage /\ call'[c].sent = Latest(Asks[c])
        /\ call'[c].answer = call[c].answer
    BY <2>1, OutcomeFacts
  <2>3. Latest(Asks[c]) \in Admitted /\ Latest(Asks[c]) # Nobody /\ Latest(Asks[c])[1] = Asks[c]
    <3>1. count[Asks[c]] > 0
      BY <2>1 DEF GInv, CallersKnow
    <3>2. Latest(Asks[c]) \in Admitted
      BY <3>1, NamedAdmitted
    <3> QED
      BY <3>2, GatewayAssumption DEF Admitted, Latest
  <2> QED
    BY <2>1, <2>2, <2>3 DEF CallOK, Sent, Unsent
<1>11. CASE KeepLease(c)
  <2>1. pc' = pc /\ call' = call
    BY <1>11 DEF KeepLease, calls
  <2> QED
    BY <2>1 DEF CallOK, Sent
<1>12. CASE Answer(c)
  <2>1. /\ pc[c] = "calling" /\ pc'[c] = "answered"
        /\ \/ \E usage \in Usage : Outcome(c, "ok", usage, call[c].sent)
           \/ Outcome(c, "unknown", NoUsage, call[c].sent)
    BY <1>12, GotoFacts DEF Answer, At
  <2>2. /\ call'[c].sent = call[c].sent /\ call'[c].answer = call[c].answer
        /\ call'[c].outcome # "free" /\ (call'[c].usage # NoUsage => call'[c].outcome = "ok")
    BY <2>1, OutcomeFacts
  <2> QED
    BY <2>1, <2>2 DEF CallOK, Sent, Unsent
<1>13. CASE ReadOutcome(c)
  <2>1. pc[c] = "answered" /\ pc'[c] = "viewed" /\ call' = call
    BY <1>13, GotoFacts DEF ReadOutcome, At
  <2> QED
    BY <2>1 DEF CallOK, Sent, Unsent
<1>14. CASE WriteOutcome(c)
  <2>1. \/ Fails(c)
        \/ /\ pc[c] = "viewed" /\ call[c].outcome = "ok" /\ call' = call
           /\ pc'[c] \in {"publishing", "billing"}
    BY <1>14, GotoFacts DEF WriteOutcome, AfterOutcome, At
  <2> QED
    BY <1>3, <2>1 DEF CallOK, Sent, Unsent
<1>15. CASE SettleInvoice(c) \/ PublishReport(c)
  <2>1. \/ Fails(c)
        \/ pc[c] \in {"billing", "publishing"} /\ pc'[c] \in {"publishing", "saving"} /\ call' = call
    BY <1>15, GotoFacts DEF SettleInvoice, PublishReport, At
  <2> QED
    BY <1>3, <2>1 DEF CallOK, Sent, Unsent
<1>16. CASE SaveReport(c) \/ SaveProposal(c)
  <2>1. Return(c, c) \/ Return(c, Nobody)
    BY <1>16 DEF SaveReport, SaveProposal, Fails
  <2> QED
    BY <1>2, <2>1
<1> QED
  BY <1>4, <1>6, <1>7, <1>8, <1>9, <1>10, <1>11, <1>12, <1>13, <1>14, <1>15, <1>16 DEF CallerStep

\* What a step does to a caller that does not take it.
Waits(e) ==
  \/ pc'[e] = pc[e] /\ call'[e] = call[e]
  \/ /\ pc'[e] = "dead" /\ call'[e].sent = call[e].sent /\ call'[e].usage = call[e].usage
     /\ call'[e].answer = call[e].answer /\ pc[e] \notin {"start", "done"}

LEMMA WhoWaits ==
  ASSUME GInv, [GatewayNext]_gvars, NEW e \in Caller
  PROVE  CallerStep(e) \/ Waits(e)
<1>1. pc \in [Caller -> Steps] /\ call \in [Caller -> CallRow] /\ [Next]_vars
  BY GatewayStep DEF GInv, GatewayTypeOK, CallRow
<1>2. CASE \E c \in Caller : CallerStep(c)
  BY <1>1, <1>2, OthersStay DEF Waits
<1>3. CASE UNCHANGED calls
  BY <1>3 DEF calls, Waits
<1>4. CASE Restart
  <2>1. CASE pc[e] \in {"start", "done"}
    BY <1>1, <1>4, <2>1 DEF Restart, Waits
  <2>2. CASE pc[e] \notin {"start", "done"}
    <3>1. pc'[e] = "dead" /\ call'[e] = Left(call[e])
      BY <1>1, <1>4, <2>2 DEF Restart
    <3> QED
      BY <1>1, <2>2, <3>1 DEF Waits, Left, NewCall, CallRow
  <2> QED
    BY <2>1, <2>2
<1> QED
  BY <1>2, <1>3, <1>4 DEF GatewayNext, Expire, Change, gvars

LEMMA CallsKept ==
  ASSUME CallInv, [GatewayNext]_gvars, NEW e \in Caller
  PROVE  CallOK(e)'
<1>1. GInv /\ CallOK(e) /\ Admitted \subseteq Admitted'
  BY GatewayGrows DEF CallInv, CallsOK
<1>2. CASE CallerStep(e)
  BY <1>1, <1>2, OwnCallKept
<1>3. CASE Waits(e)
  BY <1>1, <1>3 DEF Waits, CallOK, Sent, Unsent, Steps
<1> QED
  BY <1>1, <1>2, <1>3, WhoWaits

\* A caller that sent a call does not send another one, nor forget the one it sent.
LEMMA SentStays ==
  ASSUME CallInv, [GatewayNext]_gvars, NEW c \in Caller, Sent(c)
  PROVE  /\ call'[c].sent = call[c].sent
         /\ pc[c] # "calling" => call'[c].usage = call[c].usage
         /\ pc[c] \in {"saving", "done", "dead"} => pc'[c] \in {"saving", "done", "dead"}
<1>1. GInv /\ pc[c] \notin Unsent
  BY DEF CallInv, CallsOK, CallOK, Sent
<1>2. CASE Waits(c)
  BY <1>2 DEF Waits
<1>3. CASE CallerStep(c)
  <2>1. ASSUME NEW answer, Return(c, answer)
        PROVE  call'[c].sent = call[c].sent /\ call'[c].usage = call[c].usage /\ pc'[c] = "done"
    BY <1>1, <2>1, ReturnFacts
  <2>2. CASE call' = call /\ pc[c] \notin {"saving", "done", "dead"}
    BY <2>2
  <2>3. CASE Answer(c)
    <3>1. pc[c] = "calling" /\ \E outcome \in {"ok", "unknown"}, usage \in Usage \cup {NoUsage} :
            Outcome(c, outcome, usage, call[c].sent)
      BY <2>3 DEF Answer, At
    <3> QED
      BY <1>1, <3>1, OutcomeFacts
  <2>4. CASE Return(c, Nobody) \/ Return(c, c)
    BY <2>1, <2>4
  <2>5. KeepLease(c) \/ ReadOutcome(c) \/ WriteOutcome(c) \/ SettleInvoice(c) =>
          \/ Return(c, Nobody)
          \/ call' = call /\ pc[c] \in {"calling", "answered", "viewed", "billing"}
    BY DEF KeepLease, ReadOutcome, WriteOutcome, AfterOutcome, SettleInvoice, Fails, At, calls
  <2>6. PublishReport(c) \/ SaveReport(c) \/ SaveProposal(c) =>
          Return(c, Nobody) \/ Return(c, c) \/ (call' = call /\ pc[c] = "publishing")
    BY DEF PublishReport, SaveReport, SaveProposal, Fails, At
  <2>7. ~Read(c) /\ ~Deny(c) /\ ~Join(c) /\ ~Reserve(c) /\ ~Check(c) /\ ~Claim(c) /\ ~Lost(c)
        /\ ~NotSent(c) /\ ~Send(c)
    BY <1>1 DEF Read, Deny, Join, Reserve, Check, Claim, Lost, NotSent, Send, At, Unsent
  <2> QED
    BY <1>3, <2>2, <2>3, <2>4, <2>5, <2>6, <2>7 DEF CallerStep
<1> QED
  BY <1>1, <1>2, <1>3, WhoWaits

\* An answer is saved once, by a caller that returns with it.
LEMMA ResultStep ==
  ASSUME GInv, [GatewayNext]_gvars, NEW r \in Provider, result'[r] # result[r]
  PROVE  \E d \in Caller :
           /\ Asks[d] = r /\ result[r] = Nobody /\ result'[r] = d
           /\ pc[d] \in {"saving", "publishing"} /\ Return(d, d) /\ CallerStep(d)
<1>1. PICK d \in Caller : (SaveReport(d) \/ SaveProposal(d)) /\ result' # result
  BY DEF GatewayNext, CallerStep, Read, Deny, Join, Reserve, Check, Claim, Lost, NotSent, Send,
     KeepLease, Answer, ReadOutcome, WriteOutcome, SettleInvoice, PublishReport,
     Expire, Change, Restart, calls, gvars
<1>2. result' = Saved(d) /\ Return(d, d) /\ pc[d] \in {"saving", "publishing"}
  BY <1>1 DEF SaveReport, SaveProposal, At
<1>3. Asks[d] = r /\ result[r] = Nobody /\ result'[r] = d
  BY <1>2, CallerFacts DEF Saved, GInv, GatewayTypeOK
<1> QED
  BY <1>1, <1>2, <1>3 DEF CallerStep

LEMMA ReportStep ==
  ASSUME GInv, [GatewayNext]_gvars, NEW c \in Caller, c \in reports', c \notin reports
  PROVE  pc[c] \in {"publishing", "local"} /\ pc'[c] \in {"saving", "done"} /\ CallerStep(c)
<1>1. PICK d \in Caller : PublishReport(d) /\ reports' # reports
  BY DEF GatewayNext, CallerStep, Read, Deny, Join, Reserve, Check, Claim, Lost, NotSent, Send,
     KeepLease, Answer, ReadOutcome, WriteOutcome, SettleInvoice, SaveReport, SaveProposal,
     Expire, Change, Restart, calls, gvars
<1>2. d = c
  BY <1>1 DEF PublishReport
<1> QED
  BY <1>1, <1>2, GotoFacts, ReturnFacts DEF PublishReport, Fails, At, CallerStep

LEMMA ResultsKept == CallInv /\ [GatewayNext]_gvars => ResultsOK'
<1> SUFFICES ASSUME CallInv, [GatewayNext]_gvars PROVE ResultsOK'
  OBVIOUS
<1>1. GInv /\ ResultsOK
  BY DEF CallInv
<1>2. ASSUME NEW r \in Provider, result'[r] # Nobody
      PROVE  Asks[result'[r]] = r /\ call'[result'[r]].sent # Nobody
  <2>1. CASE result'[r] = result[r]
    <3>1. result[r] \in Caller /\ Asks[result[r]] = r /\ Sent(result[r])
      BY <1>1, <1>2, <2>1 DEF ResultsOK, GInv, GatewayTypeOK
    <3> QED
      BY <2>1, <3>1, SentStays DEF Sent
  <2>2. CASE result'[r] # result[r]
    <3>1. PICK d \in Caller : Asks[d] = r /\ result'[r] = d /\ pc[d] \in {"saving", "publishing"}
      BY <1>1, <2>2, ResultStep
    <3>2. Sent(d)
      BY <3>1 DEF CallInv, CallsOK, CallOK
    <3> QED
      BY <3>1, <3>2, SentStays DEF Sent
  <2> QED
    BY <2>1, <2>2
<1>3. ASSUME NEW c \in Caller, c \in reports' \/ result'[Asks[c]] = c
      PROVE  pc'[c] \in {"saving", "done", "dead"}
  <2>1. CASE c \in reports \/ result[Asks[c]] = c
    <3>1. pc[c] \in {"saving", "done", "dead"}
      BY <1>1, <2>1 DEF ResultsOK
    <3>2. CASE CallerStep(c)
      <4>1. SaveReport(c)
        BY <3>1, <3>2 DEF CallerStep, Read, Deny, Join, Reserve, Check, Claim, Lost, NotSent, Send,
           KeepLease, Answer, ReadOutcome, WriteOutcome, SettleInvoice, PublishReport, SaveProposal, At
      <4> QED
        BY <1>1, <4>1, ReturnFacts DEF SaveReport
    <3>3. CASE Waits(c)
      BY <3>1, <3>3 DEF Waits
    <3> QED
      BY <1>1, <3>2, <3>3, WhoWaits
  <2>2. CASE c \in reports' /\ c \notin reports
    BY <1>1, <2>2, ReportStep
  <2>3. CASE result'[Asks[c]] = c /\ result[Asks[c]] # c
    <3>1. PICK d \in Caller : result'[Asks[c]] = d /\ Return(d, d)
      BY <1>1, <2>3, ResultStep, CallerFacts
    <3> QED
      BY <1>1, <2>3, <3>1, ReturnFacts
  <2> QED
    BY <1>3, <2>1, <2>2, <2>3
<1> QED
  BY <1>2, <1>3 DEF ResultsOK, Sent

-----------------------------------------------------------------------------
(* The ledger under the gateway.                                            *)

\* A new attempt of a request is the doing of one of its callers, and of that step.
LEMMA NewAttempt ==
  ASSUME GInv, [GatewayNext]_gvars, NEW r \in Request, count'[r] # count[r]
  PROVE  \E d \in Caller, amount \in Amount :
           /\ CallerStep(d) /\ pc[d] = "read" /\ Asks[d] = r /\ count'[r] = count[r] + 1
           /\ count[r] > 0 => Retryable(r)
           /\ Latest(r)' = <<r, count[r] + 1>> /\ Latest(r)' \in Attempt
           /\ attempt'[Latest(r)'] = [status |-> "submitted", owner |-> d, leased |-> TRUE,
                revision |-> 0, reconciled |-> FALSE, dispatchStarted |-> FALSE]
           /\ bill'[Latest(r)'] = [NoBill EXCEPT !.reserved = amount]
           /\ \A x \in Admitted : attempt'[x] = attempt[x] /\ bill'[x] = bill[x]
           /\ \A q \in Request : q # r => count'[q] = count[q]
<1>1. count \in [Request -> 0 .. MaxAttempts] /\ attempt \in [Attempt -> AttemptRow] /\ bill \in [Attempt -> Bill]
  BY LedgerTypes
<1>2. PICK d \in Caller : Reserve(d) /\ count' # count
  BY DEF GatewayNext, CallerStep, Read, Deny, Join, Check, Claim, Lost, NotSent, Send,
     KeepLease, Answer, ReadOutcome, WriteOutcome, SettleInvoice, PublishReport, SaveReport,
     SaveProposal, Expire, Change, Restart, calls, gvars, vars, Renew, ClaimDispatch, Heartbeat,
     ReadLatest, CommitUnknown, CommitOutcome, Commit, Reconcile, LeaseExpires, ReclaimExpired
<1>3. PICK amount \in Amount : Admit(Asks[d], d, amount)
  BY <1>2 DEF Reserve
<1>4. Asks[d] = r /\ count[r] < MaxAttempts /\ count'[r] = count[r] + 1
      /\ \A q \in Request : q # r => count'[q] = count[q]
  BY <1>1, <1>3 DEF Admit
<1>5. Latest(r)' = <<r, count[r] + 1>> /\ <<r, count[r] + 1>> \in Attempt
  BY <1>1, <1>4, AttemptsAssumption DEF Latest, Attempt
<1>6. <<r, count[r] + 1>> \notin Admitted
  <2>1. count[r] \in Int
    BY <1>1, AttemptsAssumption
  <2> QED
    BY <2>1 DEF Admitted
<1>7. /\ attempt'[<<r, count[r] + 1>>] = [status |-> "submitted", owner |-> d, leased |-> TRUE,
                revision |-> 0, reconciled |-> FALSE, dispatchStarted |-> FALSE]
      /\ bill'[<<r, count[r] + 1>>] = [NoBill EXCEPT !.reserved = amount]
      /\ \A x \in Admitted : attempt'[x] = attempt[x] /\ bill'[x] = bill[x]
      /\ count[r] > 0 => Retryable(r)
  BY <1>1, <1>3, <1>4, <1>5, <1>6, LedgerTypes DEF Admit
<1>8. CallerStep(d) /\ pc[d] = "read"
  BY <1>2 DEF CallerStep, Reserve, At
<1> QED
  BY <1>4, <1>5, <1>7, <1>8

\* An attempt is there already, or is the new last one of its request.
LEMMA OldOrNew ==
  ASSUME GInv, [GatewayNext]_gvars, NEW x \in Admitted'
  PROVE  x \in Admitted \/ (x = Latest(x[1])' /\ count'[x[1]] # count[x[1]] /\ x[1] \in Request)
<1>1. x \in Attempt /\ x[1] \in Request /\ x[2] \in Int /\ x = <<x[1], x[2]>> /\ x[2] <= count'[x[1]]
  BY DEF Admitted, Attempt
<1>2. count \in [Request -> 0 .. MaxAttempts] /\ AttemptsAssumption
  BY LedgerTypes, AttemptsAssumption
<1>3. CASE count'[x[1]] = count[x[1]]
  BY <1>1, <1>3 DEF Admitted
<1>4. CASE count'[x[1]] # count[x[1]]
  <2>1. count'[x[1]] = count[x[1]] + 1
    BY <1>1, <1>4, NewAttempt
  <2>2. count[x[1]] \in Int
    BY <1>1, <1>2
  <2>3. x[2] <= count[x[1]] \/ x[2] = count'[x[1]]
    BY <1>1, <2>1, <2>2
  <2> QED
    BY <1>1, <1>4, <2>3 DEF Admitted, Latest
<1> QED
  BY <1>3, <1>4

\* Callers write three outcomes, none of them alive.
LEMMA TargetIs ==
  ASSUME NEW d
  PROVE  Target(d) \in {"failed", "complete", "outcome_unknown"}
  BY DEF Target

\* What a step makes of the status of an attempt.
LEMMA StatusMoves ==
  ASSUME CallInv, [GatewayNext]_gvars, NEW x \in Admitted
  PROVE  /\ attempt'[x].status \in Live =>
              attempt[x].status \in Live /\ bill'[x] = bill[x]
         /\ attempt'[x].status = "complete" /\ attempt[x].status # "complete" =>
              attempt[x].status \in Live \/ x = Latest(x[1])
         /\ attempt[x].status \in Decisive => attempt'[x].status \in Decisive
<1>1. GInv /\ LedgerUse
  BY DEF CallInv
<1>2. attempt[x] \in AttemptRow /\ attempt[x].status \in Status
  BY <1>1, LedgerTypes
<1>3. CASE RowKept(x)
  BY <1>3 DEF RowKept
<1>4. CASE ReclaimedRow(x)
  BY <1>2, <1>4 DEF ReclaimedRow, Reclaimed, AttemptRow, Live, Running, Decisive
<1>5. ASSUME NEW d \in Caller, Claimed(d, x)
      PROVE  attempt[x].status = "submitted" /\ attempt'[x].status = "running" /\ bill'[x] = bill[x]
  BY <1>5 DEF Claimed, Moved
<1>6. ASSUME NEW d \in Caller, Written(d, x)
      PROVE  attempt'[x].status = Target(d) /\ TransitionAllowed(x, d, Target(d))
  BY <1>6 DEF Written, Moved
<1>7. ASSUME NEW d \in Caller, Billed(d, x)
      PROVE  /\ x = Latest(x[1]) /\ attempt[x].status \in Decisive
             /\ attempt'[x].status \in {attempt[x].status, "complete"}
  <2>1. pc[d] = "billing" /\ x = Latest(Asks[d]) /\ x[1] = Asks[d]
    BY <1>7 DEF Billed, Latest
  <2>2. attempt[x].status \in Decisive
    BY <2>1 DEF CallInv, CallsOK, ClaimOK
  <2>3. attempt'[x].status \in {attempt[x].status, "complete"}
    BY <1>2, <1>7 DEF Billed, Decided, AttemptRow
  <2> QED
    BY <2>1, <2>2, <2>3
<1> HIDE DEF CallInv
<1>8. CASE \E d \in Caller : Claimed(d, x)
  BY <1>5, <1>8 DEF Live, Running, Decisive
<1>9. CASE \E d \in Caller : Written(d, x)
  <2>1. PICK d \in Caller : Written(d, x)
    BY <1>9
  <2>2. attempt'[x].status = Target(d) /\ TransitionAllowed(x, d, Target(d))
    BY <1>6, <2>1
  <2> QED
    BY <1>2, <2>2, TargetIs DEF TransitionAllowed, Live, Running, Decisive, Status, Terminal
<1>10. CASE \E d \in Caller : Billed(d, x)
  BY <1>7, <1>10 DEF Live, Running, Decisive
<1> QED
  BY <1>1, <1>3, <1>4, <1>8, <1>9, <1>10, GatewayRows

\* The only view a caller gets is of its own request's last attempt.
LEMMA NewView ==
  ASSUME [GatewayNext]_gvars, NEW v \in view', v \notin view
  PROVE  \E c \in Caller :
           /\ ReadOutcome(c) /\ v.caller = c /\ v.attempt = Latest(Asks[c])
           /\ v.revision = attempt[Latest(Asks[c])].revision
<1>1. \/ \E c \in Caller : ReadOutcome(c) \/ WriteOutcome(c)
      \/ view' = view
  BY DEF GatewayNext, CallerStep, Read, Deny, Join, Reserve, Check, Claim, Lost, NotSent, Send,
     KeepLease, Answer, SettleInvoice, PublishReport, SaveReport, SaveProposal, Expire, Change,
     Restart, calls, gvars, vars, Renew, ClaimDispatch, Heartbeat, Admit, Reconcile,
     LeaseExpires, ReclaimExpired
<1>2. ASSUME NEW c \in Caller, WriteOutcome(c) PROVE view' \subseteq view
  BY <1>2 DEF WriteOutcome, vars, CommitUnknown, CommitOutcome, Commit
<1>3. PICK c \in Caller : ReadOutcome(c)
  BY <1>1, <1>2
<1>4. v = [caller |-> c, attempt |-> Latest(Asks[c]),
           revision |-> attempt[Latest(Asks[c])].revision,
           status |-> attempt[Latest(Asks[c])].status]
  BY <1>3 DEF ReadOutcome, ReadLatest
<1>5. /\ v.caller = c /\ v.attempt = Latest(Asks[c])
      /\ v.revision = attempt[Latest(Asks[c])].revision
  BY <1>4
<1> QED
  BY <1>3, <1>5

LEMMA LedgerUseKept == CallInv /\ [GatewayNext]_gvars => LedgerUse'
<1> SUFFICES ASSUME CallInv, [GatewayNext]_gvars PROVE LedgerUse'
  OBVIOUS
<1>1. GInv /\ LedgerUse /\ OneLiveAttempt
  BY DEF CallInv, GInv, IInv
<1>2. /\ count \in [Request -> 0 .. MaxAttempts] /\ cancel \in [Request -> BOOLEAN]
      /\ AttemptsAssumption
  BY <1>1, LedgerTypes, AttemptsAssumption
<1>3. \A r \in Request : ~cancel'[r]
  <2>1. cancel' = cancel \/ \E r \in Request : cancel' = [cancel EXCEPT ![r] = FALSE]
    <3>1. cancel' = cancel \/ \E c \in Caller : Reserve(c)
      BY DEF GatewayNext, CallerStep, Read, Deny, Join, Check, Claim, Lost, NotSent, Send,
       KeepLease, Answer, ReadOutcome, WriteOutcome, SettleInvoice, PublishReport, SaveReport,
       SaveProposal, Expire, Change, Restart, calls, gvars, vars, Renew, ClaimDispatch, Heartbeat,
       ReadLatest, CommitUnknown, CommitOutcome, Commit, Reconcile, LeaseExpires, ReclaimExpired
    <3> QED
      BY <3>1, CallerFacts DEF Reserve, Admit
  <2> QED
    BY <1>1, <1>2, <2>1 DEF LedgerUse
<1>4. ASSUME NEW a \in Admitted', attempt'[a].status \in Live
      PROVE  bill'[a].event = "none" /\ bill'[a].settled = 0
  <2>1. CASE a \in Admitted
    BY <1>1, <1>4, <2>1, StatusMoves DEF LedgerUse
  <2>2. CASE a \notin Admitted
    <3>1. a = Latest(a[1])' /\ count'[a[1]] # count[a[1]] /\ a[1] \in Request
      BY <1>1, <2>2, OldOrNew
    <3>2. PICK r \in Request : r = a[1]
      BY <3>1
    <3>3. count'[r] # count[r]
      BY <3>1, <3>2
    <3>4. \E d \in Caller, amount \in Amount : bill'[Latest(r)'] = [NoBill EXCEPT !.reserved = amount]
      BY <1>1, <3>3, NewAttempt, Zenon
    <3>5. a = Latest(r)'
      BY <3>1, <3>2
    <3> QED
      BY <3>4, <3>5 DEF NoBill
  <2> QED
    BY <2>1, <2>2
<1>5. ASSUME NEW r \in Request, NEW k \in 1 .. count'[r] - 1
      PROVE  attempt'[<<r, k>>].status # "complete"
  <2>1. CASE count'[r] = count[r]
    <3>1. k \in 1 .. count[r] - 1
      BY <2>1
    <3>2. <<r, k>> \in Admitted /\ <<r, k>> # Latest(r)
      BY <1>2, <3>1 DEF Admitted, Attempt, Latest
    <3>3. attempt[<<r, k>>].status \notin Live \cup {"complete"}
      BY <1>1, <3>1 DEF LedgerUse, OneLiveAttempt
    <3> QED
      BY <3>2, <3>3, StatusMoves
  <2>2. CASE count'[r] # count[r]
    <3>1. /\ count'[r] = count[r] + 1 /\ (count[r] > 0 => Retryable(r))
          /\ \A x \in Admitted : attempt'[x] = attempt[x]
      BY <1>1, <2>2, NewAttempt
    <3>2. k \in 1 .. count[r]
      BY <1>2, <3>1
    <3>3. <<r, k>> \in Admitted
      BY <1>2, <3>2 DEF Admitted, Attempt
    <3>4. CASE k = count[r]
      BY <1>2, <3>1, <3>2, <3>3, <3>4 DEF Retryable, Latest
    <3>5. CASE k # count[r]
      <4>1. k \in 1 .. count[r] - 1
        BY <1>2, <3>2, <3>5
      <4> QED
        BY <1>1, <3>1, <3>3, <4>1 DEF LedgerUse
    <3> QED
      BY <3>4, <3>5
  <2> QED
    BY <2>1, <2>2
<1>6. ASSUME NEW v \in view' PROVE v.attempt[1] = Asks[v.caller]
  <2>1. CASE v \in view
    BY <1>1, <2>1 DEF LedgerUse
  <2>2. CASE v \notin view
    <3>1. PICK c \in Caller : v.caller = c /\ v.attempt = Latest(Asks[c])
      BY <2>2, NewView
    <3> QED
      BY <3>1 DEF Latest
  <2> QED
    BY <2>1, <2>2
<1> QED
  BY <1>3, <1>4, <1>5, <1>6 DEF LedgerUse

-----------------------------------------------------------------------------
(* Claims, and the attempts that were sent.                                 *)

\* A caller that wrote its answer down wrote it on the last attempt of its request.
LEMMA WroteAnswer ==
  ASSUME CallInv, NEW c \in Caller, WriteOutcome(c), pc'[c] # "done"
  PROVE  \E v \in view :
           /\ v.caller = c /\ v.attempt = Latest(Asks[c]) /\ v.attempt \in Admitted
           /\ Target(c) = "complete" /\ call[c].outcome = "ok" /\ call' = call
           /\ attempt'[v.attempt] = Moved(attempt[v.attempt], c, "complete")
           /\ bill'[v.attempt] = BillAfter(v.attempt, "complete", NoCost, call[c].outcome = "free")
           /\ count' = count
           /\ pc'[c] = "publishing" => call[c].usage = NoUsage
<1>1. GInv /\ LedgerUse /\ OneLiveAttempt /\ pc[c] = "viewed"
  BY DEF CallInv, GInv, IInv, WriteOutcome, At
<1>2. ~Fails(c)
  BY <1>1, ReturnFacts DEF Fails
<1>3. PICK v \in view :
        /\ v.caller = c /\ Writable(c, v) /\ AfterOutcome(c)
        /\ IF Target(c) = "outcome_unknown" THEN CommitUnknown(v, c)
           ELSE CommitOutcome(v, c, Target(c), NoCost, call[c].outcome = "free")
  BY <1>2 DEF WriteOutcome
<1>4. /\ call[c].outcome = "ok" /\ Target(c) = "complete" /\ call' = call
      /\ pc'[c] = "publishing" => call[c].usage = NoUsage
  BY <1>1, <1>2, <1>3, GotoFacts DEF AfterOutcome, Target
<1>5. Transition(v.attempt, c, "complete", NoCost, call[c].outcome = "free") /\ count' = count
  BY <1>3, <1>4 DEF CommitOutcome, Commit
<1>6. v.attempt \in Admitted /\ v.attempt[1] = Asks[c]
  BY <1>1, <1>3 DEF GInv, IInv, ViewBounded, LedgerUse
<1>7. /\ TransitionAllowed(v.attempt, c, "complete")
      /\ attempt'[v.attempt] = Moved(attempt[v.attempt], c, "complete")
      /\ bill'[v.attempt] = BillAfter(v.attempt, "complete", NoCost, call[c].outcome = "free")
  BY <1>1, <1>5, <1>6, TransitionRow
<1>8. attempt[v.attempt].status \in Live \cup {"complete"}
  BY <1>1, <1>6, <1>7, LedgerTypes DEF TransitionAllowed, Status, Terminal
<1>9. v.attempt = Latest(Asks[c])
  <2>1. /\ v.attempt = <<Asks[c], v.attempt[2]>> /\ v.attempt[2] \in 1 .. count[Asks[c]]
        /\ Asks[c] \in Request /\ count[Asks[c]] \in Int
    BY <1>1, <1>6, LedgerTypes, AttemptsAssumption DEF Admitted, Attempt
  <2>2. v.attempt[2] \notin 1 .. count[Asks[c]] - 1
    BY <1>1, <1>8, <2>1 DEF OneLiveAttempt, LedgerUse
  <2>3. v.attempt[2] = count[Asks[c]]
    BY <2>1, <2>2
  <2> QED
    BY <2>1, <2>3 DEF Latest
<1> QED
  BY <1>3, <1>4, <1>5, <1>6, <1>7, <1>9

\* A caller comes to its claim, its bill or its call by the step that leads there.
LEMMA WaysIn ==
  ASSUME CallInv, NEW c \in Caller, CallerStep(c)
  PROVE  /\ pc'[c] = "claimed" => Claim(c) /\ ClaimDispatch(Asks[c], c) /\ pc[c] = "checked"
         /\ pc'[c] = "billing" => WriteOutcome(c)
         /\ pc'[c] = "calling" => Send(c) \/ KeepLease(c)
         /\ pc'[c] \in {"calling", "answered", "viewed"} /\ Sent(c) =>
              pc[c] \in {"calling", "answered"}
         /\ pc'[c] = "viewed" => ReadOutcome(c)
         /\ pc'[c] \in {"publishing", "saving"} =>
              \/ WriteOutcome(c) \/ SettleInvoice(c)
              \/ pc[c] = "publishing" /\ call' = call
         /\ ~Sent(c) /\ Sent(c)' => Send(c)
<1>1. GInv /\ pc[c] \in Steps /\ (pc[c] \in Unsent => ~Sent(c))
  BY DEF CallInv, CallsOK, CallOK, Sent, GInv, GatewayTypeOK
<1>2. ASSUME NEW answer, Return(c, answer)
      PROVE  pc'[c] = "done" /\ call'[c].sent = call[c].sent
  BY <1>1, <1>2, ReturnFacts
<1>3. CASE Return(c, Nobody) \/ Return(c, c) \/ Return(c, result[Asks[c]])
  BY <1>2, <1>3 DEF Sent
<1>4. Read(c) => pc'[c] = "read" /\ call'[c].sent = Nobody
  BY <1>1, GotoFacts DEF Read, Note, NewCall, GInv, GatewayTypeOK
<1>5. CASE Deny(c) \/ Join(c) \/ Reserve(c)
  <2>1. Fails(c) \/ (Unanchored(c) /\ pc'[c] \in {"local", "admitted"})
    BY <1>1, <1>5, GotoFacts DEF Deny, Join, Reserve, At
  <2>2. Unanchored(c) => call'[c].sent = call[c].sent
    BY <1>1, UnanchoredRow DEF GInv, GatewayTypeOK, CallRow
  <2> QED
    BY <1>3, <2>1, <2>2 DEF Sent, Fails
<1>6. CASE Check(c)
  <2>1. \/ Return(c, result[Asks[c]])
        \/ /\ pc[c] = "admitted" /\ pc'[c] \in {"answered", "checked"}
           /\ call'[c].sent = call[c].sent
    BY <1>1, <1>6, GotoFacts DEF Check, At, Note, GInv, GatewayTypeOK
  <2> QED
    BY <1>1, <1>3, <2>1 DEF Sent, Unsent
<1>7. CASE Claim(c)
  <2>1. Fails(c) \/ (call' = call /\ pc[c] = "checked" /\ pc'[c] = "claimed" /\ ClaimDispatch(Asks[c], c))
    BY <1>1, <1>7, GotoFacts DEF Claim, At
  <2> QED
    BY <1>3, <1>7, <2>1 DEF Sent, Fails
<1>8. CASE Lost(c) \/ NotSent(c)
  <2>1. pc[c] = "claimed" /\ pc'[c] = "answered" /\ call'[c].sent = Nobody
    BY <1>1, <1>8, GotoFacts, OutcomeFacts DEF Lost, NotSent, At
  <2> QED
    BY <1>1, <2>1 DEF Sent, Unsent
<1>9. Send(c) => pc[c] = "claimed" /\ pc'[c] = "calling"
  BY <1>1, GotoFacts DEF Send, At
<1>10. KeepLease(c) => pc[c] = "calling" /\ pc'[c] = "calling" /\ call' = call
  BY DEF KeepLease, calls, At
<1>11. CASE Answer(c)
  <2>1. pc[c] = "calling" /\ pc'[c] = "answered" /\ call'[c].sent = call[c].sent
    BY <1>1, <1>11, GotoFacts, OutcomeFacts DEF Answer, At
  <2> QED
    BY <1>1, <2>1 DEF Sent, Unsent
<1>12. ReadOutcome(c) => pc[c] = "answered" /\ pc'[c] = "viewed" /\ call' = call
  BY <1>1, GotoFacts DEF ReadOutcome, At
<1>13. WriteOutcome(c) => Fails(c) \/ (call' = call /\ pc'[c] \in {"publishing", "billing"})
  BY <1>1, GotoFacts DEF WriteOutcome, AfterOutcome
<1>14. SettleInvoice(c) => Fails(c) \/ (call' = call /\ pc'[c] = "publishing")
  BY <1>1, GotoFacts DEF SettleInvoice
<1>15. PublishReport(c) => Fails(c) \/ (call' = call /\ pc[c] = "publishing" /\ pc'[c] = "saving")
  BY <1>1, GotoFacts DEF PublishReport, At
<1>16. SaveReport(c) \/ SaveProposal(c) => Return(c, c) \/ Fails(c)
  BY DEF SaveReport, SaveProposal
<1>17. CASE Read(c)
  BY <1>4, <1>17 DEF Sent
<1>18. CASE Send(c)
  BY <1>1, <1>9, <1>18 DEF Unsent
<1>19. CASE KeepLease(c) \/ ReadOutcome(c)
  BY <1>10, <1>12, <1>19 DEF Sent
<1>20. CASE WriteOutcome(c) \/ SettleInvoice(c)
  BY <1>3, <1>13, <1>14, <1>20 DEF Sent, Fails
<1>21. CASE PublishReport(c) \/ SaveReport(c) \/ SaveProposal(c)
  BY <1>3, <1>15, <1>16, <1>21 DEF Sent, Fails
<1> QED
  BY <1>5, <1>6, <1>7, <1>8, <1>11, <1>17, <1>18, <1>19, <1>20, <1>21 DEF CallerStep

LEMMA ClaimsKept ==
  ASSUME CallInv, [GatewayNext]_gvars, NEW c \in Caller
  PROVE  ClaimOK(c)'
<1> DEFINE r == Asks[c]
           a == Latest(r)
<1>1. /\ GInv /\ LedgerUse /\ ClaimOK(c) /\ CallOK(c) /\ r \in Request
      /\ \A d \in Caller : ClaimOK(d)
      /\ count \in [Request -> 0 .. MaxAttempts]
  BY LedgerTypes, CallerFacts DEF CallInv, CallsOK
<1>2. pc[c] \in Working => count[r] > 0 /\ a \in Admitted
  BY <1>1, NamedAdmitted DEF Working, GInv, CallersKnow
<1>3. ASSUME pc'[c] = "claimed", attempt'[Latest(r)'].owner = c
      PROVE  attempt'[Latest(r)'].status = "running"
  <2>1. CASE CallerStep(c)
    <3>1. ClaimDispatch(r, c) /\ pc[c] = "checked"
      BY <1>3, <2>1, WaysIn
    <3>2. Transition(a, c, "running", NoCost, FALSE) /\ count' = count
      BY <3>1, CallerFacts DEF ClaimDispatch
    <3>3. a \in Admitted
      BY <1>2, <3>1 DEF Working
    <3>4. attempt'[a].status = "running"
      <4>1. Coerced(a, "running") = "running"
        BY <1>1, <3>3, NotCoerced
      <4>2. attempt' = [attempt EXCEPT ![a] = Moved(attempt[a], c, "running")]
        BY <3>2, <4>1 DEF Transition
      <4> QED
        BY <1>1, <3>3, <4>2, LedgerTypes DEF Moved
    <3> QED
      BY <3>2, <3>4 DEF Latest
  <2>2. CASE ~CallerStep(c)
    <3>1. pc[c] = "claimed"
      BY <1>1, <1>3, <2>2, WhoWaits DEF Waits
    <3>2. CASE count'[r] # count[r]
      <4>1. PICK d \in Caller : CallerStep(d) /\ attempt'[Latest(r)'].owner = d
        <5>1. PICK d \in Caller :
                /\ CallerStep(d)
                /\ attempt'[Latest(r)'] = [status |-> "submitted", owner |-> d, leased |-> TRUE,
                     revision |-> 0, reconciled |-> FALSE, dispatchStarted |-> FALSE]
          BY <1>1, <3>2, NewAttempt
        <5> QED
          BY <5>1
      <4> QED
        BY <1>3, <2>2, <4>1
    <3>3. CASE count'[r] = count[r]
      <4>1. Latest(r)' = a /\ a \in Admitted
        BY <1>2, <3>1, <3>3 DEF Latest, Working
      <4>2. CASE RowKept(a)
        BY <1>1, <1>3, <3>1, <4>1, <4>2 DEF RowKept, ClaimOK
      <4>3. ~ReclaimedRow(a)
        BY <1>3 DEF ReclaimedRow
      <4>4. ASSUME NEW d \in Caller, CallerStep(d), Claimed(d, a) \/ Written(d, a)
            PROVE  attempt'[a].owner # c
        BY <2>2, <4>4 DEF Claimed, Written, Moved
      <4>5. ASSUME NEW d \in Caller, Billed(d, a)
            PROVE  attempt'[a].owner # c
        <5>1. pc[d] = "billing" /\ a = Latest(Asks[d]) /\ attempt'[a].owner = attempt[a].owner
          BY <1>1, <4>1, <4>5, LedgerTypes DEF Billed, Decided, AttemptRow
        <5>2. attempt[a].status \in Decisive
          BY <1>1, <5>1 DEF ClaimOK
        <5> QED
          BY <1>1, <3>1, <5>1, <5>2 DEF ClaimOK, Decisive
      <4> HIDE DEF a
      <4> QED
        BY <1>1, <1>3, <4>1, <4>2, <4>3, <4>4, <4>5, GatewayRows
    <3> QED
      BY <3>2, <3>3
  <2> QED
    BY <2>1, <2>2
<1>4. ASSUME pc'[c] = "billing"
      PROVE  attempt'[Latest(r)'].status \in Decisive
  <2>1. CASE CallerStep(c)
    <3>1. WriteOutcome(c)
      BY <1>4, <2>1, WaysIn
    <3>2. attempt'[a] = Moved(attempt[a], c, "complete") /\ count' = count
      BY <1>4, <3>1, WroteAnswer
    <3> QED
      BY <3>2 DEF Latest, Moved, Decisive
  <2>2. CASE ~CallerStep(c)
    <3>1. pc[c] = "billing"
      BY <1>1, <1>4, <2>2, WhoWaits DEF Waits
    <3>2. attempt[a].status \in Decisive /\ count[r] > 0 /\ a \in Admitted
      BY <1>1, <1>2, <3>1 DEF ClaimOK, Working
    <3>3. Latest(r)' = a
      BY <1>1, <3>2, DecidedIsLast
    <3> HIDE DEF a
    <3> QED
      BY <3>2, <3>3, StatusMoves
  <2> QED
    BY <2>1, <2>2
<1> QED
  BY <1>3, <1>4 DEF ClaimOK

\* An attempt under which no lease ran out runs on for the caller that sent it,
\* until this caller itself writes down what came of it.
LEMMA RunsKept ==
  ASSUME CallInv, [GatewayNext]_gvars, NEW c \in Caller, Sent(c),
         NEW a, a = call[c].sent, a \notin stalled', a = Latest(Asks[c]), RunsFor(c, a)
  PROVE  \/ RunsFor(c, a)' /\ RowKept(a)
         \/ CallerStep(c) /\ pc[c] = "viewed" /\ attempt'[a].status \in Decisive
<1>1. GInv /\ LedgerUse /\ CallOK(c) /\ \A d \in Caller : ClaimOK(d)
  BY DEF CallInv, CallsOK
<1>2. a \in Admitted /\ attempt[a].status = "running" /\ attempt[a].owner = c /\ attempt[a].leased
  BY <1>1 DEF CallOK, RunsFor
<1>3. CASE RowKept(a)
  BY <1>2, <1>3 DEF RowKept, RunsFor, Running
<1>4. ~ReclaimedRow(a)
  BY <1>2 DEF ReclaimedRow
<1>5. ASSUME NEW d \in Caller PROVE ~Claimed(d, a) /\ ~Billed(d, a)
  <2>1. Billed(d, a) => attempt[a].status \in Decisive
    BY <1>1 DEF Billed, ClaimOK
  <2> QED
    BY <1>2, <2>1 DEF Claimed, Decisive
<1>6. ASSUME NEW d \in Caller, CallerStep(d), Written(d, a)
      PROVE  CallerStep(c) /\ pc[c] = "viewed" /\ attempt'[a].status \in Decisive
  <2>1. d = c /\ pc[c] = "viewed" /\ attempt'[a].status = Target(c)
    BY <1>2, <1>6 DEF Written, TransitionAllowed, Moved
  <2>2. call[c].outcome # "free"
    BY <1>1, <2>1 DEF CallOK, Sent
  <2> QED
    BY <1>6, <2>1, <2>2 DEF Target, Decisive
<1> QED
  BY <1>1, <1>2, <1>3, <1>4, <1>5, <1>6, GatewayRows

LEMMA SentsKept ==
  ASSUME CallInv, [GatewayNext]_gvars, NEW c \in Caller
  PROVE  SentOK(c)'
<1> DEFINE r == Asks[c]
<1>1. /\ GInv /\ LedgerUse /\ SentOK(c) /\ CallOK(c) /\ ClaimOK(c) /\ r \in Request
      /\ count \in [Request -> 0 .. MaxAttempts] /\ AttemptsAssumption /\ stalled \subseteq stalled'
  BY LedgerTypes, CallerFacts, AttemptsAssumption, GatewayGrows DEF CallInv, CallsOK
<1> PICK a : a = call'[c].sent
  OBVIOUS
<1>2. SUFFICES ASSUME a # Nobody, a \notin stalled'
               PROVE  /\ a = Latest(r)'
                      /\ RunsFor(c, a)' \/ attempt'[a].status \in Decisive
                      /\ pc'[c] \in {"calling", "answered", "viewed"} => RunsFor(c, a)'
                      /\ pc'[c] = "viewed" =>
                           \A v \in view' : v.caller = c => v.attempt = a /\ v.revision = attempt'[a].revision
  BY DEF SentOK, Sent, RunsFor
<1>3. CASE ~Sent(c)
  <2>1. Send(c)
    BY <1>1, <1>2, <1>3, WhoWaits, WaysIn DEF Waits, Sent
  <2>2. /\ pc[c] = "claimed" /\ pc'[c] = "calling" /\ a = Latest(r)
        /\ attempt[a].owner = c /\ Renew(c)
    BY <1>1, <2>1, GotoFacts, OutcomeFacts DEF Send, At
  <2>3. a \in Admitted /\ attempt[a].status = "running"
    BY <1>1, <2>2, NamedAdmitted DEF GInv, CallersKnow, ClaimOK
  <2>4. /\ count' = count
        /\ attempt'[a].status = "running" /\ attempt'[a].owner = c /\ attempt'[a].leased
    <3>1. CASE attempt[a].leased
      BY <2>2, <2>3, <3>1 DEF Renew, vars
    <3>2. CASE ~attempt[a].leased
      <4>1. Heartbeat(a, c)
        BY <2>2, <3>2 DEF Renew
      <4> QED
        BY <1>1, <2>2, <2>3, <4>1, LedgerTypes DEF Heartbeat, AttemptRow
    <3> QED
      BY <3>1, <3>2
  <2>5. a = Latest(r)'
    BY <2>2, <2>4 DEF Latest
  <2> QED
    BY <2>2, <2>4, <2>5 DEF RunsFor
<1>4. CASE Sent(c)
  <2>1. a = call[c].sent /\ a \notin stalled /\ a \in Admitted
    BY <1>1, <1>2, <1>4, SentStays DEF CallOK
  <2>2. /\ a = Latest(r) /\ (RunsFor(c, a) \/ attempt[a].status \in Decisive)
        /\ pc[c] \in {"calling", "answered", "viewed"} => RunsFor(c, a)
        /\ pc[c] = "viewed" =>
             \A v \in view : v.caller = c => v.attempt = a /\ v.revision = attempt[a].revision
    BY <1>1, <1>4, <2>1 DEF SentOK
  <2>3. count[r] > 0
    BY <1>1, <2>1, <2>2 DEF Admitted, Attempt, Latest
  <2>4. a = Latest(r)'
    BY <1>1, <2>2, <2>3, DecidedIsLast DEF RunsFor
  <2>5. RunsFor(c, a) =>
          \/ RunsFor(c, a)' /\ RowKept(a)
          \/ CallerStep(c) /\ pc[c] = "viewed" /\ attempt'[a].status \in Decisive
    BY <1>2, <1>4, <2>1, <2>2, RunsKept
  <2>6. attempt[a].status \in Decisive => attempt'[a].status \in Decisive
    BY <2>1, StatusMoves
  <2>7. pc'[c] \in {"calling", "answered", "viewed"} =>
          \/ pc[c] \in {"calling", "answered"} /\ (pc'[c] = "viewed" => ReadOutcome(c))
          \/ ~CallerStep(c) /\ pc[c] = pc'[c]
    BY <1>1, <1>4, WhoWaits, WaysIn DEF Waits
  <2>8. pc'[c] \in {"calling", "answered", "viewed"} => RunsFor(c, a)' /\ RowKept(a)
    BY <2>2, <2>5, <2>7
  <2>9. ASSUME pc'[c] = "viewed", NEW v \in view', v.caller = c
        PROVE  v.attempt = a /\ v.revision = attempt'[a].revision
    <3>1. attempt'[a].revision = attempt[a].revision
      BY <2>8, <2>9 DEF RowKept
    <3>2. CASE v \notin view
      <4>1. v.attempt = Latest(r) /\ v.revision = attempt[Latest(r)].revision
        BY <2>9, <3>2, NewView
      <4> QED
        BY <2>2, <3>1, <4>1
    <3>3. CASE v \in view /\ ReadOutcome(c)
      <4>1. v \notin {x \in view : x.caller # c}
        BY <2>9
      <4>2. v = [caller |-> c, attempt |-> Latest(r), revision |-> attempt[Latest(r)].revision,
                 status |-> attempt[Latest(r)].status]
        BY <2>9, <3>3, <4>1 DEF ReadOutcome, ReadLatest
      <4>3. v.attempt = Latest(r) /\ v.revision = attempt[Latest(r)].revision
        BY <4>2
      <4> QED
        BY <2>2, <3>1, <4>3
    <3>4. CASE v \in view /\ pc[c] = "viewed"
      BY <2>2, <2>9, <3>1, <3>4
    <3>5. ReadOutcome(c) \/ pc[c] = "viewed"
      BY <2>7, <2>9
    <3> QED
      BY <3>2, <3>3, <3>4, <3>5
  <2> QED
    BY <2>2, <2>4, <2>5, <2>6, <2>8, <2>9
<1> QED
  BY <1>3, <1>4

\* As long as no lease ran out under the request, no lease ran out under what was sent.
LEMMA NotStalled ==
  ASSUME NEW c \in Caller, CallOK(c), Sent(c), ~Stalled(Asks[c])
  PROVE  call[c].sent \notin stalled
  BY DEF CallOK, Stalled

LEMMA StalledStays ==
  ASSUME GInv, [GatewayNext]_gvars, NEW r, ~Stalled(r)'
  PROVE  ~Stalled(r)
  BY GatewayGrows DEF Stalled

\* A caller claims an attempt that runs for another one only after a lease ran out.
LEMMA NobodyElseSends ==
  ASSUME CallInv, NEW c \in Caller, NEW d \in Caller, c # d, Asks[c] = Asks[d],
         Sent(c), ~Stalled(Asks[c])
  PROVE  ~Send(d)
<1>1. SentOK(c) /\ call[c].sent \notin stalled
  BY NotStalled DEF CallInv, CallsOK
<1>2. PICK a : a = Latest(Asks[c])
  OBVIOUS
<1>3. RunsFor(c, a) \/ attempt[a].status \in Decisive
  BY <1>1, <1>2 DEF SentOK
<1>4. Send(d) => attempt[a].owner = d /\ attempt[a].status = "running"
  BY <1>2 DEF Send, At, CallInv, CallsOK, ClaimOK
<1> QED
  BY <1>3, <1>4 DEF RunsFor, Decisive

LEMMA CalledOnceKept == CallInv /\ [GatewayNext]_gvars => CalledOnce'
<1> SUFFICES ASSUME CallInv, [GatewayNext]_gvars,
                    NEW c \in Caller, NEW d \in Caller, c # d, Asks[c] = Asks[d],
                    Sent(c)', Sent(d)', ~Stalled(Asks[c])'
             PROVE  FALSE
  BY DEF CalledOnce
<1>1. GInv /\ CalledOnce /\ ~Stalled(Asks[c]) /\ ~Stalled(Asks[d])
  <2>1. PICK r : r = Asks[c]
    OBVIOUS
  <2>2. GInv /\ CalledOnce /\ ~Stalled(r)'
    BY <2>1 DEF CallInv, Stalled
  <2> QED
    BY <2>1, <2>2, StalledStays
<1>2. ~Sent(c) => Send(c)
  BY <1>1, WhoWaits, WaysIn DEF Waits, Sent
<1>3. ~Sent(d) => Send(d)
  BY <1>1, WhoWaits, WaysIn DEF Waits, Sent
<1>4. Sent(c) => ~Send(d)
  BY <1>1, NobodyElseSends
<1>5. Sent(d) => ~Send(c)
  BY <1>1, NobodyElseSends
<1>6. ~(Send(c) /\ Send(d))
  <2>1. ASSUME Send(c), Send(d) PROVE FALSE
    <3>1. pc'[d] = pc[d]
      BY <1>1, <2>1, GatewayStep, OthersStay DEF CallerStep
    <3>2. pc[d] = "claimed" /\ pc'[d] = "calling"
      BY <1>1, <2>1, GotoFacts DEF Send, At
    <3> QED
      BY <3>1, <3>2
  <2> QED
    BY <2>1
<1> QED
  BY <1>1, <1>2, <1>3, <1>4, <1>5, <1>6 DEF CalledOnce

-----------------------------------------------------------------------------
(* Invoices and answers.                                                    *)

\* Writing an outcome down never changes what is settled, and closes a bill only for
\* an attempt that was proved free.
LEMMA WriteKeepsSettled ==
  ASSUME GInv, NEW d \in Caller, NEW x \in Admitted, Written(d, x), x[1] = Asks[d]
  PROVE  /\ bill'[x].settled = bill[x].settled
         /\ bill'[x].event = "final" /\ bill[x].event # "final" => call[d].outcome = "free"
<1>1. bill[x] \in Bill /\ x[1] \notin Local
  BY LedgerTypes, CallerFacts, LocalAssumption
<1> QED
  BY <1>1 DEF Written, BillAfter, Settled, Invoiced, MarkUnsettled, Bill

LEMMA PaidKept ==
  ASSUME CallInv, [GatewayNext]_gvars, NEW c \in Caller
  PROVE  PaidOK(c)'
<1> DEFINE r == Asks[c]
<1>1. /\ GInv /\ LedgerUse /\ PaidOK(c) /\ CallOK(c) /\ ClaimOK(c) /\ SentOK(c) /\ CalledOnce
      /\ r \in Request /\ evidence \subseteq evidence'
      /\ \A d \in Caller : CallOK(d)
  BY CallerFacts, GatewayGrows DEF CallInv, CallsOK
<1>2. ASSUME pc'[c] = "billing", ~Stalled(r)' PROVE bill'[Latest(r)'].settled = 0
  <2> PICK a : a = Latest(r)
    OBVIOUS
  <2>1. ~Stalled(r)
    BY <1>1, <1>2, StalledStays
  <2>2. CASE CallerStep(c)
    <3>1. WriteOutcome(c) /\ pc[c] = "viewed"
      BY <1>2, <2>2, WaysIn DEF WriteOutcome, At
    <3>2. PICK v \in view :
            /\ v.caller = c /\ v.attempt = a /\ a \in Admitted /\ call[c].outcome = "ok"
            /\ bill'[a] = BillAfter(a, "complete", NoCost, call[c].outcome = "free")
            /\ count' = count
      BY <1>2, <3>1, WroteAnswer
    <3>3. Sent(c) /\ call[c].sent \notin stalled
      BY <1>1, <2>1, <3>1, <3>2, NotStalled DEF CallOK
    <3>4. attempt[a].status = "running"
      BY <1>1, <3>1, <3>3 DEF SentOK, RunsFor
    <3>5. bill[a].settled = 0 /\ bill[a] \in Bill /\ a[1] \notin Local
      BY <1>1, <3>2, <3>4, LedgerTypes, CallerFacts, LocalAssumption DEF LedgerUse, Live, Running, Latest
    <3>6. bill'[a].settled = 0
      BY <3>2, <3>5 DEF BillAfter, Settled, Invoiced, MarkUnsettled, Bill
    <3> QED
      BY <3>2, <3>6 DEF Latest
  <2>3. CASE ~CallerStep(c)
    <3>1. pc[c] = "billing"
      BY <1>1, <1>2, <2>3, WhoWaits DEF Waits
    <3>2. attempt[a].status \in Decisive /\ bill[a].settled = 0 /\ count[r] > 0 /\ a \in Admitted
      BY <1>1, <2>1, <3>1, NamedAdmitted DEF ClaimOK, PaidOK, GInv, CallersKnow
    <3>3. Latest(r)' = a
      BY <1>1, <3>2, DecidedIsLast
    <3>4. ~ReclaimedRow(a)
      BY <3>2 DEF ReclaimedRow, Decisive, Running
    <3>5. ASSUME NEW d \in Caller PROVE ~Claimed(d, a)
      BY <3>2 DEF Claimed, Decisive
    <3>6. ASSUME NEW d \in Caller, Written(d, a) PROVE bill'[a].settled = 0
      <4>1. a[1] = Asks[d]
        BY <1>1, <3>6 DEF Written, LedgerUse
      <4> QED
        BY <1>1, <3>2, <3>6, <4>1, WriteKeepsSettled
    <3>7. ASSUME NEW d \in Caller, CallerStep(d) PROVE ~Billed(d, a)
      <4>1. Billed(d, a) => d # c /\ pc[d] = "billing" /\ Asks[d] = r
        BY <2>3, <3>7 DEF Billed, Latest
      <4>2. pc[d] = "billing" => Sent(d)
        BY <1>1 DEF CallOK
      <4>3. Sent(c)
        BY <1>1, <3>1 DEF CallOK
      <4> QED
        BY <1>1, <2>1, <4>1, <4>2, <4>3 DEF CalledOnce
    <3>8. RowKept(a) \/ \E d \in Caller : Written(d, a)
      BY <1>1, <3>2, <3>4, <3>5, <3>7, GatewayRows
    <3> QED
      BY <3>2, <3>3, <3>6, <3>8 DEF RowKept
  <2> QED
    BY <2>2, <2>3
<1>3. ASSUME pc'[c] \in {"publishing", "saving"}, call'[c].usage # NoUsage
      PROVE  InvoiceKept(c)'
  <2>1. CASE call'[c] = call[c] /\ pc[c] \in {"publishing", "saving"}
    BY <1>1, <1>3, <2>1 DEF PaidOK, InvoiceKept
  <2>2. CASE WriteOutcome(c)
    <3>1. pc'[c] = "publishing" /\ call' = call
      <4>1. pc'[c] # "done"
        BY <1>3
      <4> QED
        BY <1>1, <1>3, <2>2, <4>1, GotoFacts, ReturnFacts DEF WriteOutcome, AfterOutcome, Fails
    <3>2. call[c].usage = NoUsage
      BY <2>2, <3>1, WroteAnswer
    <3> QED
      BY <1>3, <3>1, <3>2
  <2>3. CASE SettleInvoice(c)
    <3>1. ~Fails(c)
      BY <1>1, <1>3, ReturnFacts DEF Fails
    <3>2. call' = call /\ \E a, kind : Receive(c, a, kind, call[c].usage.amount)
      BY <2>3, <3>1 DEF SettleInvoice, Reconcile
    <3>3. PICK a, kind : Receive(c, a, kind, call[c].usage.amount)
      BY <3>2
    <3>4. PICK e : e = [id |-> c, attempt |-> a, kind |-> kind, amount |-> call[c].usage.amount]
      OBVIOUS
    <3>5. e \in evidence' /\ e.id = c /\ e.amount = call'[c].usage.amount
      BY <3>2, <3>3, <3>4 DEF Receive
    <3> QED
      BY <3>5 DEF InvoiceKept
  <2>4. CASE CallerStep(c)
    BY <1>3, <2>1, <2>2, <2>3, <2>4, WaysIn
  <2> QED
    BY <1>1, <1>3, <2>1, <2>4, WhoWaits DEF Waits
<1> QED
  BY <1>2, <1>3 DEF PaidOK

LEMMA FreeKept ==
  ASSUME CallInv, [GatewayNext]_gvars, NEW c \in Caller, NEW a, a = call'[c].sent,
         a # Nobody, a \notin stalled', bill'[a].event = "final"
  PROVE  \E e \in evidence' : e.attempt = a /\ e.kind = "final"
<1>1. /\ GInv /\ LedgerUse /\ SentOK(c) /\ CallOK(c) /\ FreeWasNotCalled
      /\ stalled \subseteq stalled' /\ evidence \subseteq evidence'
      /\ \A d \in Caller : ClaimOK(d) /\ CallOK(d)
  BY GatewayGrows DEF CallInv, CallsOK
<1>2. CASE ~Sent(c)
  <2>1. Send(c)
    BY <1>1, <1>2, WhoWaits, WaysIn DEF Waits, Sent
  <2>2. pc[c] = "claimed" /\ a = Latest(Asks[c]) /\ attempt[a].owner = c /\ Renew(c)
    BY <1>1, <2>1, OutcomeFacts DEF Send, At
  <2>3. a \in Admitted /\ attempt[a].status = "running" /\ bill' = bill
    BY <1>1, <2>2, NamedAdmitted DEF GInv, CallersKnow, ClaimOK, Renew, Heartbeat, vars
  <2> QED
    BY <1>1, <2>3 DEF LedgerUse, Live, Running
<1>3. CASE Sent(c)
  <2>1. a = call[c].sent /\ a \notin stalled /\ a \in Admitted /\ a[1] = Asks[c]
    BY <1>1, <1>3, SentStays DEF CallOK
  <2>2. CASE bill[a].event = "final"
    BY <1>1, <1>3, <2>1, <2>2 DEF FreeWasNotCalled
  <2>3. CASE bill[a].event # "final"
    <3>1. ~RowKept(a) /\ ~ReclaimedRow(a)
      BY <1>1, <2>1, <2>3, LedgerTypes DEF RowKept, ReclaimedRow, MarkUnsettled, Bill
    <3>2. ASSUME NEW d \in Caller PROVE ~Claimed(d, a)
      BY <2>3 DEF Claimed
    <3>3. ASSUME NEW d \in Caller PROVE ~Written(d, a)
      <4>1. ASSUME Written(d, a) PROVE FALSE
        <5>1. a[1] = Asks[d] /\ pc[d] = "viewed" /\ TransitionAllowed(a, d, Target(d))
          BY <1>1, <4>1 DEF Written, LedgerUse
        <5>2. call[d].outcome = "free" /\ Target(d) = "failed"
          BY <1>1, <2>1, <2>3, <4>1, <5>1, WriteKeepsSettled DEF Target
        <5>3. RunsFor(c, a)
          BY <1>1, <1>3, <2>1, <5>1, <5>2 DEF SentOK, TransitionAllowed, Decisive, Terminal
        <5>4. d = c
          BY <5>1, <5>3 DEF TransitionAllowed, RunsFor
        <5> QED
          BY <1>1, <1>3, <5>1, <5>2, <5>4 DEF CallOK, Sent
      <4> QED
        BY <4>1
    <3>4. ASSUME NEW d \in Caller, Billed(d, a)
          PROVE  \E e \in evidence' : e.attempt = a /\ e.kind = "final"
      <4>1. call[d].usage.final
        BY <3>4 DEF Billed, Invoiced
      <4>2. Receive(d, a, "final", call[d].usage.amount)
        BY <3>4, <4>1 DEF Billed
      <4>3. PICK e : e = [id |-> d, attempt |-> a, kind |-> "final", amount |-> call[d].usage.amount]
        OBVIOUS
      <4>4. e \in evidence' /\ e.attempt = a /\ e.kind = "final"
        BY <4>2, <4>3 DEF Receive
      <4> QED
        BY <4>4
    <3> QED
      BY <1>1, <2>1, <3>1, <3>2, <3>3, <3>4, GatewayRows
  <2> QED
    BY <2>2, <2>3
<1> QED
  BY <1>2, <1>3

\* A caller that ends, and whose request met no lost lease, has paid before.
LEMMA EndsPaid ==
  ASSUME CallInv, NEW c \in Caller, CallerStep(c), pc[c] # "calling", call[c].usage # NoUsage,
         ~Stalled(Asks[c]), pc'[c] = "done"
  PROVE  pc[c] \in {"publishing", "saving"}
<1>1. GInv /\ LedgerUse /\ SentOK(c) /\ CallOK(c) /\ PaidOK(c) /\ Sent(c)
  BY DEF CallInv, CallsOK, CallOK
<1>2. pc[c] \notin Unsent /\ pc[c] \in Steps /\ pc[c] # "done"
  <2>1. pc[c] # "done"
    BY DEF CallerStep, Read, Deny, Join, Reserve, Check, Claim, Lost, NotSent, Send, KeepLease,
       Answer, ReadOutcome, WriteOutcome, SettleInvoice, PublishReport, SaveReport, SaveProposal, At
  <2> QED
    BY <1>1, <2>1 DEF CallOK, GInv, GatewayTypeOK
<1>3. PICK a : a = Latest(Asks[c])
  OBVIOUS
<1>4. ~WriteOutcome(c)
  <2>1. ASSUME WriteOutcome(c) PROVE FALSE
    <3>1. PICK v \in view :
            /\ v.caller = c
            /\ ~Writable(c, v) \/ AfterOutcome(c)
      BY <2>1 DEF WriteOutcome
    <3>2. pc[c] = "viewed" /\ call[c].outcome = "ok" /\ Target(c) = "complete"
      BY <1>1, <2>1 DEF WriteOutcome, At, CallOK, Target
    <3>3. ~AfterOutcome(c)
      BY <1>1, <3>2, GotoFacts DEF AfterOutcome
    <3>4. call[c].sent = a /\ RunsFor(c, a) /\ v.attempt = a /\ v.revision = attempt[a].revision
      BY <1>1, <1>3, <3>1, <3>2, NotStalled DEF SentOK
    <3>5. Writable(c, v)
      BY <3>2, <3>4 DEF Writable, TransitionAllowed, RunsFor, Terminal
    <3> QED
      BY <3>1, <3>3, <3>5
  <2> QED
    BY <2>1
<1>5. ~SettleInvoice(c)
  <2>1. ASSUME SettleInvoice(c) PROVE FALSE
    <3>1. pc[c] = "billing" /\ bill[a].settled = 0
      BY <1>1, <1>3, <2>1 DEF SettleInvoice, At, PaidOK
    <3>2. call[c].usage.amount \in Nat
      BY <1>1, AmountAssumption DEF GInv, GatewayTypeOK, Usage
    <3>3. ~(call[c].usage.amount < bill[a].settled)
      BY <3>1, <3>2
    <3> QED
      BY <1>1, <1>3, <2>1, <3>3, GotoFacts DEF SettleInvoice
  <2> QED
    BY <2>1
<1>6. pc[c] \notin {"answered", "dead"}
  BY <1>1, GotoFacts DEF CallerStep, Read, Deny, Join, Reserve, Check, Claim, Lost, NotSent, Send,
     KeepLease, Answer, ReadOutcome, WriteOutcome, SettleInvoice, PublishReport, SaveReport,
     SaveProposal, At
<1>7. pc[c] # "viewed" /\ pc[c] # "billing"
  BY <1>4, <1>5 DEF CallerStep, Read, Deny, Join, Reserve, Check, Claim, Lost, NotSent, Send,
     KeepLease, Answer, ReadOutcome, PublishReport, SaveReport, SaveProposal, At
<1> QED
  BY <1>2, <1>6, <1>7 DEF Steps, Unsent

LEMMA InvoiceKeptFirst ==
  ASSUME CallInv, [GatewayNext]_gvars, NEW c \in Caller, CallOK(c)', ResultsOK',
         call'[c].usage # NoUsage,
         c \in reports' \/ result'[Asks[c]] = c \/ (pc'[c] = "done" /\ ~Stalled(Asks[c])')
  PROVE  InvoiceKept(c)'
<1>1. /\ GInv /\ CallOK(c) /\ PaidOK(c) /\ ResultsOK /\ InvoiceFirst
      /\ evidence \subseteq evidence' /\ Asks[c] \in Provider
      /\ pc'[c] \in {"saving", "done", "dead"}
  BY CallerFacts, GatewayGrows DEF CallInv, CallsOK, ResultsOK
<1>2. Sent(c)
  <2>1. ASSUME ~Sent(c) PROVE FALSE
    <3>1. Send(c)
      <4>1. Sent(c)'
        BY DEF CallOK
      <4> QED
        BY <1>1, <2>1, <4>1, WhoWaits, WaysIn DEF Waits, Sent
    <3> QED
      BY <1>1, <3>1, GotoFacts DEF Send
  <2> QED
    BY <2>1
<1>3. pc[c] # "calling"
  <2>1. ASSUME pc[c] = "calling" PROVE FALSE
    <3>1. call[c].usage = NoUsage
      BY <1>1, <2>1 DEF CallOK
    <3>2. CallerStep(c)
      BY <1>1, <3>1, WhoWaits DEF Waits
    <3>3. Answer(c) \/ KeepLease(c)
      BY <2>1, <3>2 DEF CallerStep, Read, Deny, Join, Reserve, Check, Claim, Lost, NotSent, Send,
         ReadOutcome, WriteOutcome, SettleInvoice, PublishReport, SaveReport, SaveProposal, At
    <3> QED
      BY <1>1, <2>1, <3>3, GotoFacts DEF Answer, KeepLease, calls
  <2> QED
    BY <2>1
<1>4. call'[c].usage = call[c].usage /\ call[c].usage # NoUsage
  BY <1>2, <1>3, SentStays
<1>5. InvoiceKept(c) => InvoiceKept(c)'
  BY <1>1, <1>4 DEF InvoiceKept
<1>6. pc[c] \in {"publishing", "saving"} => InvoiceKept(c)
  BY <1>1, <1>4 DEF PaidOK
<1>7. CASE c \in reports'
  <2>1. CASE c \in reports
    BY <1>1, <1>4, <1>5, <2>1 DEF InvoiceFirst, InvoiceKept
  <2>2. CASE c \notin reports
    <3>1. pc[c] \in {"publishing", "local"}
      BY <1>1, <1>7, <2>2, ReportStep
    <3> QED
      BY <1>1, <1>2, <1>5, <1>6, <3>1 DEF CallOK, Unsent, Sent
  <2> QED
    BY <2>1, <2>2
<1>8. CASE result'[Asks[c]] = c
  <2>1. CASE result[Asks[c]] = c
    BY <1>1, <1>4, <1>5, <2>1 DEF InvoiceFirst, InvoiceKept
  <2>2. CASE result[Asks[c]] # c
    BY <1>1, <1>5, <1>6, <1>8, <2>2, ResultStep
  <2> QED
    BY <2>1, <2>2
<1>9. CASE pc'[c] = "done" /\ ~Stalled(Asks[c])'
  <2>1. ~Stalled(Asks[c])
    <3>1. PICK r : r = Asks[c]
      OBVIOUS
    <3>2. ~Stalled(r)'
      BY <1>9, <3>1 DEF Stalled
    <3> QED
      BY <1>1, <3>1, <3>2, StalledStays
  <2>2. CASE pc[c] = "done"
    BY <1>1, <1>4, <1>5, <2>1, <2>2 DEF InvoiceFirst, InvoiceKept
  <2>3. CASE pc[c] # "done"
    <3>1. CallerStep(c)
      BY <1>1, <1>9, <2>3, WhoWaits DEF Waits
    <3> QED
      BY <1>3, <1>4, <1>5, <1>6, <1>9, <2>1, <3>1, EndsPaid
  <2> QED
    BY <2>2, <2>3
<1> QED
  BY <1>7, <1>8, <1>9

LEMMA AnswerKept ==
  ASSUME CallInv, [GatewayNext]_gvars, NEW c \in Caller,
         call'[c].answer # Nobody, ~Stalled(Asks[c])'
  PROVE  call'[c].answer = result'[Asks[c]]
<1> DEFINE r == Asks[c]
<1>1. /\ GInv /\ CallOK(c) /\ ResultsOK /\ OneAnswer /\ CalledOnce /\ r \in Provider
      /\ (result[r] # Nobody => result'[r] = result[r])
      /\ result \in [Provider -> Caller \cup {Nobody}]
      /\ \A d \in Caller : CallOK(d)
  BY CallerFacts, GatewayGrows DEF CallInv, CallsOK, GInv, GatewayTypeOK
<1>2. ~Stalled(r)
  <2>1. PICK q : q = r
    OBVIOUS
  <2>2. ~Stalled(q)'
    BY <2>1 DEF Stalled
  <2> QED
    BY <1>1, <2>1, <2>2, StalledStays
<1>3. CASE call'[c].answer = call[c].answer
  BY <1>1, <1>2, <1>3 DEF OneAnswer
<1>4. CASE call'[c].answer # call[c].answer
  <2>1. CallerStep(c)
    BY <1>1, <1>4, WhoWaits DEF Waits
  <2>2. \/ Check(c) /\ Return(c, result[r])
        \/ (SaveReport(c) \/ SaveProposal(c)) /\ Return(c, c) /\ result' = Saved(c)
    <3>1. call'[c] # call[c]
      BY <1>4
    <3>2. ~Fails(c)
      BY <1>1, ReturnFacts DEF Fails
    <3>3. ~(\E outcome, usage, sent : Outcome(c, outcome, usage, sent))
      BY <1>1, <1>4, OutcomeFacts
    <3>4. ~Read(c) /\ ~(Note(c, [call[c] EXCEPT !.outcome = "free"]))
      BY <1>1, <1>4 DEF Read, Note, NewCall, GInv, GatewayTypeOK
    <3>5. ~Unanchored(c)
      BY <1>1, <1>4, UnanchoredRow DEF GInv, GatewayTypeOK, CallRow
    <3>6. Check(c) \/ SaveReport(c) \/ SaveProposal(c)
      BY <2>1, <3>1, <3>2, <3>3, <3>4, <3>5 DEF CallerStep, Deny, Join, Reserve, Claim, Lost, NotSent,
         Send, KeepLease, Answer, ReadOutcome, WriteOutcome, AfterOutcome, SettleInvoice,
         PublishReport, calls
    <3> QED
      BY <3>1, <3>2, <3>4, <3>6 DEF Check, SaveReport, SaveProposal
  <2>3. CASE Check(c) /\ Return(c, result[r])
    BY <1>1, <2>3, ReturnFacts
  <2>4. CASE (SaveReport(c) \/ SaveProposal(c)) /\ Return(c, c) /\ result' = Saved(c)
    <3>1. call'[c].answer = c /\ Sent(c)
      BY <1>1, <2>4, ReturnFacts DEF SaveReport, SaveProposal, At, CallOK
    <3>2. CASE result[r] = Nobody
      BY <1>1, <2>4, <3>1, <3>2 DEF Saved
    <3>3. CASE result[r] # Nobody
      <4>1. result[r] \in Caller /\ Asks[result[r]] = r /\ Sent(result[r])
        BY <1>1, <3>3 DEF ResultsOK
      <4>2. result[r] = c
        BY <1>1, <1>2, <3>1, <4>1 DEF CalledOnce
      <4> QED
        BY <1>1, <3>1, <3>3, <4>2
    <3> QED
      BY <3>2, <3>3
  <2> QED
    BY <2>2, <2>3, <2>4
<1> QED
  BY <1>3, <1>4

LEMMA CallInit == GatewayInit => CallInv
<1> SUFFICES ASSUME GatewayInit PROVE CallInv
  OBVIOUS
<1>1. GInv
  BY GatewayInitInvariant
<1>2. Admitted = {} /\ \A r \in Request : count[r] = 0
  BY DEF GatewayInit, Init, Admitted, Attempt
<1>3. LedgerUse
  BY <1>2 DEF LedgerUse, GatewayInit, Init
<1>4. /\ \A c \in Caller : pc[c] = "start" /\ call[c].sent = Nobody /\ call[c].usage = NoUsage
                            /\ call[c].answer = Nobody
      /\ reports = {} /\ \A r \in Provider : result[r] = Nobody
  BY DEF GatewayInit, NewCall
<1>5. \A c \in Caller : result[Asks[c]] # c
  BY <1>4, CallerFacts, GatewayAssumption
<1>6. ResultsOK
  BY <1>4, <1>5 DEF ResultsOK
<1>7. CallsOK
  BY <1>4 DEF CallsOK, CallOK, ClaimOK, SentOK, PaidOK, Sent, Unsent
<1>8. CalledOnce /\ FreeWasNotCalled /\ InvoiceFirst /\ OneAnswer
  BY <1>4 DEF CalledOnce, FreeWasNotCalled, InvoiceFirst, OneAnswer, Sent
<1> QED
  BY <1>1, <1>3, <1>6, <1>7, <1>8 DEF CallInv

LEMMA CallNext == CallInv /\ [GatewayNext]_gvars => CallInv'
<1> SUFFICES ASSUME CallInv, [GatewayNext]_gvars PROVE CallInv'
  OBVIOUS
<1>1. GInv' /\ LedgerUse' /\ ResultsOK' /\ CalledOnce'
  BY GatewayNextInvariant, LedgerUseKept, ResultsKept, CalledOnceKept DEF CallInv
<1>2. ASSUME NEW c \in Caller PROVE CallOK(c)' /\ ClaimOK(c)' /\ SentOK(c)' /\ PaidOK(c)'
  BY CallsKept, ClaimsKept, SentsKept, PaidKept
<1>3. CallsOK'
  BY <1>2 DEF CallsOK
<1>4. FreeWasNotCalled'
  <2>1. ASSUME NEW c \in Caller, Sent(c)', call'[c].sent \notin stalled',
               bill'[call'[c].sent].event = "final"
        PROVE  \E e \in evidence' : e.attempt = call'[c].sent /\ e.kind = "final"
    BY <2>1, FreeKept DEF Sent
  <2> QED
    BY <2>1 DEF FreeWasNotCalled
<1>5. InvoiceFirst'
  <2>1. ASSUME NEW c \in Caller, call'[c].usage # NoUsage,
               c \in reports' \/ result'[Asks[c]] = c \/ (pc'[c] = "done" /\ ~Stalled(Asks[c])')
        PROVE  InvoiceKept(c)'
    BY <1>1, <1>2, <2>1, InvoiceKeptFirst
  <2> QED
    BY <2>1 DEF InvoiceFirst, InvoiceKept
<1>6. OneAnswer'
  BY AnswerKept DEF OneAnswer
<1> QED
  BY <1>1, <1>3, <1>4, <1>5, <1>6 DEF CallInv

\* The invariant of the calls holds of every behaviour.
LEMMA CallInvariant == GatewaySpec => []CallInv
  BY CallInit, CallNext, PTL DEF GatewaySpec

\* The provider executes a logical request once, for any number of callers, retries,
\* kills and changes of the evidence, unless a lease ran out under a running attempt.
THEOREM ProviderCalledOnce == GatewaySpec => []CalledOnce
<1>1. CallInv => CalledOnce
  BY DEF CallInv
<1> QED
  BY <1>1, CallInvariant, PTL

\* No bill is closed without an invoice for an attempt that was handed to the provider.
THEOREM FreeMeansNotCalled == GatewaySpec => []FreeWasNotCalled
<1>1. CallInv => FreeWasNotCalled
  BY DEF CallInv
<1> QED
  BY <1>1, CallInvariant, PTL

\* The ledger holds the invoice of an answer before anything is made of the answer.
THEOREM InvoiceComesFirst == GatewaySpec => []InvoiceFirst
<1>1. CallInv => InvoiceFirst
  BY DEF CallInv
<1> QED
  BY <1>1, CallInvariant, PTL

\* All callers of a request that get an answer get the one that was saved.
THEOREM SameAnswerForAll == GatewaySpec => []OneAnswer
<1>1. CallInv => OneAnswer
  BY DEF CallInv
<1> QED
  BY <1>1, CallInvariant, PTL
=============================================================================
