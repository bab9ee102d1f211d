-------------------------- MODULE JobLedgerProofs --------------------------
(***************************************************************************)
(* Proofs about the job ledger, for every set of requests, owners, callers *)
(* and receipts, every budget and every bound: what an attempt's status    *)
(* means, and that what attempts hold fits budgets and shared limits.      *)
(***************************************************************************)
EXTENDS JobLedger, FiniteSums, TLAPS

\* A caller only ever holds a read of an attempt that exists, at a revision the
\* attempt has had: without it a revision could "come back" and ViewFresh fail.
ViewBounded ==
  \A v \in view : v.attempt \in Admitted /\ v.revision <= attempt[v.attempt].revision

\* The rows of the attempts that exist have a real status.
StatusOK == \A a \in Admitted : attempt[a].status \in Status

IInv ==
  /\ TypeOK
  /\ StatusOK
  /\ OneLiveAttempt
  /\ UnknownNotReconciled
  /\ CancelWindsDown
  /\ ViewFresh
  /\ ViewBounded

-----------------------------------------------------------------------------
(* Money.                                                                   *)

LEMMA Max0Nat == \A n \in Int : Max0(n) \in Nat
  BY DEF Max0

\* Applying an invoice keeps the totals of a bill natural numbers and settles
\* exactly the amount invoiced.
LEMMA InvoicedBill ==
  ASSUME NEW b \in Bill, NEW amount \in Nat, NEW final \in BOOLEAN
  PROVE  Invoiced(b, amount, final) \in Bill /\ Invoiced(b, amount, final).settled = amount
  BY DEF Bill, Invoiced, Max0

LEMMA MarkUnsettledBill ==
  ASSUME NEW b \in Bill
  PROVE  MarkUnsettled(b) \in Bill /\ MarkUnsettled(b).settled = b.settled
<1>1. b.reserved \in Int /\ b.settled \in Int
  BY DEF Bill
<1>2. Max0(b.reserved - b.settled) \in Nat
  BY <1>1, Max0Nat
<1> QED
  BY <1>2 DEF Bill, MarkUnsettled

\* Closing the bill of an attempt never lowers what was settled.
LEMMA SettledBill ==
  ASSUME NEW r \in Request, NEW b \in Bill, NEW cost \in Amount \cup {NoCost},
         NEW noCharge \in BOOLEAN, cost # NoCost => cost >= b.settled
  PROVE  Settled(r, b, cost, noCharge) \in Bill /\ Settled(r, b, cost, noCharge).settled >= b.settled
<1> DEFINE closed == Settled(r, b, cost, noCharge)
<1>1. b.settled \in Nat
  BY DEF Bill
<1>2. ASSUME NEW amount \in Nat, amount >= b.settled, closed = Invoiced(b, amount, TRUE)
      PROVE  closed \in Bill /\ closed.settled >= b.settled
  <2>1. Invoiced(b, amount, TRUE) \in Bill /\ Invoiced(b, amount, TRUE).settled = amount
    BY InvoicedBill, Zenon
  <2>2. closed \in Bill /\ closed.settled = amount
    BY <1>2, <2>1, Zenon
  <2> HIDE DEF closed
  <2> QED
    BY <1>2, <2>2
<1>3. CASE cost # NoCost
  <2>1. cost \in Nat /\ cost >= b.settled
    BY <1>3, AmountAssumption
  <2>2. closed = Invoiced(b, cost, TRUE)
    BY <1>3 DEF Settled
  <2> QED
    BY <1>2, <2>1, <2>2, Zenon
<1>4. CASE cost = NoCost /\ noCharge /\ b.settled = 0
  <2>1. 0 \in Nat /\ 0 >= b.settled
    BY <1>4
  <2>2. closed = Invoiced(b, 0, TRUE)
    BY <1>4 DEF Settled
  <2> QED
    BY <1>2, <2>1, <2>2, Zenon
<1>5. CASE cost = NoCost /\ ~(noCharge /\ b.settled = 0) /\ r \in Local
  <2>1. b.settled \in Nat /\ b.settled >= b.settled
    BY <1>1
  <2>2. closed = Invoiced(b, b.settled, TRUE)
    BY <1>5 DEF Settled
  <2> QED
    BY <1>2, <2>1, <2>2, Zenon
<1>6. CASE cost = NoCost /\ ~(noCharge /\ b.settled = 0) /\ r \notin Local
  <2>1. closed = MarkUnsettled(b)
    BY <1>6 DEF Settled
  <2>2. closed \in Bill /\ closed.settled = b.settled
    BY <2>1, MarkUnsettledBill, Zenon
  <2> HIDE DEF closed
  <2>3. closed \in Bill /\ closed.settled >= b.settled
    BY <1>1, <2>2
  <2> QED
    BY <2>3 DEF closed
<1> QED
  BY <1>3, <1>4, <1>5, <1>6, Zenon

\* A closed bill has given back all that it reserved and did not spend.
ClosedBill(b) == b.event = "final" => b.reserved <= b.settled + b.released

\* Bill c may follow bill b: a reservation is made once, nothing that was given
\* back is taken again, and a bill is closed only with all its money accounted for.
Follows(b, c) ==
  /\ c.reserved = b.reserved
  /\ c.released >= b.released
  /\ ClosedBill(b) => ClosedBill(c)

LEMMA SameFollows == ASSUME NEW b \in Bill PROVE Follows(b, b)
  BY DEF Follows, Bill

LEMMA InvoicedFollows ==
  ASSUME NEW b \in Bill, NEW amount \in Nat, NEW final \in BOOLEAN
  PROVE  Follows(b, Invoiced(b, amount, final))
<1>1. b.reserved \in Nat /\ b.released \in Nat
  BY DEF Bill
<1>2. CASE final
  <2>1. /\ Invoiced(b, amount, final).reserved = b.reserved
        /\ Invoiced(b, amount, final).settled = amount
        /\ Invoiced(b, amount, final).released = b.released + Max0(b.reserved - amount - b.released)
    BY <1>2 DEF Invoiced
  <2>2. LET m == Max0(b.reserved - amount - b.released)
        IN  m \in Nat /\ b.reserved <= amount + (b.released + m)
    BY <1>1 DEF Max0
  <2> QED
    BY <1>1, <2>1, <2>2 DEF Follows, ClosedBill
<1>3. CASE ~final
  BY <1>1, <1>3 DEF Invoiced, Follows, ClosedBill
<1> QED
  BY <1>2, <1>3

LEMMA MarkUnsettledFollows == ASSUME NEW b \in Bill PROVE Follows(b, MarkUnsettled(b))
<1>1. /\ MarkUnsettled(b).reserved = b.reserved
      /\ MarkUnsettled(b).released = b.released
      /\ MarkUnsettled(b).event = "unknown"
  BY DEF MarkUnsettled, Bill
<1> QED
  BY <1>1 DEF Follows, ClosedBill, Bill

LEMMA SettledFollows ==
  ASSUME NEW r \in Request, NEW b \in Bill, NEW cost \in Amount \cup {NoCost},
         NEW noCharge \in BOOLEAN
  PROVE  Follows(b, Settled(r, b, cost, noCharge))
<1>1. \/ Settled(r, b, cost, noCharge) = MarkUnsettled(b)
      \/ \E amount \in Nat : Settled(r, b, cost, noCharge) = Invoiced(b, amount, TRUE)
  <2>1. 0 \in Nat /\ b.settled \in Nat /\ (cost # NoCost => cost \in Nat)
    BY AmountAssumption DEF Bill
  <2> QED
    BY <2>1, Zenon DEF Settled
<1> QED
  BY <1>1, InvoicedFollows, MarkUnsettledFollows

-----------------------------------------------------------------------------
(* What one transition does to the attempt it is applied to.                *)

\* A terminal attempt stays over and an unknown outcome stays unknown; a live
\* attempt whose request is cancelled winds down.
LEMMA CoercedStatus ==
  ASSUME TypeOK, NEW a \in Admitted, NEW o, NEW target \in Status,
         attempt[a].status \in Status, TransitionAllowed(a, o, target)
  PROVE  /\ Coerced(a, target) \in Status
         /\ attempt[a].status \notin Live => Coerced(a, target) \notin Live
         /\ attempt[a].status = "outcome_unknown" => Coerced(a, target) = "outcome_unknown"
         /\ Coerced(a, target) \in Live /\ cancel[a[1]] => Coerced(a, target) = "cancelling"
         /\ Coerced(a, target) = "cancelling" => target = "cancelling" \/ cancel[a[1]]
  BY DEF Coerced, TransitionAllowed, Status, Live, Running, Terminal

\* What a transition leaves of the attempt's bill.
LEMMA BillAfterTyped ==
  ASSUME NEW a \in Admitted, NEW s, NEW cost \in Amount \cup {NoCost}, NEW noCharge \in BOOLEAN,
         bill[a] \in Bill, Closes(a, s) /\ cost # NoCost => cost >= bill[a].settled
  PROVE  BillAfter(a, s, cost, noCharge) \in Bill /\ BillAfter(a, s, cost, noCharge).settled >= bill[a].settled
<1>1. a[1] \in Request
  BY DEF Admitted, Attempt
<1>2. bill[a].settled \in Nat
  BY DEF Bill
<1>3. CASE ~Closes(a, s)
  BY <1>2, <1>3 DEF BillAfter
<1>4. CASE Closes(a, s) /\ s = "outcome_unknown"
  BY <1>2, <1>4, MarkUnsettledBill DEF BillAfter
<1>5. CASE Closes(a, s) /\ s # "outcome_unknown"
  <2>1. BillAfter(a, s, cost, noCharge) = Settled(a[1], bill[a], cost, noCharge)
    BY <1>5 DEF BillAfter
  <2> QED
    BY <1>1, <1>5, <2>1, SettledBill, Zenon
<1> QED
  BY <1>3, <1>4, <1>5

LEMMA BillAfterFollows ==
  ASSUME NEW a \in Admitted, NEW s, NEW cost \in Amount \cup {NoCost}, NEW noCharge \in BOOLEAN,
         bill[a] \in Bill
  PROVE  Follows(bill[a], BillAfter(a, s, cost, noCharge))
<1>1. a[1] \in Request
  BY DEF Admitted, Attempt
<1>2. /\ Follows(bill[a], bill[a])
      /\ Follows(bill[a], MarkUnsettled(bill[a]))
      /\ Follows(bill[a], Settled(a[1], bill[a], cost, noCharge))
  BY <1>1, SameFollows, MarkUnsettledFollows, SettledFollows
<1> QED
  BY <1>2, Zenon DEF BillAfter

\* Everything a transition of attempt a does, without the reason it had.
Moves(a) ==
  /\ \E row \in AttemptRow, b \in Bill :
       /\ attempt' = [attempt EXCEPT ![a] = row]
       /\ bill' = [bill EXCEPT ![a] = b]
       /\ row.status \in Status
       /\ row.revision = attempt[a].revision + 1
       /\ row.reconciled => row.status \in Terminal
       /\ attempt[a].status \notin Live => row.status \notin Live
       /\ attempt[a].status = "outcome_unknown" => row.status = "outcome_unknown"
       /\ row.status \in Live /\ cancel[a[1]] => row.status = "cancelling"
       /\ b.settled >= bill[a].settled
       /\ Follows(bill[a], b)
       /\ attempt[a].status \notin Live /\ b.event = "final" => bill[a].event = "final"

LEMMA TransitionMoves ==
  ASSUME IInv, NEW a \in Admitted, NEW o \in Owner \cup {NoOwner}, NEW target \in Status,
         NEW cost \in Amount \cup {NoCost}, NEW noCharge \in BOOLEAN,
         Transition(a, o, target, cost, noCharge)
  PROVE  Moves(a) /\ (attempt'[a].status = "cancelling" => target = "cancelling" \/ cancel[a[1]])
<1> DEFINE s == Coerced(a, target)
           row == Moved(attempt[a], o, s)
           b == BillAfter(a, s, cost, noCharge)
<1>1. a \in Attempt /\ attempt[a] \in AttemptRow /\ bill[a] \in Bill /\ attempt[a].status \in Status
  BY DEF IInv, TypeOK, StatusOK, Admitted
<1>2. TransitionAllowed(a, o, target) /\ attempt[a].revision < MaxRevision
  BY DEF Transition
<1>3. /\ s \in Status
      /\ attempt[a].status \notin Live => s \notin Live
      /\ attempt[a].status = "outcome_unknown" => s = "outcome_unknown"
      /\ s \in Live /\ cancel[a[1]] => s = "cancelling"
      /\ s = "cancelling" => target = "cancelling" \/ cancel[a[1]]
  BY <1>1, <1>2, CoercedStatus DEF IInv
<1>4. b \in Bill /\ b.settled >= bill[a].settled
  BY <1>1, BillAfterTyped DEF Transition
<1>11. Follows(bill[a], b)
  BY <1>1, BillAfterFollows
<1>5. row.status = s /\ row.revision = attempt[a].revision + 1
  BY DEF Moved
<1>6. row \in AttemptRow
  BY <1>1, <1>2, <1>3, AttemptsAssumption DEF Moved, AttemptRow
<1>7. row.reconciled => s \in Terminal
  <2>1. ASSUME row.reconciled PROVE s \in Terminal
    <3>1. attempt[a].reconciled /\ s # "outcome_unknown"
      BY <2>1 DEF Moved
    <3>2. attempt[a].status \in Terminal
      BY <3>1 DEF IInv, UnknownNotReconciled
    <3>3. attempt[a].status \notin Live
      BY <3>2 DEF Terminal, Live, Running
    <3> QED
      BY <1>3, <3>1, <3>3 DEF Status
  <2> QED
    BY <2>1
<1>8. attempt' = [attempt EXCEPT ![a] = row] /\ bill' = [bill EXCEPT ![a] = b]
  BY DEF Transition
<1>10. attempt[a].status \notin Live /\ b.event = "final" => bill[a].event = "final"
  <2>1. SUFFICES ASSUME attempt[a].status \notin Live PROVE b.event = "unknown" \/ b = bill[a]
    OBVIOUS
  <2>2. attempt[a].status \in Terminal \/ s = "outcome_unknown"
    BY <1>1, <1>3, <2>1 DEF Status
  <2>3. CASE Closes(a, s)
    <3>1. s = "outcome_unknown"
      BY <2>2, <2>3 DEF Closes
    <3> QED
      BY <1>1, <2>3, <3>1 DEF BillAfter, MarkUnsettled, Bill
  <2>4. CASE ~Closes(a, s)
    BY <2>4 DEF BillAfter
  <2> QED
    BY <2>3, <2>4
<1>9. attempt'[a] = row
  BY <1>1, <1>8 DEF IInv, TypeOK
<1> HIDE DEF row, b, s
<1> QED
  BY <1>3, <1>4, <1>5, <1>6, <1>7, <1>8, <1>9, <1>10, <1>11 DEF Moves

-----------------------------------------------------------------------------
(* Steps that admit no attempt.                                             *)

\* What such a step may do to the row of one attempt.
RowStep(x) ==
  /\ attempt'[x].status \in Status
  /\ attempt[x].status \notin Live => attempt'[x].status \notin Live
  /\ attempt'[x].reconciled => attempt'[x].status \in Terminal
  /\ attempt'[x].revision >= attempt[x].revision
  /\ attempt'[x].revision = attempt[x].revision => attempt'[x].status = attempt[x].status
  /\ attempt'[x].status \in Live => (attempt'[x].status = "cancelling" <=> cancel'[x[1]])

\* The attempts before the latest one exist, and are the other ones.
LEMMA EarlierAdmitted ==
  ASSUME IInv
  PROVE  \A r \in Request : \A k \in 1 .. count[r] - 1 : <<r, k>> \in Admitted
<1>1. SUFFICES ASSUME NEW r \in Request, NEW k \in 1 .. count[r] - 1
               PROVE  <<r, k>> \in Admitted
  OBVIOUS
<1>2. count[r] \in 0 .. MaxAttempts
  BY DEF IInv, TypeOK
<1>3. k \in 1 .. MaxAttempts /\ k <= count[r]
  BY <1>2, AttemptsAssumption
<1> QED
  BY <1>3 DEF Admitted, Attempt

LEMMA RowStepsKeepInvariant ==
  ASSUME IInv, TypeOK', count' = count, view' \subseteq view, \A x \in Admitted : RowStep(x)
  PROVE  IInv'
<1>1. Admitted' = Admitted
  BY DEF Admitted
<1>2. StatusOK'
  BY <1>1 DEF StatusOK, RowStep
<1>3. OneLiveAttempt'
  BY EarlierAdmitted DEF IInv, OneLiveAttempt, RowStep
<1>4. UnknownNotReconciled'
  BY <1>1 DEF UnknownNotReconciled, RowStep
<1>5. CancelWindsDown'
  BY <1>1 DEF CancelWindsDown, RowStep
<1>6. ASSUME NEW v \in view'
      PROVE  /\ v.attempt \in Admitted /\ v.revision <= attempt'[v.attempt].revision
             /\ v.revision = attempt'[v.attempt].revision => v.status = attempt'[v.attempt].status
  <2>1. v.attempt \in Admitted /\ v.attempt \in Attempt /\ v.revision <= attempt[v.attempt].revision
    BY DEF IInv, ViewBounded, Admitted
  <2>2. /\ v.revision \in Int
        /\ attempt[v.attempt].revision \in Int
        /\ attempt'[v.attempt].revision \in Int
    BY <2>1 DEF IInv, TypeOK, View, AttemptRow
  <2>3. /\ attempt'[v.attempt].revision >= attempt[v.attempt].revision
        /\ attempt'[v.attempt].revision = attempt[v.attempt].revision =>
              attempt'[v.attempt].status = attempt[v.attempt].status
    BY <2>1 DEF RowStep
  <2>4. v.revision = attempt[v.attempt].revision => v.status = attempt[v.attempt].status
    BY DEF IInv, ViewFresh
  <2> QED
    BY <2>1, <2>2, <2>3, <2>4
<1>7. ViewFresh' /\ ViewBounded'
  BY <1>1, <1>6 DEF ViewFresh, ViewBounded
<1> QED
  BY <1>2, <1>3, <1>4, <1>5, <1>7 DEF IInv

\* A row that stays as it is takes a RowStep, unless its request's cancellation
\* changes while it is live.
LEMMA SameRow ==
  ASSUME IInv, NEW x \in Admitted,
         /\ attempt'[x].status = attempt[x].status
         /\ attempt'[x].revision = attempt[x].revision
         /\ attempt'[x].reconciled = attempt[x].reconciled,
         attempt[x].status \in Live => cancel'[x[1]] = cancel[x[1]]
  PROVE  RowStep(x)
<1>1. attempt[x].revision \in Int
  BY DEF IInv, TypeOK, Admitted, AttemptRow
<1> QED
  BY <1>1 DEF IInv, StatusOK, UnknownNotReconciled, CancelWindsDown, RowStep

\* A move of one attempt, its request's cancellation row being as it was.
LEMMA MoveKeepsInvariant ==
  ASSUME IInv, NEW a \in Admitted, Moves(a),
         attempt'[a].status = "cancelling" => cancel[a[1]],
         count' = count, cancel' = cancel, evidence' = evidence, view' \subseteq view
  PROVE  IInv'
<1>1. PICK row \in AttemptRow, b \in Bill :
        /\ attempt' = [attempt EXCEPT ![a] = row]
        /\ bill' = [bill EXCEPT ![a] = b]
        /\ row.status \in Status
        /\ row.revision = attempt[a].revision + 1
        /\ row.reconciled => row.status \in Terminal
        /\ attempt[a].status \notin Live => row.status \notin Live
        /\ row.status \in Live /\ cancel[a[1]] => row.status = "cancelling"
  BY DEF Moves
<1>2. a \in Attempt /\ attempt'[a] = row /\ attempt[a].revision \in Int
  BY <1>1 DEF Admitted, IInv, TypeOK, AttemptRow
<1>3. TypeOK'
  BY <1>1 DEF IInv, TypeOK
<1>4. ASSUME NEW x \in Admitted PROVE RowStep(x)
  <2>1. CASE x = a
    BY <1>1, <1>2, <2>1 DEF RowStep
  <2>2. CASE x # a
    <3>1. attempt'[x] = attempt[x]
      BY <1>1, <2>2 DEF IInv, TypeOK, Admitted
    <3> QED
      BY <3>1, SameRow
  <2> QED
    BY <2>1, <2>2
<1> QED
  BY <1>3, <1>4, RowStepsKeepInvariant

\* The latest attempt of a request that has one exists.
LEMMA LatestAdmitted ==
  ASSUME TypeOK, NEW r \in Request, count[r] > 0
  PROVE  Latest(r) \in Admitted /\ Latest(r)[1] = r
  BY DEF TypeOK, Latest, Admitted, Attempt

-----------------------------------------------------------------------------
(* The invariant is inductive.                                              *)

\* A new attempt: the one before it is over or reconciled, and the cancellation
\* of the request is forgotten with it.
LEMMA AdmitKeeps ==
  ASSUME IInv, NEW r \in Request, NEW o \in Owner, NEW amount \in Amount, Admit(r, o, amount)
  PROVE  IInv'
<1> DEFINE new == <<r, count[r] + 1>>
           fresh == [status |-> "submitted", owner |-> o, leased |-> TRUE, revision |-> 0,
                     reconciled |-> FALSE, dispatchStarted |-> FALSE]
<1>1. /\ count[r] < MaxAttempts
      /\ count' = [count EXCEPT ![r] = @ + 1]
      /\ attempt' = [attempt EXCEPT ![new] = fresh]
      /\ bill' = [bill EXCEPT ![new] = [NoBill EXCEPT !.reserved = amount]]
      /\ cancel' = [cancel EXCEPT ![r] = FALSE]
      /\ UNCHANGED <<evidence, view>>
  BY DEF Admit
<1>2. /\ count \in [Request -> 0 .. MaxAttempts]
      /\ attempt \in [Attempt -> AttemptRow]
      /\ bill \in [Attempt -> Bill]
      /\ cancel \in [Request -> BOOLEAN]
  BY DEF IInv, TypeOK
<1>3. count[r] \in 0 .. MaxAttempts /\ count'[r] = count[r] + 1 /\ new \in Attempt
  BY <1>1, <1>2, AttemptsAssumption DEF Attempt
<1>4. Admitted' = Admitted \cup {new} /\ new \notin Admitted
  BY <1>1, <1>2, <1>3 DEF Admitted, Attempt
<1>5. fresh \in AttemptRow
  BY AttemptsAssumption DEF AttemptRow, Status, Live, Running
<1>6. [NoBill EXCEPT !.reserved = amount] \in Bill
  BY AmountAssumption DEF NoBill, Bill
<1>7. attempt'[new] = fresh /\ \A x \in Admitted : attempt'[x] = attempt[x]
  BY <1>1, <1>2, <1>3, <1>4 DEF Admitted
<1>8. TypeOK'
  <2>1. count' \in [Request -> 0 .. MaxAttempts]
    BY <1>1, <1>2, <1>3, AttemptsAssumption
  <2>2. attempt' \in [Attempt -> AttemptRow] /\ bill' \in [Attempt -> Bill]
    <3> HIDE DEF new, fresh
    <3> QED
      BY <1>1, <1>2, <1>3, <1>5, <1>6
  <2>3. cancel' \in [Request -> BOOLEAN]
    BY <1>1, <1>2
  <2>4. evidence' \subseteq Evidence /\ view' \subseteq View
    BY <1>1 DEF IInv, TypeOK
  <2> QED
    BY <2>1, <2>2, <2>3, <2>4 DEF TypeOK
<1>9. StatusOK' /\ UnknownNotReconciled'
  BY <1>4, <1>7 DEF IInv, StatusOK, UnknownNotReconciled, Status, Live
<1>10. \A k \in 1 .. count[r] : attempt[<<r, k>>].status \notin Live
  <2>1. SUFFICES ASSUME NEW k \in 1 .. count[r]
                 PROVE  attempt[<<r, k>>].status \notin Live
    OBVIOUS
  <2>2. CASE k = count[r]
    BY <1>3, <2>2 DEF Admit, Retryable, Latest
  <2>3. CASE k # count[r]
    BY <1>3, <2>3 DEF IInv, OneLiveAttempt
  <2> QED
    BY <2>2, <2>3
<1>11. OneLiveAttempt'
  <2>1. SUFFICES ASSUME NEW q \in Request, NEW k \in 1 .. count'[q] - 1
                 PROVE  attempt'[<<q, k>>].status \notin Live
    BY DEF OneLiveAttempt
  <2>2. CASE q = r
    <3>1. k \in 1 .. count[r] /\ <<r, k>> \in Admitted
      BY <1>3, <2>2, AttemptsAssumption DEF Admitted, Attempt
    <3> QED
      BY <1>7, <1>10, <2>2, <3>1
  <2>3. CASE q # r
    <3>1. k \in 1 .. count[q] - 1
      BY <1>1, <1>2, <2>3
    <3> QED
      BY <1>7, <3>1, EarlierAdmitted DEF IInv, OneLiveAttempt
  <2> QED
    BY <2>2, <2>3
<1>12. CancelWindsDown'
  <2>1. SUFFICES ASSUME NEW x \in Admitted', attempt'[x].status \in Live
                 PROVE  attempt'[x].status = "cancelling" <=> cancel'[x[1]]
    BY DEF CancelWindsDown
  <2>2. CASE x = new
    BY <1>1, <1>2, <1>7, <2>2
  <2>3. CASE x \in Admitted
    <3>1. x[1] \in Request /\ x[2] \in 1 .. count[x[1]] /\ x = <<x[1], x[2]>>
      BY <1>2, <2>3 DEF Admitted, Attempt
    <3>2. x[1] # r
      BY <1>7, <1>10, <2>1, <2>3, <3>1
    <3> QED
      BY <1>1, <1>2, <1>7, <2>1, <2>3, <3>1, <3>2 DEF IInv, CancelWindsDown
  <2> QED
    BY <1>4, <2>2, <2>3
<1>13. ViewFresh' /\ ViewBounded'
  BY <1>1, <1>4, <1>7 DEF IInv, ViewFresh, ViewBounded
<1> QED
  BY <1>8, <1>9, <1>11, <1>12, <1>13 DEF IInv

LEMMA ClaimKeeps ==
  ASSUME IInv, NEW r \in Request, NEW o \in Owner, ClaimDispatch(r, o) \/ ClaimCancelled(r, o)
  PROVE  IInv' /\ \E a \in Admitted : Moves(a)
<1>1. Latest(r) \in Admitted /\ o \in Owner \cup {NoOwner} /\ FALSE \in BOOLEAN /\ TRUE \in BOOLEAN
  BY LatestAdmitted DEF IInv, ClaimDispatch, ClaimCancelled
<1>2. /\ NoCost \in Amount \cup {NoCost}
      /\ {"running", "validating", "cancelled"} \subseteq Status
      /\ "cancelling" \notin {"running", "validating", "cancelled"}
  BY DEF Status, Live, Running, Terminal
<1>3. PICK target \in {"running", "validating", "cancelled"}, free \in BOOLEAN :
        /\ Transition(Latest(r), o, target, NoCost, free)
        /\ UNCHANGED <<count, cancel, evidence, view>>
  BY Zenon DEF ClaimDispatch, ClaimCancelled
<1>4. Moves(Latest(r)) /\ (attempt'[Latest(r)].status = "cancelling" => cancel[Latest(r)[1]])
  BY <1>1, <1>2, <1>3, TransitionMoves, Zenon
<1> QED
  BY <1>1, <1>3, <1>4, MoveKeepsInvariant

\* A caller commits on what it read, whatever happened since.
LEMMA CommitKeeps ==
  ASSUME IInv, NEW v \in view, NEW o \in Owner, NEW target \in Status, target # "cancelling",
         NEW cost \in Amount \cup {NoCost}, NEW noCharge \in BOOLEAN,
         Commit(v, o, target, cost, noCharge)
  PROVE  IInv' /\ \E a \in Admitted : Moves(a)
<1>1. v.attempt \in Admitted
  BY DEF IInv, ViewBounded
<1>2. Transition(v.attempt, o, target, cost, noCharge)
  BY DEF Commit
<1>3. Moves(v.attempt) /\ (attempt'[v.attempt].status = "cancelling" => cancel[v.attempt[1]])
  BY <1>1, <1>2, TransitionMoves, Zenon
<1>4. count' = count /\ cancel' = cancel /\ evidence' = evidence /\ view' \subseteq view
  BY DEF Commit
<1> QED
  BY <1>1, <1>3, <1>4, MoveKeepsInvariant

LEMMA CommitSomeKeeps == ASSUME IInv, CommitSome PROVE IInv' /\ \E a \in Admitted : Moves(a)
<1>1. PICK v \in view, o \in Owner :
        \/ CommitRunning(v, o)
        \/ CommitUnknown(v, o)
        \/ \E target \in Terminal, cost \in Amount \cup {NoCost}, noCharge \in BOOLEAN :
             CommitOutcome(v, o, target, cost, noCharge)
  BY DEF CommitSome
<1>2. PICK target \in Terminal \cup {"running", "outcome_unknown"},
           cost \in Amount \cup {NoCost}, noCharge \in BOOLEAN :
        Commit(v, o, target, cost, noCharge)
  BY <1>1, Zenon DEF CommitRunning, CommitUnknown, CommitOutcome
<1>3. target \in Status /\ target # "cancelling"
  BY DEF Status, Live, Running, Terminal
<1> QED
  BY <1>2, <1>3, CommitKeeps, Zenon

LEMMA ReadKeeps ==
  ASSUME IInv, NEW c \in Caller, NEW r \in Request, ReadLatest(c, r)
  PROVE  IInv'
<1> DEFINE a == Latest(r)
           read == [caller |-> c, attempt |-> a, revision |-> attempt[a].revision,
                    status |-> attempt[a].status]
<1>1. /\ view' \subseteq view \cup {read}
      /\ UNCHANGED <<count, attempt, bill, cancel, evidence>>
  BY DEF ReadLatest
<1>2. a \in Admitted /\ a \in Attempt
  BY LatestAdmitted DEF IInv, ReadLatest, Admitted
<1>3. attempt[a].revision \in 0 .. MaxRevision /\ attempt[a].status \in Status
  BY <1>2 DEF IInv, TypeOK, StatusOK, AttemptRow
<1>4. read \in View
  BY <1>2, <1>3 DEF View
<1>5. TypeOK'
  BY <1>1, <1>4 DEF IInv, TypeOK
<1>6. StatusOK' /\ OneLiveAttempt' /\ UnknownNotReconciled' /\ CancelWindsDown' /\ Admitted' = Admitted
  BY <1>1 DEF IInv, StatusOK, OneLiveAttempt, UnknownNotReconciled, CancelWindsDown, Admitted
<1>7. attempt[a].revision <= attempt[a].revision
  BY <1>3
<1>8. ViewFresh' /\ ViewBounded'
  BY <1>1, <1>2, <1>6, <1>7 DEF IInv, ViewFresh, ViewBounded
<1> QED
  BY <1>5, <1>6, <1>8 DEF IInv

\* Heartbeats and the passing of time touch nothing but the lease.
LEMMA LeaseKeeps ==
  ASSUME IInv, NEW a \in Admitted, NEW lease \in BOOLEAN,
         attempt' = [attempt EXCEPT ![a].leased = lease],
         UNCHANGED <<count, bill, cancel, evidence, view>>
  PROVE  IInv'
<1>1. a \in Attempt /\ attempt \in [Attempt -> AttemptRow]
  BY DEF IInv, TypeOK, Admitted
<1>2. [attempt[a] EXCEPT !.leased = lease] \in AttemptRow
  BY <1>1 DEF AttemptRow
<1>3. attempt' = [attempt EXCEPT ![a] = [attempt[a] EXCEPT !.leased = lease]]
  BY <1>1
<1>4. TypeOK'
  BY <1>1, <1>2, <1>3 DEF IInv, TypeOK
<1>5. ASSUME NEW x \in Admitted
      PROVE  /\ attempt'[x].status = attempt[x].status
             /\ attempt'[x].revision = attempt[x].revision
             /\ attempt'[x].reconciled = attempt[x].reconciled
  <2>1. attempt[x] \in AttemptRow /\ x \in Attempt
    BY <1>1 DEF Admitted
  <2>2. CASE x = a
    BY <1>1, <1>3, <2>1, <2>2 DEF AttemptRow
  <2>3. CASE x # a
    BY <1>1, <1>3, <2>1, <2>3
  <2> QED
    BY <2>2, <2>3
<1>6. \A x \in Admitted : RowStep(x)
  BY <1>5, SameRow
<1> QED
  BY <1>4, <1>6, RowStepsKeepInvariant

LEMMA ReclaimKeeps == ASSUME IInv, ReclaimExpired PROVE IInv'
<1>1. /\ \A a \in Expired : a \in Admitted /\ attempt[a].status \in Running /\ attempt[a].revision < MaxRevision
      /\ attempt' = [a \in Attempt |-> IF a \in Expired THEN Reclaimed(attempt[a]) ELSE attempt[a]]
      /\ bill' = [a \in Attempt |-> IF a \in Expired THEN MarkUnsettled(bill[a]) ELSE bill[a]]
      /\ UNCHANGED <<count, cancel, evidence, view>>
  BY DEF ReclaimExpired, Expired
<1>2. attempt \in [Attempt -> AttemptRow] /\ bill \in [Attempt -> Bill]
  BY DEF IInv, TypeOK
<1>3. ASSUME NEW a \in Expired
      PROVE  /\ Reclaimed(attempt[a]) \in AttemptRow
             /\ Reclaimed(attempt[a]).status = "outcome_unknown"
             /\ Reclaimed(attempt[a]).revision = attempt[a].revision + 1
             /\ Reclaimed(attempt[a]).reconciled = attempt[a].reconciled
  <2>1. attempt[a] \in AttemptRow /\ attempt[a].revision < MaxRevision
    BY <1>1, <1>2 DEF Admitted
  <2>2. attempt[a].revision + 1 \in 0 .. MaxRevision
    BY <2>1, AttemptsAssumption DEF AttemptRow
  <2>3. "outcome_unknown" \in Status
    BY DEF Status
  <2> QED
    BY <2>1, <2>2, <2>3 DEF Reclaimed, AttemptRow
<1>4. TypeOK'
  <2>1. attempt' \in [Attempt -> AttemptRow]
    BY <1>1, <1>2, <1>3
  <2>2. bill' \in [Attempt -> Bill]
    BY <1>1, <1>2, MarkUnsettledBill
  <2> QED
    BY <1>1, <2>1, <2>2 DEF IInv, TypeOK
<1>5. ASSUME NEW x \in Admitted PROVE RowStep(x)
  <2>1. x \in Attempt /\ attempt[x].revision \in Int
    BY <1>2 DEF Admitted, AttemptRow
  <2>2. CASE x \in Expired
    <3>1. ~attempt[x].reconciled
      BY <1>1, <2>2 DEF IInv, UnknownNotReconciled, Running, Terminal
    <3>2. attempt'[x] = Reclaimed(attempt[x])
      BY <1>1, <2>1, <2>2
    <3> QED
      BY <1>3, <2>1, <2>2, <3>1, <3>2 DEF RowStep, Status, Live, Running
  <2>3. CASE x \notin Expired
    <3>1. attempt'[x] = attempt[x]
      BY <1>1, <2>1, <2>3
    <3> QED
      BY <1>1, <3>1, SameRow
  <2> QED
    BY <2>2, <2>3
<1> QED
  BY <1>1, <1>4, <1>5, RowStepsKeepInvariant

\* Evidence is well typed, and a bill may change without its attempt.
LEMMA BillKeeps ==
  ASSUME IInv, NEW a \in Admitted, NEW b \in Bill, bill' = [bill EXCEPT ![a] = b],
         evidence' \subseteq Evidence, UNCHANGED <<count, attempt, cancel, view>>
  PROVE  IInv'
<1>1. TypeOK'
  BY DEF IInv, TypeOK
<1>2. \A x \in Admitted : RowStep(x)
  BY SameRow
<1> QED
  BY <1>1, <1>2, RowStepsKeepInvariant

LEMMA ReceiveTyped ==
  ASSUME TypeOK, NEW a \in Admitted, NEW e \in Receipt, NEW amount \in Amount,
         NEW kind \in {"partial", "final"} \cup ChargeKind, Receive(e, a, kind, amount)
  PROVE  evidence' \subseteq Evidence
<1>1. amount \in Nat /\ a \in Attempt
  BY AmountAssumption DEF Admitted
<1>2. [id |-> e, attempt |-> a, kind |-> kind, amount |-> amount] \in Evidence
  BY <1>1 DEF Evidence
<1> QED
  BY <1>2 DEF Receive, TypeOK

LEMMA ReconcileKeeps ==
  ASSUME IInv, NEW a \in Admitted, NEW outcome \in {"complete", "failed"}, NEW amount \in Amount,
         NEW final \in BOOLEAN, NEW e \in Receipt, Reconcile(a, outcome, amount, final, e)
  PROVE  IInv'
<1> DEFINE row == Decided(attempt[a], outcome, final)
           b == Invoiced(bill[a], amount, final)
           kind == IF final THEN "final" ELSE "partial"
<1>1. /\ attempt[a].revision < MaxRevision
      /\ attempt' = [attempt EXCEPT ![a] = row]
      /\ bill' = [bill EXCEPT ![a] = b]
      /\ Receive(e, a, kind, amount)
      /\ UNCHANGED <<count, cancel, view>>
  BY DEF Reconcile
<1>2. /\ attempt \in [Attempt -> AttemptRow] /\ bill \in [Attempt -> Bill]
      /\ a \in Attempt /\ attempt[a].status \in Status
  BY DEF IInv, TypeOK, StatusOK, Admitted
<1>3. attempt[a].revision + 1 \in 0 .. MaxRevision
  BY <1>1, <1>2, AttemptsAssumption DEF AttemptRow
<1>4. outcome \in Terminal /\ outcome \in Status /\ outcome \notin Live
  BY DEF Status, Terminal, Live, Running
<1>5. /\ row \in AttemptRow
      /\ row.status = (IF final THEN outcome ELSE attempt[a].status)
      /\ row.revision = attempt[a].revision + 1
      /\ row.reconciled = final
  BY <1>2, <1>3, <1>4 DEF Decided, AttemptRow
<1>6. b \in Bill
  BY <1>2, InvoicedBill, AmountAssumption
<1>7. kind \in {"partial", "final"} \cup ChargeKind
  OBVIOUS
<1>8. evidence' \subseteq Evidence
  BY <1>1, <1>7, ReceiveTyped, Zenon DEF IInv
<1> HIDE DEF row, b
<1>9. TypeOK'
  BY <1>1, <1>2, <1>5, <1>6, <1>8 DEF IInv, TypeOK
<1>10. ASSUME NEW x \in Admitted PROVE RowStep(x)
  <2>1. x \in Attempt /\ attempt[x].revision \in Int
    BY <1>2 DEF Admitted, AttemptRow
  <2>2. CASE x = a
    <3>1. attempt'[x] = row
      BY <1>1, <1>2, <2>2
    <3>2. CASE final
      BY <1>4, <1>5, <2>1, <2>2, <3>1, <3>2 DEF RowStep
    <3>3. CASE ~final
      BY <1>1, <1>2, <1>5, <2>1, <2>2, <3>1, <3>3 DEF RowStep, IInv, CancelWindsDown
    <3> QED
      BY <3>2, <3>3
  <2>3. CASE x # a
    <3>1. attempt'[x] = attempt[x]
      BY <1>1, <1>2, <2>1, <2>3
    <3> QED
      BY <1>1, <3>1, SameRow
  <2> QED
    BY <2>2, <2>3
<1> QED
  BY <1>1, <1>9, <1>10, RowStepsKeepInvariant

LEMMA ChargedBill ==
  ASSUME NEW b \in Bill, NEW kind \in ChargeKind, NEW amount \in Nat
  PROVE  Charged(b, kind, amount) \in Bill /\ Charged(b, kind, amount).settled >= b.settled
<1>1. b.settled \in Nat /\ b.settled + amount \in Nat
  BY DEF Bill
<1>2. CASE kind = "settled"
  <2>1. Charged(b, kind, amount) = Invoiced(b, b.settled + amount, FALSE)
    BY <1>2 DEF Charged
  <2>2. Invoiced(b, b.settled + amount, FALSE) \in Bill
        /\ Invoiced(b, b.settled + amount, FALSE).settled = b.settled + amount
    BY <1>1, InvoicedBill, Zenon
  <2>3. b.settled + amount >= b.settled
    BY <1>1
  <2> QED
    BY <2>1, <2>2, <2>3, Zenon
<1>3. CASE kind = "released"
  <2>1. Charged(b, kind, amount) = [b EXCEPT !.released = b.released + amount]
    BY <1>3 DEF Charged
  <2>2. b.released + amount \in Nat
    BY DEF Bill
  <2> QED
    BY <1>1, <2>1, <2>2 DEF Bill
<1>4. CASE kind \notin {"settled", "released"}
  <2>1. PICK more \in Nat : more = b.unsettled + amount
    BY DEF Bill
  <2>2. Charged(b, kind, amount) = [b EXCEPT !.unsettled = more, !.event = "unknown"]
    BY <1>4, <2>1 DEF Charged
  <2>3. Charged(b, kind, amount) \in Bill /\ Charged(b, kind, amount).settled = b.settled
    BY <2>2 DEF Bill
  <2> QED
    BY <1>1, <2>3
<1> QED
  BY <1>2, <1>3, <1>4

LEMMA ChargedFollows ==
  ASSUME NEW b \in Bill, NEW kind \in ChargeKind, NEW amount \in Nat
  PROVE  Follows(b, Charged(b, kind, amount))
<1>1. b.settled + amount \in Nat
  BY DEF Bill
<1>2. CASE kind = "settled"
  BY <1>1, <1>2, InvoicedFollows DEF Charged
<1>3. CASE kind = "released"
  <2>1. PICK more \in Nat : more = b.released + amount /\ more >= b.released
    BY DEF Bill
  <2>2. Charged(b, kind, amount) = [b EXCEPT !.released = more]
    BY <1>3, <2>1 DEF Charged
  <2>3. /\ Charged(b, kind, amount).reserved = b.reserved
        /\ Charged(b, kind, amount).settled = b.settled
        /\ Charged(b, kind, amount).released = more
        /\ Charged(b, kind, amount).event = b.event
    BY <2>2 DEF Bill
  <2> QED
    BY <2>1, <2>3 DEF Follows, ClosedBill, Bill
<1>4. CASE kind \notin {"settled", "released"}
  <2>1. Charged(b, kind, amount) = [b EXCEPT !.unsettled = b.unsettled + amount, !.event = "unknown"]
    BY <1>4 DEF Charged
  <2>2. /\ Charged(b, kind, amount).reserved = b.reserved
        /\ Charged(b, kind, amount).released = b.released
        /\ Charged(b, kind, amount).event = "unknown"
    BY <2>1 DEF Bill
  <2> QED
    BY <2>2 DEF Follows, ClosedBill, Bill
<1> QED
  BY <1>2, <1>3, <1>4

LEMMA MoneySomeKeeps == ASSUME IInv, MoneySome PROVE IInv'
<1>1. PICK a \in Admitted :
        \/ ReconcileUnbilled(a)
        \/ \E outcome \in {"complete", "failed"}, n \in Amount, final \in BOOLEAN, e \in Receipt :
             Reconcile(a, outcome, n, final, e)
        \/ \E kind \in ChargeKind, n \in Amount, e \in Receipt : RecordCharge(a, kind, n, e)
  BY Zenon DEF MoneySome
<1>2. bill[a] \in Bill
  BY DEF IInv, TypeOK, Admitted
<1>3. CASE ReconcileUnbilled(a)
  <2>1. MarkUnsettled(bill[a]) \in Bill
    BY <1>2, MarkUnsettledBill
  <2> QED
    BY <1>3, <2>1, BillKeeps DEF ReconcileUnbilled, IInv, TypeOK
<1>4. CASE \E outcome \in {"complete", "failed"}, n \in Amount, final \in BOOLEAN, e \in Receipt :
             Reconcile(a, outcome, n, final, e)
  BY <1>4, ReconcileKeeps, Zenon
<1>5. CASE \E kind \in ChargeKind, n \in Amount, e \in Receipt : RecordCharge(a, kind, n, e)
  <2>1. PICK kind \in ChargeKind, n \in Amount, e \in Receipt : RecordCharge(a, kind, n, e)
    BY <1>5
  <2>2. Charged(bill[a], kind, n) \in Bill
    BY <1>2, ChargedBill, AmountAssumption
  <2>3. Receive(e, a, kind, n) /\ kind \in {"partial", "final"} \cup ChargeKind
    BY <2>1 DEF RecordCharge
  <2>4. evidence' \subseteq Evidence
    BY <2>3, ReceiveTyped, Zenon DEF IInv
  <2> QED
    BY <2>1, <2>2, <2>4, BillKeeps DEF RecordCharge
<1> QED
  BY <1>1, <1>3, <1>4, <1>5, Zenon

\* A cancellation reaches the latest attempt in the same step; those before it
\* are not live.
LEMMA RequestCancelKeeps ==
  ASSUME IInv, NEW r \in Request, RequestCancel(r)
  PROVE  /\ IInv'
         /\ (\E a \in Admitted : Moves(a)) \/ (attempt' = attempt /\ bill' = bill)
<1> DEFINE a == Latest(r)
<1>1. a \in Admitted /\ a[1] = r /\ a \in Attempt /\ count[r] \in 0 .. MaxAttempts
  BY LatestAdmitted DEF IInv, TypeOK, RequestCancel, Admitted
<1>2. /\ cancel' = [cancel EXCEPT ![r] = TRUE] /\ cancel' \in [Request -> BOOLEAN]
      /\ count' = count /\ evidence' = evidence /\ view' = view
  BY DEF RequestCancel, IInv, TypeOK
<1>3. /\ attempt \in [Attempt -> AttemptRow] /\ bill \in [Attempt -> Bill]
      /\ cancel \in [Request -> BOOLEAN]
  BY DEF IInv, TypeOK
<1>4. ASSUME NEW x \in Admitted, x # a, attempt'[x] = attempt[x] PROVE RowStep(x)
  <2>1. x[1] \in Request /\ x[2] \in 1 .. count[x[1]] /\ x = <<x[1], x[2]>>
    BY DEF Admitted, Attempt, IInv, TypeOK
  <2>2. CASE x[1] = r
    <3>1. x[2] # count[r]
      BY <1>4, <2>1, <2>2 DEF Latest
    <3>2. x[2] \in 1 .. count[r] - 1
      BY <1>1, <2>1, <2>2, <3>1, AttemptsAssumption
    <3>3. attempt[x].status \notin Live
      BY <2>1, <2>2, <3>2 DEF IInv, OneLiveAttempt
    <3> QED
      BY <1>4, <3>3, SameRow
  <2>3. CASE x[1] # r
    BY <1>2, <1>3, <1>4, <2>1, <2>3, SameRow
  <2> QED
    BY <2>2, <2>3
<1>5. CASE attempt[a].status \in Live
  <2>1. Transition(a, attempt[a].owner, "cancelling", NoCost, FALSE)
    BY <1>5 DEF RequestCancel
  <2>2. attempt[a].owner \in Owner \cup {NoOwner} /\ "cancelling" \in Status
    BY <1>1, <1>3 DEF AttemptRow, Status, Live, Running
  <2>3. Moves(a)
    BY <1>1, <2>1, <2>2, TransitionMoves, Zenon
  <2>4. PICK row \in AttemptRow, b \in Bill :
          /\ attempt' = [attempt EXCEPT ![a] = row]
          /\ bill' = [bill EXCEPT ![a] = b]
          /\ row.status \in Status
          /\ row.revision = attempt[a].revision + 1
          /\ row.reconciled => row.status \in Terminal
    BY <2>3 DEF Moves
  <2>5. attempt'[a] = row /\ row.status = "cancelling"
    BY <1>1, <1>3, <2>1, <2>4 DEF Transition, Coerced, Moved
  <2>6. TypeOK'
    BY <1>1, <1>2, <1>3, <2>4 DEF IInv, TypeOK
  <2>7. RowStep(a)
    <3>1. attempt[a].revision \in Int /\ cancel'[a[1]]
      BY <1>1, <1>2, <1>3 DEF AttemptRow
    <3> QED
      BY <1>5, <2>4, <2>5, <3>1 DEF RowStep, Terminal
  <2>8. \A x \in Admitted : x # a => attempt'[x] = attempt[x]
    BY <1>3, <2>4 DEF Admitted
  <2> QED
    BY <1>1, <1>2, <1>4, <2>3, <2>6, <2>7, <2>8, RowStepsKeepInvariant
<1>6. CASE attempt[a].status \notin Live
  <2>1. attempt' = attempt /\ bill' = bill
    BY <1>6 DEF RequestCancel
  <2>2. TypeOK'
    BY <1>2, <2>1 DEF IInv, TypeOK
  <2>3. RowStep(a)
    BY <1>1, <1>6, <2>1, SameRow
  <2> QED
    BY <1>2, <1>4, <2>1, <2>2, <2>3, RowStepsKeepInvariant
<1> QED
  BY <1>5, <1>6

\* confirm_termination and confirm_cleanup bring no status but an end, an unknown
\* outcome, or the one the attempt has.
LEMMA ConfirmKeeps ==
  ASSUME IInv, NEW r \in Request, NEW o \in Owner, NEW known \in BOOLEAN,
         ConfirmTermination(r, o, known) \/ ConfirmCleanup(r, o)
  PROVE  IInv' /\ \E a \in Admitted : Moves(a)
<1> DEFINE a == Latest(r)
<1>1. a \in Admitted /\ o \in Owner \cup {NoOwner} /\ NoCost \in Amount \cup {NoCost} /\ FALSE \in BOOLEAN
  BY LatestAdmitted DEF IInv, ConfirmTermination, ConfirmCleanup
<1>2. PICK target \in {attempt[a].status, "cancelled", "outcome_unknown"} :
        /\ Transition(a, o, target, NoCost, FALSE)
        /\ UNCHANGED <<count, cancel, evidence, view>>
  BY DEF ConfirmTermination, ConfirmCleanup
<1>3. target \in Status
  BY <1>1 DEF IInv, StatusOK, Status, Terminal
<1>4. Moves(a) /\ (attempt'[a].status = "cancelling" => target = "cancelling" \/ cancel[a[1]])
  BY <1>1, <1>2, <1>3, TransitionMoves, Zenon
<1>5. target = "cancelling" => cancel[a[1]]
  BY <1>1, <1>2 DEF IInv, CancelWindsDown, Live, Running
<1> QED
  BY <1>1, <1>2, <1>4, <1>5, MoveKeepsInvariant

-----------------------------------------------------------------------------
(* Theorems.                                                                *)

LEMMA InitInvariant == Init => IInv
<1> SUFFICES ASSUME Init PROVE IInv
  OBVIOUS
<1>1. NoBill \in Bill
  BY DEF NoBill, Bill
<1>2. NoAttempt \in AttemptRow
  BY AttemptsAssumption DEF NoAttempt, AttemptRow
<1>3. TypeOK
  BY <1>1, <1>2, AttemptsAssumption DEF Init, TypeOK
<1>4. Admitted = {}
  BY AttemptsAssumption DEF Init, Admitted, Attempt
<1>5. OneLiveAttempt
  BY DEF Init, OneLiveAttempt
<1>6. ViewFresh /\ ViewBounded
  BY DEF Init, ViewFresh, ViewBounded
<1> QED
  BY <1>3, <1>4, <1>5, <1>6 DEF IInv, StatusOK, UnknownNotReconciled, CancelWindsDown

LEMMA NextInvariant == IInv /\ [Next]_vars => IInv'
<1> SUFFICES ASSUME IInv, [Next]_vars PROVE IInv'
  OBVIOUS
<1>1. CASE AdmitSome
  BY <1>1, AdmitKeeps DEF AdmitSome
<1>2. CASE ClaimSome
  BY <1>2, ClaimKeeps DEF ClaimSome
<1>3. CASE ReadSome
  BY <1>3, ReadKeeps DEF ReadSome
<1>4. CASE CommitSome
  BY <1>4, CommitSomeKeeps
<1>5. CASE LeaseSome
  <2>1. PICK a \in Admitted : LeaseExpires(a) \/ \E o \in Owner : Heartbeat(a, o)
    BY <1>5 DEF LeaseSome
  <2>2. PICK lease \in BOOLEAN : /\ attempt' = [attempt EXCEPT ![a].leased = lease]
                                 /\ UNCHANGED <<count, bill, cancel, evidence, view>>
    BY <2>1 DEF LeaseExpires, Heartbeat
  <2> QED
    BY <2>2, LeaseKeeps
<1>6. CASE ReclaimExpired
  BY <1>6, ReclaimKeeps
<1>7. CASE MoneySome
  BY <1>7, MoneySomeKeeps
<1>8. CASE CancelSome
  BY <1>8, RequestCancelKeeps, ConfirmKeeps DEF CancelSome
<1>9. CASE UNCHANGED vars
  <2>1. TypeOK' /\ count' = count /\ view' \subseteq view
    BY <1>9 DEF vars, IInv, TypeOK
  <2>2. \A x \in Admitted : RowStep(x)
    BY <1>9, SameRow DEF vars
  <2> QED
    BY <2>1, <2>2, RowStepsKeepInvariant
<1> QED
  BY <1>1, <1>2, <1>3, <1>4, <1>5, <1>6, <1>7, <1>8, <1>9 DEF Next

THEOREM Invariance == Spec => []IInv
  BY InitInvariant, NextInvariant, PTL DEF Spec

\* Every reachable ledger is well typed: no total of charges is negative.
THEOREM TypeCorrect == Spec => []TypeOK
<1>1. IInv => TypeOK
  BY DEF IInv
<1> QED
  BY <1>1, Invariance, PTL

\* No request ever has two live attempts.
THEOREM AtMostOneLiveAttempt == Spec => []OneLiveAttempt
<1>1. IInv => OneLiveAttempt
  BY DEF IInv
<1> QED
  BY <1>1, Invariance, PTL

\* Only an attempt that is over is reconciled, never an unknown one.
THEOREM UnknownIsNotReconciled == Spec => []UnknownNotReconciled
<1>1. IInv => UnknownNotReconciled
  BY DEF IInv
<1> QED
  BY <1>1, Invariance, PTL

\* Cancellation rows and winding-down attempts agree.
THEOREM CancellationReachesAttempt == Spec => []CancelWindsDown
<1>1. IInv => CancelWindsDown
  BY DEF IInv
<1> QED
  BY <1>1, Invariance, PTL

\* A current revision means a current status.
THEOREM CurrentRevisionCurrentStatus == Spec => []ViewFresh
<1>1. IInv => ViewFresh
  BY DEF IInv
<1> QED
  BY <1>1, Invariance, PTL

-----------------------------------------------------------------------------
(* What a step may never do.                                                *)

\* A step of the ledger, seen from one attempt: it does not leave an unknown
\* outcome on its own, forgets no charge and no release, and closes no bill of an
\* attempt that is over without new evidence.
HonestStep(x) ==
  /\ attempt[x].status = "outcome_unknown" /\ attempt'[x].status # "outcome_unknown" =>
       attempt'[x].reconciled /\ bill'[x].event = "final"
  /\ bill'[x].settled >= bill[x].settled
  /\ Follows(bill[x], bill'[x])
  /\ attempt[x].status \notin Live /\ bill[x].event # "final" /\ bill'[x].event = "final" =>
       \E e \in evidence' \ evidence : e.attempt = x /\ e.kind = "final"

\* An attempt whose row keeps its status and whose bill is left alone.
LEMMA UntouchedHonest ==
  ASSUME IInv, NEW x \in Admitted, attempt'[x].status = attempt[x].status, bill'[x] = bill[x]
  PROVE  HonestStep(x)
<1>1. bill[x] \in Bill /\ bill[x].settled \in Nat
  BY DEF IInv, TypeOK, Admitted, Bill
<1>2. Follows(bill[x], bill[x])
  BY <1>1, SameFollows
<1> QED
  BY <1>1, <1>2 DEF HonestStep

LEMMA MovesHonest ==
  ASSUME IInv, NEW a \in Admitted, Moves(a), NEW x \in Admitted
  PROVE  HonestStep(x)
<1>1. /\ attempt \in [Attempt -> AttemptRow] /\ bill \in [Attempt -> Bill]
      /\ x \in Attempt /\ a \in Attempt
  BY DEF IInv, TypeOK, Admitted
<1>2. PICK row \in AttemptRow, b \in Bill :
        /\ attempt' = [attempt EXCEPT ![a] = row]
        /\ bill' = [bill EXCEPT ![a] = b]
        /\ attempt[a].status = "outcome_unknown" => row.status = "outcome_unknown"
        /\ b.settled >= bill[a].settled
        /\ Follows(bill[a], b)
        /\ attempt[a].status \notin Live /\ b.event = "final" => bill[a].event = "final"
  BY DEF Moves
<1>3. CASE x = a
  BY <1>1, <1>2, <1>3 DEF HonestStep
<1>4. CASE x # a
  BY <1>1, <1>2, <1>4, UntouchedHonest
<1> QED
  BY <1>3, <1>4

\* A step that changes one bill and no attempt, to a total that is no smaller
\* and not as a final one.
LEMMA BillHonest ==
  ASSUME IInv, NEW a \in Admitted, NEW b, attempt' = attempt, bill' = [bill EXCEPT ![a] = b],
         b.settled >= bill[a].settled, Follows(bill[a], b),
         b.event = "final" => bill[a].event = "final", NEW x \in Admitted
  PROVE  HonestStep(x)
<1>1. bill \in [Attempt -> Bill] /\ x \in Attempt /\ a \in Attempt
  BY DEF IInv, TypeOK, Admitted
<1>2. CASE x = a
  BY <1>1, <1>2 DEF HonestStep
<1>3. CASE x # a
  BY <1>1, <1>3, UntouchedHonest
<1> QED
  BY <1>2, <1>3

LEMMA ReconcileHonest ==
  ASSUME IInv, NEW a \in Admitted, NEW outcome \in {"complete", "failed"}, NEW amount \in Amount,
         NEW final \in BOOLEAN, NEW e \in Receipt, Reconcile(a, outcome, amount, final, e),
         NEW x \in Admitted
  PROVE  HonestStep(x)
<1>1. /\ attempt \in [Attempt -> AttemptRow] /\ bill \in [Attempt -> Bill]
      /\ x \in Attempt /\ a \in Attempt
  BY DEF IInv, TypeOK, Admitted
<1>2. /\ e \notin EventIds
      /\ amount >= bill[a].settled
      /\ attempt' = [attempt EXCEPT ![a] = Decided(attempt[a], outcome, final)]
      /\ bill' = [bill EXCEPT ![a] = Invoiced(bill[a], amount, final)]
      /\ Receive(e, a, IF final THEN "final" ELSE "partial", amount)
  BY DEF Reconcile
<1>3. CASE x # a
  BY <1>1, <1>2, <1>3, UntouchedHonest
<1>4. CASE x = a
  <2>1. bill'[x] = Invoiced(bill[a], amount, final) /\ attempt'[x] = Decided(attempt[a], outcome, final)
    BY <1>1, <1>2, <1>4
  <2>2. bill'[x].settled >= bill[x].settled
    <3>1. Invoiced(bill[a], amount, final).settled = amount
      BY DEF Invoiced
    <3> QED
      BY <1>2, <1>4, <2>1, <3>1
  <2>5. Follows(bill[x], bill'[x])
    BY <1>1, <1>4, <2>1, InvoicedFollows, AmountAssumption
  <2>3. CASE final
    <3>1. bill'[x].event = "final" /\ attempt'[x].reconciled
      BY <1>1, <2>1, <2>3 DEF Invoiced, Decided, AttemptRow
    <3> DEFINE new == [id |-> e, attempt |-> a, kind |-> "final", amount |-> amount]
    <3>2. new \in evidence'
      BY <1>2, <2>3 DEF Receive
    <3>3. new \notin evidence
      BY <1>2 DEF EventIds
    <3> QED
      BY <1>4, <2>2, <2>5, <3>1, <3>2, <3>3 DEF HonestStep
  <2>4. CASE ~final
    BY <1>1, <1>4, <2>1, <2>2, <2>4, <2>5 DEF HonestStep, Invoiced, Decided, AttemptRow
  <2> QED
    BY <2>3, <2>4
<1> QED
  BY <1>3, <1>4

LEMMA MoneySomeHonest == ASSUME IInv, MoneySome, NEW x \in Admitted PROVE HonestStep(x)
<1>1. PICK a \in Admitted :
        \/ ReconcileUnbilled(a)
        \/ \E outcome \in {"complete", "failed"}, n \in Amount, final \in BOOLEAN, e \in Receipt :
             Reconcile(a, outcome, n, final, e)
        \/ \E kind \in ChargeKind, n \in Amount, e \in Receipt : RecordCharge(a, kind, n, e)
  BY Zenon DEF MoneySome
<1>2. bill[a] \in Bill /\ bill[a].settled \in Nat
  BY DEF IInv, TypeOK, Admitted, Bill
<1>3. CASE ReconcileUnbilled(a)
  <2> DEFINE b == MarkUnsettled(bill[a])
  <2>1. attempt' = attempt /\ bill' = [bill EXCEPT ![a] = b]
    BY <1>3 DEF ReconcileUnbilled
  <2>2. b.settled >= bill[a].settled
    BY <1>2, MarkUnsettledBill
  <2>3. b.event = "unknown"
    BY <1>2 DEF MarkUnsettled, Bill
  <2>4. Follows(bill[a], b)
    BY <1>2, MarkUnsettledFollows
  <2> HIDE DEF b
  <2> QED
    BY <2>1, <2>2, <2>3, <2>4, BillHonest
<1>4. CASE \E outcome \in {"complete", "failed"}, n \in Amount, final \in BOOLEAN, e \in Receipt :
             Reconcile(a, outcome, n, final, e)
  BY <1>4, ReconcileHonest, Zenon
<1>5. CASE \E kind \in ChargeKind, n \in Amount, e \in Receipt : RecordCharge(a, kind, n, e)
  <2>1. PICK kind \in ChargeKind, n \in Amount, e \in Receipt : RecordCharge(a, kind, n, e)
    BY <1>5
  <2> DEFINE b == Charged(bill[a], kind, n)
  <2>2. attempt' = attempt /\ bill' = [bill EXCEPT ![a] = b]
    BY <2>1 DEF RecordCharge
  <2>3. b.settled >= bill[a].settled
    BY <1>2, ChargedBill, AmountAssumption
  <2>4. b.event = "final" => bill[a].event = "final"
    BY <1>2 DEF Charged, Invoiced, Bill
  <2>5. Follows(bill[a], b)
    BY <1>2, ChargedFollows, AmountAssumption
  <2> HIDE DEF b
  <2> QED
    BY <2>2, <2>3, <2>4, <2>5, BillHonest
<1> QED
  BY <1>1, <1>3, <1>4, <1>5, Zenon

LEMMA NextHonest == ASSUME IInv, [Next]_vars PROVE \A x \in Admitted : HonestStep(x)
<1> SUFFICES ASSUME NEW x \in Admitted PROVE HonestStep(x)
  OBVIOUS
<1>1. attempt \in [Attempt -> AttemptRow] /\ bill \in [Attempt -> Bill] /\ x \in Attempt
  BY DEF IInv, TypeOK, Admitted
<1>2. CASE attempt' = attempt /\ bill' = bill
  BY <1>2, UntouchedHonest
<1>3. CASE \E a \in Admitted : Moves(a)
  BY <1>3, MovesHonest
<1>4. CASE AdmitSome
  <2>1. PICK r \in Request, o \in Owner, n \in Amount : Admit(r, o, n)
    BY <1>4 DEF AdmitSome
  <2>2. x # <<r, count[r] + 1>>
    <3>1. count[r] \in Int /\ x[2] <= count[x[1]]
      BY DEF IInv, TypeOK, Admitted
    <3> QED
      BY <3>1
  <2>3. attempt'[x] = attempt[x] /\ bill'[x] = bill[x]
    BY <1>1, <2>1, <2>2 DEF Admit
  <2> QED
    BY <2>3, UntouchedHonest
<1>5. CASE ReadSome
  BY <1>2, <1>5 DEF ReadSome, ReadLatest
<1>6. CASE LeaseSome
  <2>1. PICK a \in Admitted, lease \in BOOLEAN :
          attempt' = [attempt EXCEPT ![a].leased = lease] /\ bill' = bill
    BY <1>6 DEF LeaseSome, LeaseExpires, Heartbeat
  <2>2. attempt'[x].status = attempt[x].status
    BY <1>1, <2>1 DEF AttemptRow
  <2> QED
    BY <2>1, <2>2, UntouchedHonest
<1>7. CASE ReclaimExpired
  <2>1. CASE x \in Expired
    <3>1. bill'[x] = MarkUnsettled(bill[x]) /\ bill[x] \in Bill /\ attempt[x].status \in Running
      BY <1>1, <1>7, <2>1 DEF ReclaimExpired, Expired
    <3>2. bill'[x].settled = bill[x].settled /\ bill[x].settled \in Nat
      BY <3>1, MarkUnsettledBill DEF Bill
    <3>3. bill'[x].event = "unknown"
      BY <3>1 DEF MarkUnsettled, Bill
    <3> QED
      BY <3>1, <3>2, <3>3, MarkUnsettledFollows DEF HonestStep, Running
  <2>2. CASE x \notin Expired
    <3>1. attempt'[x] = attempt[x] /\ bill'[x] = bill[x]
      BY <1>1, <1>7, <2>2 DEF ReclaimExpired
    <3> QED
      BY <3>1, UntouchedHonest
  <2> QED
    BY <2>1, <2>2
<1>8. CASE MoneySome
  BY <1>8, MoneySomeHonest
<1>9. CASE ClaimSome \/ CommitSome \/ CancelSome
  BY <1>2, <1>3, <1>9, ClaimKeeps, CommitSomeKeeps, ConfirmKeeps, RequestCancelKeeps
     DEF ClaimSome, CancelSome
<1>10. CASE UNCHANGED vars
  BY <1>2, <1>10 DEF vars
<1> QED
  BY <1>4, <1>5, <1>6, <1>7, <1>8, <1>9, <1>10 DEF Next

\* Every new attempt follows attempts that are all paid for.
LEMMA AdmitsSettled ==
  ASSUME IInv, [Next]_vars, NEW r \in Request, count'[r] # count[r], NEW a \in AttemptsOf(r)
  PROVE  bill[a].event = "final"
<1>1. count \in [Request -> 0 .. MaxAttempts]
  BY DEF IInv, TypeOK
<1>2. PICK q \in Request, o \in Owner, n \in Amount : Admit(q, o, n)
  BY DEF Next, vars, AdmitSome, ClaimSome, ClaimDispatch, ClaimCancelled, ReadSome, ReadLatest,
         CommitSome, CommitRunning, CommitUnknown, CommitOutcome, Commit, LeaseSome, LeaseExpires,
         Heartbeat, ReclaimExpired, MoneySome, ReconcileUnbilled, Reconcile, RecordCharge,
         CancelSome, RequestCancel, ConfirmTermination, ConfirmCleanup
<1>3. q = r
  BY <1>1, <1>2 DEF Admit
<1>4. PICK k \in 1 .. count[r] : a = <<r, k>>
  BY DEF AttemptsOf
<1>5. a \in Admitted /\ count[r] \in Int
  BY <1>1, <1>4, AttemptsAssumption DEF Admitted, Attempt
<1>6. attempt[a].status \notin Live
  <2>1. CASE k = count[r]
    BY <1>2, <1>3, <1>4, <1>5, <2>1 DEF Admit, Retryable, Latest
  <2>2. CASE k # count[r]
    BY <1>4, <1>5, <2>2 DEF IInv, OneLiveAttempt
  <2> QED
    BY <2>1, <2>2
<1>7. attempt[a].status \in Terminal \cup {"outcome_unknown"}
  BY <1>5, <1>6 DEF IInv, StatusOK, Status
<1>8. ~Uncertain(a)
  BY <1>2, <1>3 DEF Admit
<1> QED
  BY <1>7, <1>8 DEF Uncertain

\* Only a final invoice ends an unknown outcome.
THEOREM OnlyInvoiceEndsUnknown == Spec => UnknownNeedsInvoice
<1>1. IInv /\ [Next]_vars =>
        [\A a \in Admitted :
           attempt[a].status = "outcome_unknown" /\ attempt'[a].status # "outcome_unknown" =>
             attempt'[a].reconciled /\ bill'[a].event = "final"]_vars
  BY NextHonest DEF HonestStep
<1> QED
  BY <1>1, Invariance, PTL DEF Spec, UnknownNeedsInvoice

\* No settled charge of an attempt is ever lost.
THEOREM SettledChargesKept == Spec => KnownChargesKept
<1>1. IInv /\ [Next]_vars => [\A a \in Admitted : bill'[a].settled >= bill[a].settled]_vars
  BY NextHonest DEF HonestStep
<1> QED
  BY <1>1, Invariance, PTL DEF Spec, KnownChargesKept

\* A replayed receipt closes no bill that was reopened.
THEOREM ReplayClosesNothing == Spec => ReplayHarmless
<1>1. IInv /\ [Next]_vars =>
        [\A a \in Admitted :
           attempt[a].status \notin Live /\ bill[a].event # "final" /\ bill'[a].event = "final" =>
             \E e \in evidence' \ evidence : e.attempt = a /\ e.kind = "final"]_vars
  BY NextHonest DEF HonestStep
<1> QED
  BY <1>1, Invariance, PTL DEF Spec, ReplayHarmless

\* A request starts a new attempt only after paying for the ones before.
THEOREM RetryOnlyWhenSettled == Spec => AdmittedOnlyWhenSettled
<1>1. IInv /\ [Next]_vars =>
        [\A r \in Request :
           count'[r] # count[r] => \A a \in AttemptsOf(r) : bill[a].event = "final"]_vars
  BY AdmitsSettled
<1> QED
  BY <1>1, Invariance, PTL DEF Spec, AdmittedOnlyWhenSettled
-----------------------------------------------------------------------------
(* Budgets.  An attempt holds the most when it is admitted, and it is       *)
(* admitted out of what the others do not hold: what the ledger counts      *)
(* against the budget is never less than what is held, as long as a closed  *)
(* bill has given back all that it did not spend.                           *)

BillsClosed == \A a \in Admitted : ClosedBill(bill[a])

MoneyInv == IInv /\ BillsClosed /\ BudgetRespected /\ GroupRespected

LEMMA HeldAtMostCommitted ==
  ASSUME NEW b \in Bill, ClosedBill(b)
  PROVE  Held(b) \in Int /\ Commitment(b) \in Int /\ Held(b) <= Commitment(b)
<1>1. b.reserved \in Nat /\ b.settled \in Nat /\ b.released \in Nat
  BY DEF Bill
<1>2. CASE b.event = "final"
  BY <1>1, <1>2 DEF Held, Commitment, ClosedBill
<1>3. CASE b.event # "final"
  BY <1>1, <1>3 DEF Held, Commitment, Max0
<1> QED
  BY <1>2, <1>3

LEMMA AttemptsFinite ==
  ASSUME TypeOK
  PROVE  /\ \A r \in Request : IsFiniteSet(AttemptsOf(r)) /\ AttemptsOf(r) \subseteq Admitted
         /\ IsFiniteSet(ProviderAttempts) /\ ProviderAttempts \subseteq Admitted
<1>1. IsFiniteSet(1 .. MaxAttempts)
  BY FS_Interval, AttemptsAssumption
<1>2. ASSUME NEW r \in Request
      PROVE  IsFiniteSet(AttemptsOf(r)) /\ AttemptsOf(r) \subseteq Admitted
  <2>1. count[r] \in 0 .. MaxAttempts
    BY DEF TypeOK
  <2>2. AttemptsOf(r) \subseteq {r} \X (1 .. MaxAttempts)
    BY <2>1, AttemptsAssumption DEF AttemptsOf
  <2>3. IsFiniteSet({r} \X (1 .. MaxAttempts))
    BY <1>1, FS_Singleton, FS_Product
  <2>4. AttemptsOf(r) \subseteq Admitted
    BY <2>1, AttemptsAssumption DEF AttemptsOf, Admitted, Attempt
  <2> QED
    BY <2>2, <2>3, <2>4, FS_Subset
<1>3. ProviderAttempts \subseteq Provider \X (1 .. MaxAttempts)
  BY DEF ProviderAttempts, Admitted, Attempt
<1>4. IsFiniteSet(Provider \X (1 .. MaxAttempts))
  BY <1>1, ProviderAssumption, FS_Product
<1> QED
  BY <1>2, <1>3, <1>4, FS_Subset DEF ProviderAttempts

\* What a set of attempts holds is an integer, at most what is counted for it.
LEMMA ExposureCounted ==
  ASSUME IInv, BillsClosed, NEW A \in SUBSET Admitted, IsFiniteSet(A)
  PROVE  /\ Exposure(A) \in Int
         /\ SumFunction([a \in A |-> Commitment(bill[a])]) \in Int
         /\ Exposure(A) <= SumFunction([a \in A |-> Commitment(bill[a])])
<1> DEFINE f == [a \in A |-> Held(bill[a])]
           g == [a \in A |-> Commitment(bill[a])]
<1>1. \A a \in A : f[a] \in Int /\ g[a] \in Int /\ f[a] <= g[a]
  BY HeldAtMostCommitted DEF IInv, TypeOK, BillsClosed, Admitted
<1>2. Numbers(f, A) /\ Numbers(g, A)
  BY <1>1 DEF Numbers
<1>3. Exposure(A) = SumFunctionOnSet(f, A) /\ SumFunction(g) = SumFunctionOnSet(g, A)
  BY DEF Exposure, SumFunction
<1> HIDE DEF f, g
<1>4. /\ SumFunctionOnSet(f, A) \in Int /\ SumFunctionOnSet(g, A) \in Int
      /\ SumFunctionOnSet(f, A) <= SumFunctionOnSet(g, A)
  BY <1>1, <1>2, SumInteger, SumAtMost
<1>5. /\ Exposure(A) \in Int /\ SumFunction(g) \in Int
      /\ Exposure(A) <= SumFunction(g)
  BY <1>3, <1>4
<1> QED
  BY <1>5 DEF g

\* No step but an admission makes a set of attempts hold more.
LEMMA ExposureShrinks ==
  ASSUME IInv, IInv', NEW A, A \subseteq Admitted, IsFiniteSet(A),
         \A a \in A : Follows(bill[a], bill'[a])
  PROVE  Exposure(A) \in Int /\ Exposure(A)' \in Int /\ Exposure(A)' <= Exposure(A)
<1> DEFINE f == [a \in A |-> Held(bill'[a])]
           g == [a \in A |-> Held(bill[a])]
<1>1. ASSUME NEW a \in A PROVE f[a] \in Int /\ g[a] \in Int /\ f[a] <= g[a]
  <2>1. bill[a] \in Bill /\ bill'[a] \in Bill /\ Follows(bill[a], bill'[a])
    BY DEF IInv, TypeOK, Admitted
  <2> QED
    BY <2>1 DEF Bill, Follows, Held
<1>2. Numbers(f, A) /\ Numbers(g, A)
  BY <1>1 DEF Numbers
<1>3. Exposure(A) = SumFunctionOnSet(g, A) /\ Exposure(A)' = SumFunctionOnSet(f, A)
  BY DEF Exposure, SumFunction
<1> HIDE DEF f, g
<1>4. /\ SumFunctionOnSet(f, A) \in Int /\ SumFunctionOnSet(g, A) \in Int
      /\ SumFunctionOnSet(f, A) <= SumFunctionOnSet(g, A)
  BY <1>1, <1>2, SumInteger, SumAtMost
<1> QED
  BY <1>3, <1>4
\* An admission leaves what the attempts before it hold, and adds its amount.
LEMMA AdmitExposure ==
  ASSUME IInv, NEW r \in Request, NEW o \in Owner, NEW amount \in Amount, Admit(r, o, amount),
         NEW new, new = <<r, count[r] + 1>>, NEW A, A \subseteq Admitted, IsFiniteSet(A)
  PROVE  /\ Exposure(A) \in Int
         /\ Exposure(A)' = Exposure(A)
         /\ Exposure(A \cup {new})' = amount + Exposure(A)
<1> DEFINE f == [a \in A |-> Held(bill[a])]
           h == [a \in A |-> Held(bill'[a])]
           g == [a \in A \cup {new} |-> Held(bill'[a])]
<1>1. /\ bill \in [Attempt -> Bill] /\ count \in [Request -> 0 .. MaxAttempts]
      /\ count[r] < MaxAttempts
      /\ bill' = [bill EXCEPT ![new] = [NoBill EXCEPT !.reserved = amount]]
  BY DEF IInv, TypeOK, Admit
<1>2. new \in Attempt /\ new \notin A
  BY <1>1, AttemptsAssumption DEF Attempt, Admitted
<1>3. \A a \in A : a \in Attempt /\ bill'[a] = bill[a]
  BY <1>1, <1>2 DEF Admitted
<1>4. amount \in Nat /\ bill'[new].reserved = amount /\ bill'[new].released = 0
  BY <1>1, <1>2, AmountAssumption DEF NoBill
<1>5. \A a \in A : f[a] \in Int /\ g[a] = f[a] /\ h[a] = f[a]
  BY <1>1, <1>3 DEF Bill, Held
<1>6. g[new] = amount
  BY <1>4 DEF Held
<1>7. Exposure(A) = SumFunctionOnSet(f, A)
  BY DEF Exposure, SumFunction
<1>8. Exposure(A)' = SumFunctionOnSet(h, A)
  BY DEF Exposure, SumFunction
<1>9. Exposure(A \cup {new})' = SumFunctionOnSet(g, A \cup {new})
  BY DEF Exposure, SumFunction
<1>10. Numbers(f, A) /\ Numbers(g, A \cup {new})
  BY <1>4, <1>5, <1>6 DEF Numbers
<1> HIDE DEF f, g, h
<1>11. SumFunctionOnSet(h, A) = SumFunctionOnSet(f, A) /\ SumFunctionOnSet(g, A) = SumFunctionOnSet(f, A)
  BY <1>5, SumSame
<1>12. SumFunctionOnSet(g, A \cup {new}) = g[new] + SumFunctionOnSet(g, A)
  BY <1>2, <1>10, SumWith
<1>13. SumFunctionOnSet(f, A) \in Int
  BY <1>10, SumInteger
<1> QED
  BY <1>6, <1>7, <1>8, <1>9, <1>11, <1>12, <1>13

\* The attempts there are after an admission.
LEMMA AdmitAttempts ==
  ASSUME IInv, NEW r \in Request, NEW o \in Owner, NEW amount \in Amount, Admit(r, o, amount),
         NEW new, new = <<r, count[r] + 1>>
  PROVE  /\ new \in Attempt /\ new \notin Admitted /\ Admitted' = Admitted \cup {new}
         /\ AttemptsOf(r)' = AttemptsOf(r) \cup {new}
         /\ \A q \in Request : q # r => AttemptsOf(q)' = AttemptsOf(q)
<1>1. /\ count \in [Request -> 0 .. MaxAttempts]
      /\ count[r] < MaxAttempts
      /\ count' = [count EXCEPT ![r] = @ + 1]
  BY DEF IInv, TypeOK, Admit
<1>2. /\ count[r] \in 0 .. MaxAttempts /\ count'[r] = count[r] + 1
      /\ \A q \in Request : q # r => count'[q] = count[q]
  BY <1>1
<1>3. new \in Attempt /\ new \notin Admitted /\ Admitted' = Admitted \cup {new}
  BY <1>1, <1>2, AttemptsAssumption DEF Admitted, Attempt
<1>4. 1 .. count'[r] = (1 .. count[r]) \cup {count[r] + 1}
  BY <1>2, AttemptsAssumption
<1>5. AttemptsOf(r)' = {<<r, k>> : k \in 1 .. count'[r]}
  BY DEF AttemptsOf
<1>6. AttemptsOf(r)' = AttemptsOf(r) \cup {new}
  BY <1>4, <1>5 DEF AttemptsOf
<1>7. \A q \in Request : q # r => AttemptsOf(q)' = AttemptsOf(q)
  BY <1>2 DEF AttemptsOf
<1> QED
  BY <1>3, <1>6, <1>7

\* A request is admitted for what its other attempts do not hold.
LEMMA AdmitBudget ==
  ASSUME MoneyInv, NEW r \in Request, NEW o \in Owner, NEW amount \in Amount, Admit(r, o, amount)
  PROVE  BudgetRespected'
<1>1. PICK new : new = <<r, count[r] + 1>>
  OBVIOUS
<1>2. ASSUME NEW q \in Request, q # r PROVE (Exposure(AttemptsOf(q)) <= Budget[q])'
  <2>1. PICK A : A = AttemptsOf(q)
    OBVIOUS
  <2>2. AttemptsOf(q)' = A
    BY <1>1, <1>2, <2>1, AdmitAttempts DEF MoneyInv
  <2>3. Exposure(A)' = Exposure(A)
    BY <1>1, <2>1, AdmitExposure, AttemptsFinite DEF MoneyInv, IInv
  <2>4. Exposure(A) <= Budget[q]
    BY <2>1 DEF MoneyInv, BudgetRespected
  <2> QED
    BY <2>2, <2>3, <2>4
<1>3. (Exposure(AttemptsOf(r)) <= Budget[r])'
  <2>1. PICK A : A = AttemptsOf(r)
    OBVIOUS
  <2>2. AttemptsOf(r)' = A \cup {new}
    BY <1>1, <2>1, AdmitAttempts DEF MoneyInv
  <2>3. A \subseteq Admitted /\ IsFiniteSet(A)
    BY <2>1, AttemptsFinite DEF MoneyInv, IInv
  <2>4. Exposure(A) \in Int /\ Exposure(A \cup {new})' = amount + Exposure(A)
    BY <1>1, <2>3, AdmitExposure DEF MoneyInv
  <2>5. RequestTotal(r) \in Int /\ Exposure(A) <= RequestTotal(r)
    BY <2>1, <2>3, ExposureCounted DEF MoneyInv, RequestTotal
  <2>6. amount <= Max0(Budget[r] - RequestTotal(r)) /\ ~ (RequestTotal(r) > Budget[r])
    BY DEF Admit, Affordable, Breached
  <2>7. amount \in Nat /\ Budget[r] \in Nat
    BY AmountAssumption, BudgetAssumption
  <2>8. amount + Exposure(A) <= Budget[r]
    BY <2>4, <2>5, <2>6, <2>7 DEF Max0
  <2> QED
    BY <2>2, <2>4, <2>8
<1> QED
  BY <1>2, <1>3 DEF BudgetRespected

\* What all provider attempts hold is at most what is counted for the provider
\* requests, one after the other.
LEMMA GroupCounted ==
  ASSUME IInv, BillsClosed
  PROVE  /\ SumFunction([p \in Provider |-> RequestTotal(p)]) \in Int
         /\ Exposure(ProviderAttempts) <= SumFunction([p \in Provider |-> RequestTotal(p)])
<1> DEFINE f == [a \in Attempt |-> Commitment(bill[a])]
           Part == [p \in Provider |-> AttemptsOf(p)]
           G == ProviderAttempts
           g == [a \in G |-> Commitment(bill[a])]
           totals == [p \in Provider |-> RequestTotal(p)]
           sums == [p \in Provider |-> SumFunctionOnSet(f, Part[p])]
<1>1. Provider \subseteq Request /\ IsFiniteSet(Provider)
  BY LocalAssumption, ProviderAssumption
<1>2. IsFiniteSet(G) /\ G \subseteq Admitted
  BY AttemptsFinite DEF IInv
<1>3. \A p \in Provider : /\ IsFiniteSet(Part[p])
                          /\ Part[p] \subseteq Admitted
  BY <1>1, AttemptsFinite DEF IInv
<1>4. \A p, q \in Provider : p # q => Part[p] \cap Part[q] = {}
  BY DEF AttemptsOf
<1>5. \A a \in Admitted : a \in Attempt /\ f[a] = Commitment(bill[a]) /\ f[a] \in Int
  BY HeldAtMostCommitted DEF IInv, TypeOK, BillsClosed, Admitted
<1>6. UNION {Part[p] : p \in Provider} = G
  <2>1. count \in [Request -> 0 .. MaxAttempts]
    BY DEF IInv, TypeOK
  <2>2. ASSUME NEW a \in G PROVE a \in AttemptsOf(a[1]) /\ a[1] \in Provider
    BY <1>1, <2>1, <2>2, AttemptsAssumption DEF ProviderAttempts, Admitted, Attempt, AttemptsOf
  <2>3. ASSUME NEW p \in Provider, NEW a \in AttemptsOf(p) PROVE a \in G
    <3>1. Part[p] = AttemptsOf(p)
      OBVIOUS
    <3>2. a \in Admitted
      BY <1>3, <3>1
    <3>3. a[1] = p
      BY DEF AttemptsOf
    <3> QED
      BY <3>2, <3>3 DEF ProviderAttempts
  <2> QED
    BY <2>2, <2>3
<1>7. \A p \in Provider : sums[p] = totals[p]
  <2>1. ASSUME NEW p \in Provider PROVE SumFunctionOnSet(f, AttemptsOf(p)) = RequestTotal(p)
    <3> DEFINE u == [a \in AttemptsOf(p) |-> Commitment(bill[a])]
    <3>1. RequestTotal(p) = SumFunctionOnSet(u, AttemptsOf(p))
      BY DEF RequestTotal, SumFunction
    <3>2. \A a \in AttemptsOf(p) : f[a] = u[a]
      BY <1>3, <1>5
    <3>3. IsFiniteSet(AttemptsOf(p))
      BY <1>3
    <3> HIDE DEF f, u
    <3> QED
      BY <3>1, <3>2, <3>3, SumSame
  <2> QED
    BY <2>1
<1>8. \A a \in G : f[a] = g[a]
  BY <1>2, <1>5
<1>9. Numbers(g, G) /\ \A p \in Provider : Numbers(f, Part[p])
  BY <1>2, <1>3, <1>5 DEF Numbers
<1>10. SumFunction(g) = SumFunctionOnSet(g, G) /\ SumFunction(totals) = SumFunctionOnSet(totals, Provider)
  BY DEF SumFunction
<1>11. Exposure(G) <= SumFunction(g)
  BY <1>2, ExposureCounted
<1>12. SumFunctionOnSet(f, UNION {Part[p] : p \in Provider}) = SumFunctionOnSet(sums, Provider)
  <2> HIDE DEF f, Part
  <2> QED
    BY <1>1, <1>3, <1>4, <1>9, SumByParts
<1> HIDE DEF f, g, Part, G, totals, sums
<1>13. SumFunctionOnSet(f, G) = SumFunctionOnSet(g, G) /\ SumFunctionOnSet(g, G) \in Int
  BY <1>2, <1>8, <1>9, SumSame, SumInteger
<1>14. SumFunctionOnSet(sums, Provider) = SumFunctionOnSet(totals, Provider)
  BY <1>1, <1>7, SumSame
<1>15. SumFunction(totals) \in Int /\ Exposure(G) <= SumFunction(totals)
  BY <1>6, <1>10, <1>11, <1>12, <1>13, <1>14
<1> QED
  BY <1>15 DEF totals, G
\* A provider request is admitted for what the group does not hold.
LEMMA AdmitGroup ==
  ASSUME MoneyInv, NEW r \in Request, NEW o \in Owner, NEW amount \in Amount, Admit(r, o, amount)
  PROVE  GroupRespected'
<1>1. PICK new : new = <<r, count[r] + 1>>
  OBVIOUS
<1>2. PICK A : A = ProviderAttempts
  OBVIOUS
<1>3. A \subseteq Admitted /\ IsFiniteSet(A)
  BY <1>2, AttemptsFinite DEF MoneyInv, IInv
<1>4. /\ Exposure(A) \in Int
      /\ Exposure(A)' = Exposure(A)
      /\ Exposure(A \cup {new})' = amount + Exposure(A)
  BY <1>1, <1>3, AdmitExposure DEF MoneyInv
<1>5. Admitted' = Admitted \cup {new} /\ new[1] = r
  BY <1>1, AdmitAttempts DEF MoneyInv
<1>6. CASE r \in Provider
  <2>1. ProviderAttempts' = A \cup {new}
    BY <1>2, <1>5, <1>6 DEF ProviderAttempts
  <2>2. amount + SumFunction([p \in Provider |-> RequestTotal(p)]) <= GroupLimit
    BY <1>6 DEF Admit, GroupAffordable
  <2>3. /\ SumFunction([p \in Provider |-> RequestTotal(p)]) \in Int
        /\ Exposure(A) <= SumFunction([p \in Provider |-> RequestTotal(p)])
    BY <1>2, GroupCounted DEF MoneyInv
  <2>4. amount \in Nat /\ GroupLimit \in Nat
    BY AmountAssumption, BudgetAssumption
  <2>5. amount + Exposure(A) <= GroupLimit
    BY <1>4, <2>2, <2>3, <2>4
  <2> QED
    BY <1>4, <2>1, <2>5 DEF GroupRespected
<1>7. CASE r \notin Provider
  <2>1. ProviderAttempts' = A
    BY <1>2, <1>5, <1>7 DEF ProviderAttempts
  <2> QED
    BY <1>2, <1>4, <2>1 DEF MoneyInv, GroupRespected
<1> QED
  BY <1>6, <1>7

LEMMA AdmitMoney ==
  ASSUME MoneyInv, IInv', NEW r \in Request, NEW o \in Owner, NEW amount \in Amount,
         Admit(r, o, amount)
  PROVE  MoneyInv'
<1>1. PICK new : new = <<r, count[r] + 1>>
  OBVIOUS
<1>2. new \in Attempt /\ new \notin Admitted /\ Admitted' = Admitted \cup {new}
  BY <1>1, AdmitAttempts DEF MoneyInv
<1>3. bill \in [Attempt -> Bill] /\ bill' = [bill EXCEPT ![new] = [NoBill EXCEPT !.reserved = amount]]
  BY <1>1 DEF MoneyInv, IInv, TypeOK, Admit
<1>4. bill'[new].event = "none" /\ \A x \in Admitted : bill'[x] = bill[x]
  BY <1>2, <1>3 DEF NoBill, Admitted
<1>5. BillsClosed'
  BY <1>2, <1>4 DEF MoneyInv, BillsClosed, ClosedBill
<1> QED
  BY <1>5, AdmitBudget, AdmitGroup DEF MoneyInv

\* No other step makes any attempt hold more.
LEMMA OthersMoney ==
  ASSUME MoneyInv, IInv', count' = count, \A x \in Admitted : HonestStep(x)
  PROVE  MoneyInv'
<1>1. Admitted' = Admitted /\ \A x \in Admitted : Follows(bill[x], bill'[x])
  BY DEF Admitted, HonestStep
<1>2. BillsClosed'
  BY <1>1 DEF MoneyInv, BillsClosed, Follows
<1>3. ASSUME NEW A, A \subseteq Admitted, IsFiniteSet(A), NEW limit \in Nat, Exposure(A) <= limit
      PROVE  Exposure(A)' <= limit
  <2>1. Exposure(A) \in Int /\ Exposure(A)' \in Int /\ Exposure(A)' <= Exposure(A)
    BY <1>1, <1>3, ExposureShrinks DEF MoneyInv
  <2> QED
    BY <1>3, <2>1
<1>4. ASSUME NEW r \in Request PROVE (Exposure(AttemptsOf(r)) <= Budget[r])'
  <2>1. PICK A : A = AttemptsOf(r)
    OBVIOUS
  <2>2. AttemptsOf(r)' = A
    BY <2>1 DEF AttemptsOf
  <2>3. A \subseteq Admitted /\ IsFiniteSet(A) /\ Exposure(A) <= Budget[r] /\ Budget[r] \in Nat
    BY <2>1, AttemptsFinite, BudgetAssumption DEF MoneyInv, IInv, BudgetRespected
  <2>4. Exposure(A)' <= Budget[r]
    BY <1>3, <2>3
  <2> QED
    BY <2>2, <2>4
<1>5. GroupRespected'
  <2>1. PICK A : A = ProviderAttempts
    OBVIOUS
  <2>2. ProviderAttempts' = A
    BY <1>1, <2>1 DEF ProviderAttempts
  <2>3. A \subseteq Admitted /\ IsFiniteSet(A) /\ Exposure(A) <= GroupLimit /\ GroupLimit \in Nat
    BY <2>1, AttemptsFinite, BudgetAssumption DEF MoneyInv, IInv, GroupRespected
  <2>4. Exposure(A)' <= GroupLimit
    BY <1>3, <2>3
  <2> QED
    BY <2>2, <2>4 DEF GroupRespected
<1> QED
  BY <1>2, <1>4, <1>5 DEF MoneyInv, BudgetRespected

LEMMA InitMoney == Init => MoneyInv
<1> SUFFICES ASSUME Init PROVE MoneyInv
  OBVIOUS
<1>1. IInv
  BY InitInvariant
<1>2. Admitted = {}
  BY AttemptsAssumption DEF Init, Admitted, Attempt
<1>3. ProviderAttempts = {} /\ \A r \in Request : AttemptsOf(r) = {}
  BY <1>2, <1>1, AttemptsFinite DEF ProviderAttempts, IInv
<1>4. Exposure({}) = 0
  BY SumEmpty DEF Exposure, SumFunction
<1> QED
  BY <1>1, <1>2, <1>3, <1>4, BudgetAssumption
     DEF MoneyInv, BillsClosed, BudgetRespected, GroupRespected

LEMMA NextMoney == MoneyInv /\ [Next]_vars => MoneyInv'
<1> SUFFICES ASSUME MoneyInv, [Next]_vars PROVE MoneyInv'
  OBVIOUS
<1>1. IInv' /\ \A x \in Admitted : HonestStep(x)
  BY NextInvariant, NextHonest DEF MoneyInv
<1>2. CASE AdmitSome
  BY <1>1, <1>2, AdmitMoney DEF AdmitSome
<1>3. CASE ~AdmitSome
  <2>1. count' = count
    BY <1>3 DEF Next, vars, ClaimSome, ClaimDispatch, ClaimCancelled, ReadSome, ReadLatest,
         CommitSome, CommitRunning, CommitUnknown, CommitOutcome, Commit, LeaseSome, LeaseExpires,
         Heartbeat, ReclaimExpired, MoneySome, ReconcileUnbilled, Reconcile, RecordCharge,
         CancelSome, RequestCancel, ConfirmTermination, ConfirmCleanup
  <2> QED
    BY <1>1, <2>1, OthersMoney
<1> QED
  BY <1>2, <1>3

\* Bills stay consistent and reservations within the limits, in every reachable state:
\* the invariant behind the three theorems below.
THEOREM MoneyInvariance == Spec => []MoneyInv
  BY InitMoney, NextMoney, PTL DEF Spec

\* What the attempts of a request hold fits its budget, whatever the invoices say.
THEOREM BudgetHolds == Spec => []BudgetRespected
<1>1. MoneyInv => BudgetRespected
  BY DEF MoneyInv
<1> QED
  BY <1>1, MoneyInvariance, PTL

\* What all provider requests together hold fits the limit they share.
THEOREM GroupLimitHolds == Spec => []GroupRespected
<1>1. MoneyInv => GroupRespected
  BY DEF MoneyInv
<1> QED
  BY <1>1, MoneyInvariance, PTL

\* Where no invoice exceeds what its attempt holds, the attempts of a request have
\* together spent no more than its budget (the settled totals of job_charges).
SpentWithinBudget ==
  \A r \in Request :
    (\A a \in AttemptsOf(r) : bill[a].settled <= Held(bill[a])) =>
      SumFunction([a \in AttemptsOf(r) |-> bill[a].settled]) <= Budget[r]

\* An overspent budget is always the doing of an invoice that exceeded its own
\* attempt's reservation: no order of retries and late receipts causes one.
THEOREM OverspendingIsOverinvoicing == Spec => []SpentWithinBudget
<1>1. ASSUME MoneyInv, NEW r \in Request, \A a \in AttemptsOf(r) : bill[a].settled <= Held(bill[a])
      PROVE  SumFunction([a \in AttemptsOf(r) |-> bill[a].settled]) <= Budget[r]
  <2> DEFINE A == AttemptsOf(r)
             f == [a \in A |-> bill[a].settled]
             g == [a \in A |-> Held(bill[a])]
  <2>1. IsFiniteSet(A) /\ A \subseteq Admitted
    BY <1>1, AttemptsFinite DEF MoneyInv, IInv
  <2>2. \A a \in A : f[a] \in Int /\ g[a] \in Int /\ f[a] <= g[a]
    BY <1>1, <2>1 DEF MoneyInv, IInv, TypeOK, Admitted, Bill, Held
  <2>3. Numbers(f, A) /\ Numbers(g, A)
    BY <2>2 DEF Numbers
  <2>4. SumFunction(f) = SumFunctionOnSet(f, A) /\ Exposure(A) = SumFunctionOnSet(g, A)
    BY DEF SumFunction, Exposure
  <2>5. Exposure(A) <= Budget[r] /\ Budget[r] \in Nat
    BY <1>1, BudgetAssumption DEF MoneyInv, BudgetRespected
  <2> HIDE DEF A, f, g
  <2>6. /\ SumFunctionOnSet(f, A) \in Int /\ SumFunctionOnSet(g, A) \in Int
        /\ SumFunctionOnSet(f, A) <= SumFunctionOnSet(g, A)
    BY <2>1, <2>2, <2>3, SumInteger, SumAtMost
  <2>7. SumFunction(f) <= Budget[r]
    BY <2>4, <2>5, <2>6
  <2> QED
    BY <2>7 DEF f, A
<1>2. MoneyInv => SpentWithinBudget
  BY <1>1 DEF SpentWithinBudget
<1> QED
  BY <1>2, MoneyInvariance, PTL
=============================================================================
