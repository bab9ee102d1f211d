------------------------ MODULE MatchAdmissionProofs ------------------------
(***************************************************************************)
(* Proofs about the ingest route, for any number of requests, tokens,      *)
(* faults and crashes: uploads and matches agree, and the route implements *)
(* the promise that all requests of one token come to one match.           *)
(***************************************************************************)
EXTENDS MatchAdmission, TLAPS

\* A token has one match.
OnePerToken == \A p, q \in Admitted : Carries[p] = Carries[q] => p = q

\* What the place of the handler says of the file, the match and the identity in hand.
Known(p) ==
  /\ pc[p] \in {"begin", "save"} => upload[p] = "none"
  /\ pc[p] = "write" => upload[p] = "temporary"
  /\ pc[p] \in {"admit", "discard"} => upload[p] = "saved"
  /\ pc[p] \in {"begin", "save", "write", "admit", "discard", "unopened"} => p \notin Admitted
  /\ pc[p] \in {"read", "dispatch", "start", "mark", "markFailed"} => p \in Admitted
  /\ pc[p] \in {"dispatch", "start", "mark", "markFailed"} => job[p] = p
  /\ pc[p] \in {"discard", "answered"} => job[p] \in Existing(p)
  /\ p \in children => p \in Admitted /\ pc[p] \in {"mark", "markFailed", "answered", "dead"}
  /\ p \in Admitted => upload[p] = "saved"
  /\ p \notin Admitted /\ upload[p] # "none" =>
       pc[p] \in Serving \cup {"uncertain", "unopened", "dead"} \/ p \in kept

AInv == AdmissionTypeOK /\ OnePerToken /\ \A p \in Post : Known(p)

LEMMA AdmissionInit == Init => AInv
BY AdmissionAssumption
   DEF Init, AInv, AdmissionTypeOK, OnePerToken, Known, Admitted, Existing

\* Types are kept by every step.
LEMMA TypesKept == AInv /\ [Next]_vars => AdmissionTypeOK'
<1> SUFFICES ASSUME AInv, [Next]_vars PROVE AdmissionTypeOK'
  OBVIOUS
<1>0. AdmissionTypeOK
  BY DEF AInv
<1> USE <1>0, AdmissionAssumption DEF AdmissionTypeOK, Goto, Smooth, Fault, Identified, files, rows,
      Serving, Ended
<1>1. ASSUME NEW p \in Post, Lookup(p) PROVE AdmissionTypeOK'
  BY <1>1 DEF Lookup, Existing, Admitted
<1>2. ASSUME NEW p \in Post, OpenTemporary(p) \/ SaveUpload(p) \/ SaveFails(p) \/ OpenFails(p)
      PROVE  AdmissionTypeOK'
  BY <1>2 DEF OpenTemporary, SaveUpload, SaveFails, OpenFails
<1>3. ASSUME NEW p \in Post, Commit(p) \/ CommitRaises(p) \/ Reuse(p) \/ Discard(p)
      PROVE  AdmissionTypeOK'
  BY <1>3 DEF Commit, CommitRaises, Insert, Reuse, Discard, Discarded, DiscardFails, Existing,
     Admitted
<1>4. ASSUME NEW p \in Post, ConfirmFails(p) \/ ConfirmOwn(p) \/ ConfirmOther(p) \/ ReadBack(p)
      PROVE  AdmissionTypeOK'
  BY <1>4 DEF ConfirmFails, ConfirmOwn, ConfirmOther, ReadBack, Discarded, DiscardFails, Existing,
     Admitted
<1>5. ASSUME NEW p \in Post, AdmitJob(p) PROVE AdmissionTypeOK'
  BY <1>5 DEF AdmitJob
<1>6. ASSUME NEW p \in Post, Start(p) PROVE AdmissionTypeOK'
  BY <1>6 DEF Start, AInv, Known
<1>7. ASSUME NEW p \in Post, Mark(p) PROVE AdmissionTypeOK'
  BY <1>7 DEF Mark, Marked
<1>8. ASSUME NEW p \in Post, Work(p) PROVE AdmissionTypeOK'
  BY <1>8 DEF Work
<1>9. CASE Crash
  BY <1>9 DEF Crash
<1>10. CASE UNCHANGED vars
  BY <1>10 DEF vars
<1> QED
  BY <1>1, <1>2, <1>3, <1>4, <1>5, <1>6, <1>7, <1>8, <1>9, <1>10 DEF Next, Serve

\* A step that leaves the other requests where they are is judged at its own.
LEMMA OneStep ==
  ASSUME AInv, AdmissionTypeOK', OnePerToken', NEW p \in Post, Known(p)', Admitted \subseteq Admitted',
         \A q \in Post \ {p} : /\ pc'[q] = pc[q] /\ upload'[q] = upload[q] /\ job'[q] = job[q]
                               /\ q \in Admitted' <=> q \in Admitted
                               /\ q \in children' <=> q \in children
                               /\ q \in kept => q \in kept'
  PROVE  AInv'
<1>1. ASSUME NEW q \in Post PROVE Known(q)'
  <2>1. CASE q = p
    BY <2>1
  <2>2. CASE q # p
    BY <2>2 DEF AInv, Known, Existing
  <2> QED
    BY <2>1, <2>2
<1> QED
  BY <1>1 DEF AInv

-----------------------------------------------------------------------------
(* Every step keeps the invariant.                                          *)

\* Steps that neither commit a match nor write a row.
LEMMA SameRows ==
  ASSUME AInv, AdmissionTypeOK', NEW p \in Post, UNCHANGED row, Known(p)',
         \A q \in Post \ {p} : /\ pc'[q] = pc[q] /\ upload'[q] = upload[q] /\ job'[q] = job[q]
                               /\ q \in children' <=> q \in children
                               /\ q \in kept => q \in kept'
  PROVE  AInv'
<1>1. Admitted' = Admitted
  BY DEF Admitted
<1>2. OnePerToken'
  BY <1>1 DEF AInv, OnePerToken
<1> QED
  BY <1>1, <1>2, OneStep

LEMMA BeforeTransaction ==
  ASSUME AInv, AdmissionTypeOK', NEW p \in Post,
         Lookup(p) \/ OpenTemporary(p) \/ SaveUpload(p) \/ SaveFails(p) \/ OpenFails(p)
  PROVE  AInv'
<1> USE DEF AInv, AdmissionTypeOK, Goto, Identified, files, rows, Serving
<1>1. Admitted' = Admitted /\ Existing(p)' = Existing(p)
  BY DEF Lookup, OpenTemporary, SaveUpload, SaveFails, OpenFails, Existing, Admitted
<1>2. Known(p)
  OBVIOUS
<1>3. CASE Lookup(p)
  <2>1. Known(p)'
    BY <1>1, <1>2, <1>3 DEF Lookup, Known
  <2> QED
    BY <1>3, <2>1, SameRows DEF Lookup
<1>4. CASE OpenTemporary(p)
  <2>1. Known(p)'
    BY <1>1, <1>2, <1>4 DEF OpenTemporary, Known
  <2> QED
    BY <1>4, <2>1, SameRows DEF OpenTemporary
<1>5. CASE SaveUpload(p)
  <2>1. Known(p)'
    BY <1>1, <1>2, <1>5 DEF SaveUpload, Known
  <2> QED
    BY <1>5, <2>1, SameRows DEF SaveUpload
<1>6. CASE SaveFails(p)
  <2>1. Known(p)'
    BY <1>1, <1>2, <1>6 DEF SaveFails, Known
  <2> QED
    BY <1>6, <2>1, SameRows DEF SaveFails
<1>7. CASE OpenFails(p)
  <2>1. Known(p)'
    BY <1>1, <1>2, <1>7 DEF OpenFails, Known
  <2> QED
    BY <1>7, <2>1, SameRows DEF OpenFails
<1> QED
  BY <1>3, <1>4, <1>5, <1>6, <1>7

LEMMA CommitKeeps ==
  ASSUME AInv, AdmissionTypeOK', NEW p \in Post, Commit(p) \/ CommitRaises(p)
  PROVE  AInv'
<1> USE DEF AInv, AdmissionTypeOK, Goto, files, Serving
<1>1. Known(p) /\ pc[p] = "admit"
  BY DEF Commit, CommitRaises
<1>2. CASE UNCHANGED row
  <2>1. Admitted' = Admitted /\ Existing(p)' = Existing(p)
    BY <1>2 DEF Existing, Admitted
  <2>2. CommitRaises(p)
    BY <1>2, <1>1 DEF Commit, Insert, Known, Admitted
  <2>3. Known(p)'
    BY <1>1, <2>1, <2>2 DEF CommitRaises, Known
  <2> QED
    BY <1>2, <2>2, <2>3, SameRows DEF CommitRaises
<1>3. CASE Insert(p)
  <2>1. Existing(p) = {} /\ Admitted' = Admitted \cup {p}
    BY <1>3 DEF Insert, Admitted
  <2>2. OnePerToken'
    BY <2>1 DEF OnePerToken, Existing, Admitted
  <2>3. Known(p)'
    BY <1>1, <2>1 DEF Commit, CommitRaises, Known
  <2> QED
    BY <1>1, <2>1, <2>2, <2>3, OneStep DEF Commit, CommitRaises
<1> QED
  BY <1>2, <1>3 DEF Commit, CommitRaises

LEMMA AfterTransaction ==
  ASSUME AInv, AdmissionTypeOK', NEW p \in Post,
         Reuse(p) \/ Discard(p) \/ ConfirmFails(p) \/ ConfirmOwn(p) \/ ConfirmOther(p) \/ ReadBack(p)
  PROVE  AInv'
<1> USE DEF AInv, AdmissionTypeOK, Goto, Identified, files, rows, Serving, Discarded, DiscardFails
<1>1. Admitted' = Admitted /\ Existing(p)' = Existing(p)
  BY DEF Reuse, Discard, ConfirmFails, ConfirmOwn, ConfirmOther, ReadBack, Existing, Admitted
<1>2. Known(p)
  OBVIOUS
<1>3. CASE Reuse(p)
  <2>1. Known(p)'
    BY <1>1, <1>2, <1>3 DEF Reuse, Known, Existing, Admitted
  <2> QED
    BY <1>3, <2>1, SameRows DEF Reuse
<1>4. CASE Discard(p)
  <2>1. Known(p)'
    BY <1>1, <1>2, <1>4 DEF Discard, Known
  <2> QED
    BY <1>4, <2>1, SameRows DEF Discard
<1>5. CASE ConfirmFails(p)
  <2>1. Known(p)'
    BY <1>1, <1>2, <1>5 DEF ConfirmFails, Known
  <2> QED
    BY <1>5, <2>1, SameRows DEF ConfirmFails
<1>6. CASE ConfirmOwn(p)
  <2>1. Known(p)'
    BY <1>1, <1>2, <1>6 DEF ConfirmOwn, Known, Existing
  <2> QED
    BY <1>6, <2>1, SameRows DEF ConfirmOwn
<1>7. CASE ConfirmOther(p)
  <2>1. p \notin Admitted
    BY <1>7 DEF ConfirmOther, Existing
  <2>2. Known(p)'
    BY <1>1, <1>2, <1>7, <2>1 DEF ConfirmOther, Known, Existing, Admitted
  <2> QED
    BY <1>7, <2>2, SameRows DEF ConfirmOther
<1>8. CASE ReadBack(p)
  <2>1. Known(p)'
    BY <1>1, <1>2, <1>8 DEF ReadBack, Known
  <2> QED
    BY <1>8, <2>1, SameRows DEF ReadBack
<1> QED
  BY <1>3, <1>4, <1>5, <1>6, <1>7, <1>8

LEMMA DispatchKeeps ==
  ASSUME AInv, AdmissionTypeOK', NEW p \in Post, AdmitJob(p) \/ Start(p) \/ Mark(p) \/ Work(p)
  PROVE  AInv'
<1> USE DEF AInv, AdmissionTypeOK, Goto, files, rows, Serving
<1>1. Known(p) /\ p \in Admitted
  BY DEF AdmitJob, Start, Mark, Work, Known
<1>2. Admitted' = Admitted
  BY <1>1 DEF AdmitJob, Start, Mark, Marked, Work, Known, Admitted
<1>3. Existing(p)' = Existing(p) /\ OnePerToken'
  BY <1>2 DEF Existing, OnePerToken
<1>4. Known(p)'
  BY <1>1, <1>2, <1>3 DEF AdmitJob, Start, Mark, Work, Known, Existing
<1>5. \A q \in Post \ {p} : /\ pc'[q] = pc[q] /\ upload'[q] = upload[q] /\ job'[q] = job[q]
                            /\ q \in children' <=> q \in children
                            /\ q \in kept => q \in kept'
  BY <1>1 DEF AdmitJob, Start, Mark, Work, Known
<1> QED
  BY <1>2, <1>3, <1>4, <1>5, OneStep

LEMMA CrashKeeps ==
  ASSUME AInv, AdmissionTypeOK', Crash
  PROVE  AInv'
<1>1. Admitted' = Admitted /\ \A p \in Post : Existing(p)' = Existing(p)
  BY DEF Crash, rows, Admitted, Existing
<1>2. OnePerToken'
  BY <1>1 DEF AInv, OnePerToken
<1>3. ASSUME NEW p \in Post PROVE Known(p)'
  BY <1>1, <1>3 DEF AInv, AdmissionTypeOK, Crash, Known, files, rows, Serving
<1> QED
  BY <1>2, <1>3 DEF AInv

LEMMA AdmissionNext == AInv /\ [Next]_vars => AInv'
<1> SUFFICES ASSUME AInv, [Next]_vars PROVE AInv'
  OBVIOUS
<1>1. AdmissionTypeOK'
  BY TypesKept
<1>2. CASE UNCHANGED vars
  BY <1>2 DEF vars, AInv, AdmissionTypeOK, OnePerToken, Known, Existing, Admitted
<1> QED
  BY <1>1, <1>2, BeforeTransaction, CommitKeeps, AfterTransaction, DispatchKeeps, CrashKeeps
     DEF Next, Serve

\* The route's variables stay well typed.
THEOREM AdmissionTypeCorrect == Spec => []AdmissionTypeOK
BY AdmissionInit, AdmissionNext, PTL DEF Spec, AInv

\* Every match has its upload, and every other upload is in a request's hands or stays
\* for one of the four reasons that UploadsAgree names, for any number of requests.
THEOREM UploadsStayInAgreement == Spec => []UploadsAgree
<1>1. AInv => UploadsAgree
  BY DEF AInv, Known, UploadsAgree
<1> QED
  BY <1>1, AdmissionInit, AdmissionNext, PTL DEF Spec

-----------------------------------------------------------------------------
(* The promise.                                                             *)

Told == [p \in Post |-> IF pc[p] = "answered" THEN job[p] ELSE None]
PromiseKept == Accepted!Next \/ (Admitted' = Admitted /\ children' = children /\ Told' = Told)

\* Steps that may answer one request and do nothing else that the promise speaks of.
LEMMA TellsOne ==
  ASSUME AInv, AInv', NEW p \in Post, Admitted' = Admitted, UNCHANGED children,
         pc[p] # "answered",
         \A q \in Post \ {p} : pc'[q] = pc[q] /\ job'[q] = job[q]
  PROVE  PromiseKept
<1>1. CASE pc'[p] # "answered"
  BY <1>1 DEF Told, PromiseKept
<1>2. CASE pc'[p] = "answered"
  <2>1. job'[p] \in Existing(p)
    BY <1>2 DEF AInv, Known, Existing
  <2>2. PICK q \in Post : q = job'[p] /\ q \in Existing(p)
    BY <2>1 DEF Existing, Admitted
  <2>3. Told[p] = None /\ Told' = [Told EXCEPT ![p] = q]
    BY <1>2, <2>2 DEF Told
  <2>4. Accepted!Tell(p, q)
    BY <2>2, <2>3 DEF Accepted!Tell, Accepted!Holders, Existing, Told
  <2> QED
    BY <2>4 DEF PromiseKept, Accepted!Next
<1> QED
  BY <1>1, <1>2

LEMMA CommitAccepts ==
  ASSUME AInv, NEW p \in Post, Commit(p) \/ CommitRaises(p)
  PROVE  PromiseKept
<1> USE DEF AInv, AdmissionTypeOK, Goto
<1>1. children' = children /\ Told' = Told
  BY DEF Commit, CommitRaises, Told, files
<1>2. CASE UNCHANGED row
  BY <1>1, <1>2 DEF PromiseKept, Admitted
<1>3. CASE Insert(p)
  <2>1. Existing(p) = {} /\ Admitted' = Admitted \cup {p}
    BY <1>3 DEF Insert, Admitted
  <2>2. Accepted!Accept(p)
    BY <1>1, <2>1 DEF Accepted!Accept, Accepted!Holders, Existing, Told
  <2> QED
    BY <2>2 DEF PromiseKept, Accepted!Next
<1> QED
  BY <1>2, <1>3 DEF Commit, CommitRaises

LEMMA StartsAccepted ==
  ASSUME AInv, NEW p \in Post, Start(p)
  PROVE  PromiseKept
<1> USE DEF AInv, AdmissionTypeOK, Goto
<1>1. Admitted' = Admitted /\ Told' = Told
  BY DEF Start, Told, files, Admitted
<1>2. job[p] = p /\ p \in Admitted \ children
  BY DEF Start, Known
<1>3. CASE UNCHANGED children
  BY <1>1, <1>3 DEF PromiseKept
<1>4. CASE children' = children \cup {p}
  <2>1. Accepted!Start(p)
    BY <1>1, <1>2, <1>4 DEF Accepted!Start, Told
  <2> QED
    BY <2>1 DEF PromiseKept, Accepted!Next
<1> QED
  BY <1>2, <1>3, <1>4 DEF Start

LEMMA StepsKeepPromise ==
  ASSUME AInv, AInv', [Next]_vars
  PROVE  PromiseKept
<1> USE DEF AInv, AdmissionTypeOK, Goto, Identified, files, rows
<1>1. ASSUME NEW p \in Post, Lookup(p) \/ OpenTemporary(p) \/ SaveUpload(p) \/ SaveFails(p) \/ OpenFails(p)
      PROVE  PromiseKept
  BY <1>1, TellsOne DEF Lookup, OpenTemporary, SaveUpload, SaveFails, OpenFails, Admitted
<1>2. ASSUME NEW p \in Post, Reuse(p) \/ Discard(p) \/ ConfirmFails(p) \/ ConfirmOwn(p) \/ ConfirmOther(p)
                             \/ ReadBack(p) \/ AdmitJob(p)
      PROVE  PromiseKept
  BY <1>2, TellsOne DEF Reuse, Discard, ConfirmFails, ConfirmOwn, ConfirmOther, ReadBack, AdmitJob, Admitted
<1>3. ASSUME NEW p \in Post, Mark(p) PROVE PromiseKept
  <2>1. Admitted' = Admitted
    BY <1>3 DEF Mark, Marked, Known, Admitted
  <2> QED
    BY <1>3, <2>1, TellsOne DEF Mark
<1>4. ASSUME NEW p \in Post, Work(p) PROVE PromiseKept
  BY <1>4 DEF Work, Known, Admitted, Told, PromiseKept
<1>5. CASE Crash
  BY <1>5 DEF Crash, Serving, Admitted, Told, PromiseKept
<1>6. CASE UNCHANGED vars
  BY <1>6 DEF vars, Admitted, Told, PromiseKept
<1> QED
  BY <1>1, <1>2, <1>3, <1>4, <1>5, <1>6, CommitAccepts, StartsAccepted DEF Next, Serve

\* All requests of one token come to one match, started at most once, and every answer
\* names it: each step of the route is a step of AcceptedOnce, or none.
THEOREM RouteImplementsAcceptance == Spec => ImplementsAcceptance
<1>1. Init => Accepted!Init
  BY DEF Init, Accepted!Init, Admitted
<1>2. PromiseKept => [Accepted!Next]_(Accepted!vars)
  BY DEF PromiseKept, Accepted!vars, Told
<1> QED
  BY <1>1, <1>2, AdmissionInit, AdmissionNext, StepsKeepPromise, PTL
     DEF Spec, ImplementsAcceptance, Accepted!Spec
=============================================================================
