-------------------------- MODULE GenerationsProofs --------------------------
(***************************************************************************)
(* Proof that the generation store keeps every generation that somebody    *)
(* needs, that its index follows the pointer, that it implements the       *)
(* register, and that its locks make no circle, for any number of          *)
(* generations, publishers, recoveries, readers and retentions.  The       *)
(* argument is mutual exclusion: who erases holds the lifetime lock        *)
(* against every reader and every candidate, and the publication lock      *)
(* against every commit.                                                   *)
(***************************************************************************)
EXTENDS Generations, FiniteSums, TLAPS

Label == Lock \cup {"base", "parent", "made", "commit", "index", "recover",
                    "resolve", "reading", "report", "evict", "scan", "erase", "done"}

StoreTyped ==
  /\ dir \in [Generation -> {"absent", "partial", "whole"}]
  /\ made \in 0 .. MaxGeneration /\ pointer \in 0 .. MaxGeneration
  /\ cited \subseteq Generation
  /\ lock \in [Lock -> [Process -> {"free", "shared", "exclusive"}]]
  /\ pc \in [Process -> Label]
  /\ plan \in [Process -> 0 .. MaxGeneration]
  /\ own \in [Process -> 0 .. MaxGeneration]
  /\ pin \in [Reader -> 0 .. MaxGeneration]
  /\ todo = [p \in Process |-> todo[p]]

Exclusion ==
  \A k \in Lock, p, q \in Process :
    p # q /\ lock[k][p] = "exclusive" => lock[k][q] = "free"

Locked(p, k) == lock[k][p] # "free"
Owned(p, k) == lock[k][p] = "exclusive"

\* Where each kind of process can be, with which locks.
PublisherHolds(p) ==
  /\ pc[p] \in {"review", "base", "lifetime", "parent", "made", "publication", "commit", "index", "done"}
  /\ pc[p] \in {"parent", "made", "publication", "commit", "index"} => Locked(p, "lifetime")
  /\ pc[p] \in {"commit", "index"} => Owned(p, "publication")

RecovererHolds(p) ==
  /\ pc[p] \in {"review", "lifetime", "publication", "recover", "made", "commit", "index", "done"}
  /\ pc[p] \in {"lifetime", "publication"} => Locked(p, "review")
  /\ pc[p] \in {"publication", "recover", "made", "commit", "index"} => Locked(p, "lifetime")
  /\ pc[p] \in {"recover", "made", "commit", "index"} => Owned(p, "publication")

ReaderHolds(p) ==
  /\ pc[p] \in {"lifetime", "resolve", "reading", "review", "publication", "report", "done"}
  /\ pc[p] \in {"resolve", "reading"} => Locked(p, "lifetime")
  /\ pc[p] = "reading" <=> pin[p] # NoGeneration
  /\ pc[p] \in {"review", "publication", "report"} => plan[p] # NoGeneration
  /\ pc[p] = "lifetime" /\ Locked(p, "review") => plan[p] # NoGeneration

RetainerHolds(p) ==
  /\ pc[p] \in {"evict", "publication", "scan", "erase", "done"}
  /\ pc[p] \in {"publication", "scan", "erase"} => Owned(p, "lifetime")
  /\ pc[p] \in {"scan", "erase"} => Owned(p, "publication")

Holds(p) ==
  /\ p \in Publisher => PublisherHolds(p)
  /\ p \in Recoverer => RecovererHolds(p)
  /\ p \in Reader => ReaderHolds(p)
  /\ p \in Retainer => RetainerHolds(p)

\* What a process that makes or removes generations has in hand.
Sealed(p) == pc[p] = "commit" \/ (p \in Publisher /\ pc[p] = "publication")
InHand(p) ==
  /\ pc[p] = "made" \/ Sealed(p) => own[p] \in 1 .. made
  /\ Sealed(p) => dir[own[p]] = "whole"
  /\ pc[p] = "index" => own[p] = pointer
  /\ pc[p] = "erase" => todo[p] \cap (cited \cup {pointer}) = {}

Numbered == \A g \in Generation : g > made => dir[g] = "absent"

StoreInv ==
  /\ StoreTyped /\ Exclusion /\ Numbered /\ NeededIsWhole
  /\ \A p \in Process : Holds(p) /\ InHand(p)

Step(p) == Proceed(p) \/ CitePinned(p) \/ Unpin(p) \/ Stop(p)

\* What a step of one process leaves to the others.
Alone(p) ==
  \A q \in Process \ {p} :
    /\ pc'[q] = pc[q] /\ plan'[q] = plan[q] /\ own'[q] = own[q] /\ todo'[q] = todo[q]
    /\ q \in Reader => pin'[q] = pin[q]
    /\ \A k \in Lock : lock'[k][q] = lock[k][q]

LocalTyped ==
  /\ lock \in [Lock -> [Process -> {"free", "shared", "exclusive"}]]
  /\ pc \in [Process -> Label]
  /\ plan \in [Process -> 0 .. MaxGeneration]
  /\ own \in [Process -> 0 .. MaxGeneration]
  /\ pin \in [Reader -> 0 .. MaxGeneration]
  /\ todo = [p \in Process |-> todo[p]]

-----------------------------------------------------------------------------
LEMMA GotoDoes ==
  ASSUME pc \in [Process -> Label], NEW p \in Process, NEW label \in Label, Goto(p, label)
  PROVE  /\ pc' \in [Process -> Label] /\ pc'[p] = label
         /\ \A q \in Process \ {p} : pc'[q] = pc[q]
  BY DEF Goto

LEMMA ReaderProcess == Reader \subseteq Process
  BY DEF Process

LEMMA EndDoes ==
  ASSUME LocalTyped, NEW p \in Process, End(p)
  PROVE  /\ LocalTyped' /\ Alone(p)
         /\ pc'[p] = "done" /\ plan'[p] = NoGeneration /\ (p \in Reader => pin'[p] = NoGeneration)
         /\ \A k \in Lock : lock'[k][p] = "free"
<1>1. Goto(p, "done") /\ "done" \in Label
  BY DEF End, Label
<1>2. /\ pc' \in [Process -> Label] /\ pc'[p] = "done"
      /\ \A q \in Process \ {p} : pc'[q] = pc[q]
  BY <1>1, GotoDoes DEF LocalTyped
<1>3. /\ lock' \in [Lock -> [Process -> {"free", "shared", "exclusive"}]]
      /\ \A k \in Lock : lock'[k][p] = "free" /\ \A q \in Process \ {p} : lock'[k][q] = lock[k][q]
  BY DEF End, Released, LocalTyped
<1>4. /\ plan' \in [Process -> 0 .. MaxGeneration] /\ own' \in [Process -> 0 .. MaxGeneration]
      /\ plan'[p] = NoGeneration
      /\ \A q \in Process \ {p} : plan'[q] = plan[q] /\ own'[q] = own[q]
  BY StoreAssumption DEF End, Forget, LocalTyped, NoGeneration
<1>5. /\ pin' \in [Reader -> 0 .. MaxGeneration] /\ (p \in Reader => pin'[p] = NoGeneration)
      /\ \A q \in Process \ {p} : q \in Reader => pin'[q] = pin[q]
  BY StoreAssumption DEF End, Forget, LocalTyped, NoGeneration
<1>6. /\ todo' = [todo EXCEPT ![p] = {}]
      /\ todo' = [q \in Process |-> todo'[q]] /\ \A q \in Process \ {p} : todo'[q] = todo[q]
  BY DEF End, Forget, LocalTyped
<1> QED
  BY <1>2, <1>3, <1>4, <1>5, <1>6 DEF LocalTyped, Alone

LEMMA EndHolds ==
  ASSUME LocalTyped, NEW p \in Process, End(p)
  PROVE  LocalTyped' /\ Alone(p) /\ Holds(p)'
<1>1. /\ LocalTyped' /\ Alone(p) /\ pc'[p] = "done"
      /\ p \in Reader => pin'[p] = NoGeneration
  BY EndDoes
<1> QED
  BY <1>1 DEF Holds, PublisherHolds, RecovererHolds, ReaderHolds, RetainerHolds

LEMMA TakeDoes ==
  ASSUME LocalTyped, NEW p \in Process, NEW k \in Lock, NEW mode \in {"shared", "exclusive"}, Take(p, k, mode)
  PROVE  /\ lock' \in [Lock -> [Process -> {"free", "shared", "exclusive"}]]
         /\ lock'[k][p] = mode
         /\ \A q \in Process \ {p} : \A j \in Lock : lock'[j][q] = lock[j][q]
         /\ \A j \in Lock \ {k} : lock'[j][p] = lock[j][p]
  BY DEF Take, LocalTyped

\* A process has one part to play.
LEMMA OnePart ==
  ASSUME NEW p \in Process
  PROVE  /\ p \in Publisher \/ p \in Recoverer \/ p \in Reader \/ p \in Retainer
         /\ p \in Publisher => p \notin Recoverer /\ p \notin Reader /\ p \notin Retainer
         /\ p \in Recoverer => p \notin Publisher /\ p \notin Reader /\ p \notin Retainer
         /\ p \in Reader => p \notin Publisher /\ p \notin Recoverer /\ p \notin Retainer
         /\ p \in Retainer => p \notin Publisher /\ p \notin Recoverer /\ p \notin Reader
  BY StoreAssumption DEF Process

\* A step that goes to a label and changes at most what the process knows itself.
LEMMA OwnMove ==
  ASSUME LocalTyped, NEW p \in Process, NEW label \in Label, Goto(p, label), lock' = lock,
         plan' = plan \/ \E g \in 0 .. MaxGeneration : plan' = [plan EXCEPT ![p] = g],
         own' = own \/ \E g \in 0 .. MaxGeneration : own' = [own EXCEPT ![p] = g],
         pin' = pin \/ \E g \in 0 .. MaxGeneration : pin' = [pin EXCEPT ![p] = g],
         todo' = todo \/ \E S : todo' = [todo EXCEPT ![p] = S]
  PROVE  LocalTyped' /\ Alone(p) /\ pc'[p] = label
<1>1. /\ pc' \in [Process -> Label] /\ pc'[p] = label
      /\ \A q \in Process \ {p} : pc'[q] = pc[q]
  BY GotoDoes DEF LocalTyped
<1>2. plan' \in [Process -> 0 .. MaxGeneration] /\ \A q \in Process \ {p} : plan'[q] = plan[q]
  BY DEF LocalTyped
<1>3. own' \in [Process -> 0 .. MaxGeneration] /\ \A q \in Process \ {p} : own'[q] = own[q]
  BY DEF LocalTyped
<1>4. pin' \in [Reader -> 0 .. MaxGeneration] /\ \A q \in Process \ {p} : q \in Reader => pin'[q] = pin[q]
  BY DEF LocalTyped
<1>5. todo' = [q \in Process |-> todo'[q]] /\ \A q \in Process \ {p} : todo'[q] = todo[q]
  BY DEF LocalTyped
<1> QED
  BY <1>1, <1>2, <1>3, <1>4, <1>5 DEF LocalTyped, Alone

-----------------------------------------------------------------------------
(* Where a step leads, and with which locks.                                *)

LEMMA AcquireMoves ==
  ASSUME StoreInv, NEW p \in Process, Acquire(p)
  PROVE  LocalTyped' /\ Alone(p) /\ Holds(p)'
<1>1. PICK k \in Lock : pc[p] = k /\ Take(p, k, Mode(k)) /\ Goto(p, After(p, k)) /\ UNCHANGED <<files, locals>>
  BY DEF Acquire, At
<1>2. LocalTyped /\ Holds(p)
  BY DEF StoreInv, StoreTyped, LocalTyped
<1>3. Mode(k) \in {"shared", "exclusive"} /\ (k # "lifetime" => Mode(k) = "exclusive")
  BY DEF Mode
<1>4. /\ lock' \in [Lock -> [Process -> {"free", "shared", "exclusive"}]]
      /\ lock'[k][p] = Mode(k)
      /\ \A q \in Process \ {p} : \A j \in Lock : lock'[j][q] = lock[j][q]
      /\ \A j \in Lock \ {k} : lock'[j][p] = lock[j][p]
  BY <1>1, <1>2, <1>3, TakeDoes
<1>5. After(p, k) \in Label
  BY DEF After, Label, Lock
<1>6. /\ pc' \in [Process -> Label] /\ pc'[p] = After(p, k)
      /\ \A q \in Process \ {p} : pc'[q] = pc[q]
  BY <1>1, <1>2, <1>5, GotoDoes DEF LocalTyped
<1>7. plan' = plan /\ own' = own /\ pin' = pin /\ todo' = todo
  BY <1>1 DEF locals
<1>8. LocalTyped' /\ Alone(p)
  BY <1>2, <1>4, <1>6, <1>7 DEF LocalTyped, Alone
<1>9. CASE k = "review"
  BY <1>1, <1>2, <1>3, <1>4, <1>6, <1>7, <1>8, <1>9, OnePart
     DEF Holds, PublisherHolds, RecovererHolds, ReaderHolds, RetainerHolds, Locked, Owned, After, Lock
<1>10. CASE k = "lifetime"
  BY <1>1, <1>2, <1>3, <1>4, <1>6, <1>7, <1>8, <1>10, OnePart
     DEF Holds, PublisherHolds, RecovererHolds, ReaderHolds, RetainerHolds, Locked, Owned, After, Lock
<1>11. CASE k = "publication"
  BY <1>1, <1>2, <1>3, <1>4, <1>6, <1>7, <1>8, <1>11, OnePart
     DEF Holds, PublisherHolds, RecovererHolds, ReaderHolds, RetainerHolds, Locked, Owned, After, Lock
<1> QED
  BY <1>9, <1>10, <1>11 DEF Lock

LEMMA PublishMoves ==
  ASSUME StoreInv, NEW p \in Process, Base(p) \/ Make(p) \/ Seal(p) \/ Replace(p) \/ Index(p) \/ Recover(p)
  PROVE  LocalTyped' /\ Alone(p) /\ Holds(p)'
<1>1. LocalTyped /\ Holds(p) /\ made \in 0 .. MaxGeneration /\ pointer \in 0 .. MaxGeneration
  BY DEF StoreInv, StoreTyped, LocalTyped
<1>2. CASE End(p)
  BY <1>1, <1>2, EndHolds
<1>3. CASE Base(p) /\ ~End(p)
  <2>1. Goto(p, "lifetime") /\ lock' = lock /\ plan' = [plan EXCEPT ![p] = pointer]
        /\ own' = own /\ pin' = pin /\ todo' = todo /\ pc[p] = "base"
    BY <1>3 DEF Base, At
  <2>2. LocalTyped' /\ Alone(p) /\ pc'[p] = "lifetime"
    BY <1>1, <2>1, OwnMove DEF Label, Lock
  <2> QED
    BY <1>1, <2>1, <2>2, OnePart DEF Holds, PublisherHolds, RecovererHolds, ReaderHolds, RetainerHolds
<1>4. CASE MakeCandidate(p) /\ pc[p] \in {"parent", "recover"}
  <2>1. Goto(p, "made") /\ lock' = lock /\ own' = [own EXCEPT ![p] = made + 1]
        /\ plan' = plan /\ pin' = pin /\ todo' = todo /\ made + 1 \in 0 .. MaxGeneration
    BY <1>1, <1>4, StoreAssumption DEF MakeCandidate
  <2>2. LocalTyped' /\ Alone(p) /\ pc'[p] = "made"
    BY <1>1, <2>1, OwnMove DEF Label
  <2> QED
    BY <1>1, <1>4, <2>1, <2>2, OnePart
       DEF Holds, PublisherHolds, RecovererHolds, ReaderHolds, RetainerHolds, Locked, Owned
<1>5. CASE Seal(p)
  <2>1. Goto(p, AfterSeal(p)) /\ AfterSeal(p) \in Label /\ UNCHANGED <<lock, locals>> /\ pc[p] = "made"
    BY <1>5 DEF Seal, At, AfterSeal, Label, Lock
  <2>2. LocalTyped' /\ Alone(p) /\ pc'[p] = AfterSeal(p)
    BY <1>1, <2>1, OwnMove DEF locals
  <2> QED
    BY <1>1, <2>1, <2>2, OnePart
       DEF Holds, PublisherHolds, RecovererHolds, ReaderHolds, RetainerHolds, Locked, Owned, AfterSeal
<1>6. CASE Replace(p)
  <2>1. Goto(p, "index") /\ UNCHANGED <<lock, locals>> /\ pc[p] = "commit"
    BY <1>6 DEF Replace, At
  <2>2. LocalTyped' /\ Alone(p) /\ pc'[p] = "index"
    BY <1>1, <2>1, OwnMove DEF locals, Label
  <2> QED
    BY <1>1, <2>1, <2>2, OnePart
       DEF Holds, PublisherHolds, RecovererHolds, ReaderHolds, RetainerHolds, Locked, Owned
<1> QED
  BY <1>2, <1>3, <1>4, <1>5, <1>6 DEF Make, Index, Recover, At

LEMMA ReaderMoves ==
  ASSUME StoreInv, NEW p \in Process, Resolve(p) \/ CitePinned(p) \/ Unpin(p) \/ Report(p)
  PROVE  LocalTyped' /\ Alone(p) /\ Holds(p)'
<1>1. LocalTyped /\ Holds(p) /\ lock \in [Lock -> [Process -> {"free", "shared", "exclusive"}]]
  BY DEF StoreInv, StoreTyped, LocalTyped
<1>2. CASE End(p)
  BY <1>1, <1>2, EndHolds
<1>3. CASE Resolve(p) /\ ~End(p)
  <2>1. PICK g \in Generation : pin' = [pin EXCEPT ![p] = g]
    BY <1>3 DEF Resolve
  <2>2. /\ Goto(p, "reading") /\ lock' = lock /\ plan' = plan /\ own' = own /\ todo' = todo
        /\ pc[p] = "resolve" /\ g \in 0 .. MaxGeneration /\ g # NoGeneration
    BY <1>3 DEF Resolve, At, Generation, NoGeneration
  <2>3. LocalTyped' /\ Alone(p) /\ pc'[p] = "reading"
    BY <1>1, <2>1, <2>2, OwnMove DEF Label
  <2>4. p \in Reader => pin'[p] = g
    BY <1>1, <2>1 DEF LocalTyped
  <2> QED
    BY <1>1, <2>2, <2>3, <2>4, OnePart
       DEF Holds, PublisherHolds, RecovererHolds, ReaderHolds, RetainerHolds, Locked
<1>4. CASE CitePinned(p)
  <2>1. UNCHANGED <<lock, pc, locals>>
    BY <1>4 DEF CitePinned
  <2> QED
    BY <1>1, <2>1 DEF LocalTyped, Alone, locals, Holds, PublisherHolds, RecovererHolds, ReaderHolds,
       RetainerHolds, Locked, Owned
<1>5. CASE Unpin(p)
  <2>1. p \in Reader /\ pc[p] = "reading" /\ pin[p] # NoGeneration
    BY <1>1, <1>5, OnePart DEF Unpin, At, Holds, PublisherHolds, RecovererHolds, ReaderHolds, RetainerHolds
  <2>2. /\ lock' \in [Lock -> [Process -> {"free", "shared", "exclusive"}]]
        /\ \A k \in Lock : lock'[k][p] = "free" /\ \A q \in Process \ {p} : lock'[k][q] = lock[k][q]
    BY <1>1, <1>5 DEF Unpin, Released
  <2>3. /\ pc' \in [Process -> Label] /\ pc'[p] = "review"
        /\ \A q \in Process \ {p} : pc'[q] = pc[q]
    BY <1>1, <1>5, GotoDoes DEF Unpin, LocalTyped, Label, Lock
  <2>4. /\ plan' \in [Process -> 0 .. MaxGeneration] /\ plan'[p] = pin[p]
        /\ \A q \in Process \ {p} : plan'[q] = plan[q]
    BY <1>1, <1>5, <2>1 DEF Unpin, LocalTyped
  <2>5. /\ pin' \in [Reader -> 0 .. MaxGeneration] /\ pin'[p] = NoGeneration
        /\ \A q \in Process \ {p} : q \in Reader => pin'[q] = pin[q]
    BY <1>1, <1>5, <2>1, StoreAssumption DEF Unpin, LocalTyped, NoGeneration
  <2>6. own' = own /\ todo' = todo
    BY <1>5 DEF Unpin
  <2>7. LocalTyped' /\ Alone(p)
    BY <1>1, <2>2, <2>3, <2>4, <2>5, <2>6 DEF LocalTyped, Alone
  <2> QED
    BY <2>1, <2>3, <2>4, <2>5, <2>7, OnePart DEF Holds, ReaderHolds
<1> QED
  BY <1>2, <1>3, <1>4, <1>5 DEF Report

LEMMA RetainerMoves ==
  ASSUME StoreInv, NEW p \in Process, Evict(p) \/ Scan(p) \/ Erase(p) \/ Remove(p) \/ Retained(p) \/ Stop(p)
  PROVE  LocalTyped' /\ Alone(p) /\ Holds(p)'
<1>1. LocalTyped /\ Holds(p)
  BY DEF StoreInv, StoreTyped, LocalTyped
<1>2. CASE End(p)
  BY <1>1, <1>2, EndHolds
<1>3. CASE Evict(p) /\ ~End(p)
  <2>1. Take(p, "lifetime", "exclusive") /\ Goto(p, "publication") /\ UNCHANGED locals /\ pc[p] = "evict"
    BY <1>3 DEF Evict, At
  <2>2. /\ lock' \in [Lock -> [Process -> {"free", "shared", "exclusive"}]]
        /\ lock'["lifetime"][p] = "exclusive"
        /\ \A q \in Process \ {p} : \A j \in Lock : lock'[j][q] = lock[j][q]
    BY <1>1, <2>1, TakeDoes DEF Lock
  <2>3. /\ pc' \in [Process -> Label] /\ pc'[p] = "publication"
        /\ \A q \in Process \ {p} : pc'[q] = pc[q]
    BY <1>1, <2>1, GotoDoes DEF LocalTyped, Label, Lock
  <2>4. LocalTyped' /\ Alone(p)
    BY <1>1, <2>1, <2>2, <2>3 DEF LocalTyped, Alone, locals
  <2> QED
    BY <1>1, <2>1, <2>2, <2>3, <2>4, OnePart
       DEF Holds, PublisherHolds, RecovererHolds, ReaderHolds, RetainerHolds, Owned
<1>4. CASE Scan(p) /\ ~End(p)
  <2>1. /\ Goto(p, "erase") /\ lock' = lock /\ plan' = plan /\ own' = own /\ pin' = pin /\ pc[p] = "scan"
        /\ \E S : todo' = [todo EXCEPT ![p] = S]
    BY <1>4 DEF Scan, At
  <2>2. LocalTyped' /\ Alone(p) /\ pc'[p] = "erase"
    BY <1>1, <2>1, OwnMove DEF Label
  <2> QED
    BY <1>1, <2>1, <2>2, OnePart
       DEF Holds, PublisherHolds, RecovererHolds, ReaderHolds, RetainerHolds, Owned
<1>5. CASE (Erase(p) \/ Remove(p)) /\ ~End(p)
  <2>1. UNCHANGED <<lock, pc, plan, own, pin>> /\ (todo' = todo \/ \E S : todo' = [todo EXCEPT ![p] = S])
    BY <1>5 DEF Erase, Remove, locals
  <2>2. todo' = [q \in Process |-> todo'[q]] /\ \A q \in Process \ {p} : todo'[q] = todo[q]
    BY <1>1, <2>1 DEF LocalTyped
  <2> QED
    BY <1>1, <2>1, <2>2 DEF LocalTyped, Alone, Holds, PublisherHolds, RecovererHolds, ReaderHolds,
       RetainerHolds, Locked, Owned
<1> QED
  BY <1>2, <1>3, <1>4, <1>5 DEF Retained, Stop

LEMMA StepMoves ==
  ASSUME StoreInv, NEW p \in Process, Step(p)
  PROVE  LocalTyped' /\ Alone(p) /\ Holds(p)'
  BY AcquireMoves, PublishMoves, ReaderMoves, RetainerMoves DEF Step, Proceed

-----------------------------------------------------------------------------
(* Mutual exclusion.                                                        *)

\* Whatever a process holds more than before was available to it.
LEMMA StepLocks ==
  ASSUME StoreInv, NEW p \in Process, Step(p), NEW k \in Lock
  PROVE  lock'[k][p] = lock[k][p] \/ lock'[k][p] = "free" \/ Available(p, k, lock'[k][p])
<1>1. LocalTyped
  BY DEF StoreInv, StoreTyped, LocalTyped
<1>2. CASE End(p)
  BY <1>1, <1>2, EndDoes
<1>3. CASE \E j \in Lock, mode \in {"shared", "exclusive"} : Take(p, j, mode)
  <2>1. PICK j \in Lock, mode \in {"shared", "exclusive"} : Take(p, j, mode)
    BY <1>3
  <2>2. lock'[j][p] = mode /\ \A i \in Lock \ {j} : lock'[i][p] = lock[i][p]
    BY <1>1, <2>1, TakeDoes
  <2> QED
    BY <2>1, <2>2 DEF Take
<1>4. CASE lock' = lock
  BY <1>4
<1>5. CASE Acquire(p)
  BY <1>3, <1>5 DEF Acquire, Mode
<1>6. CASE Evict(p)
  BY <1>2, <1>3, <1>6 DEF Evict, Lock
<1>7. CASE Unpin(p)
  BY <1>1, <1>7 DEF Unpin, Released, LocalTyped
<1> QED
  BY <1>2, <1>4, <1>5, <1>6, <1>7 DEF Step, Proceed, Base, Make, MakeCandidate, Seal, Replace, Index,
     Recover, Resolve, Report, Scan, Erase, Remove, Retained, CitePinned, Stop

LEMMA StepExcludes == ASSUME StoreInv, NEW p \in Process, Step(p) PROVE Exclusion'
<1>1. /\ lock \in [Lock -> [Process -> {"free", "shared", "exclusive"}]]
      /\ lock' \in [Lock -> [Process -> {"free", "shared", "exclusive"}]]
      /\ \A q \in Process \ {p}, k \in Lock : lock'[k][q] = lock[k][q]
      /\ Exclusion
  BY StepMoves DEF StoreInv, StoreTyped, LocalTyped, Alone
<1>2. SUFFICES ASSUME NEW k \in Lock, NEW q \in Process, NEW r \in Process, q # r, lock'[k][q] = "exclusive"
               PROVE  lock'[k][r] = "free"
  BY DEF Exclusion
<1>3. CASE q # p /\ r # p
  BY <1>1, <1>2, <1>3 DEF Exclusion
<1>4. CASE q = p
  BY <1>1, <1>2, <1>4, StepLocks DEF Exclusion, Available
<1>5. CASE r = p
  BY <1>1, <1>2, <1>5, StepLocks DEF Exclusion, Available
<1> QED
  BY <1>3, <1>4, <1>5

\* Who erases is alone: nobody reads, nobody has a candidate, nobody commits.
LEMMA EraserAlone ==
  ASSUME StoreInv, NEW p \in Process, pc[p] = "erase", NEW q \in Process, q # p
  PROVE  /\ ~Sealed(q) /\ pc[q] \notin {"index", "erase", "reading"}
         /\ q \in Reader => pin[q] = NoGeneration
<1>1. Holds(p) /\ Holds(q) /\ Exclusion
  BY DEF StoreInv
<1>2. Owned(p, "lifetime") /\ Owned(p, "publication")
  BY <1>1, OnePart DEF Holds, PublisherHolds, RecovererHolds, ReaderHolds, RetainerHolds
<1>3. ~Locked(q, "lifetime") /\ ~Locked(q, "publication")
  BY <1>1, <1>2 DEF Exclusion, Owned, Locked, Lock
<1>4. Owned(q, "publication") => Locked(q, "publication")
  BY DEF Owned, Locked
<1> QED
  BY <1>1, <1>3, <1>4, OnePart
     DEF Holds, PublisherHolds, RecovererHolds, ReaderHolds, RetainerHolds, Sealed, Owned, Locked

\* Who commits is the only one to commit.
LEMMA CommitterAlone ==
  ASSUME StoreInv, NEW p \in Process, pc[p] = "commit", NEW q \in Process, q # p
  PROVE  pc[q] \notin {"index", "erase"}
<1>1. Holds(p) /\ Holds(q) /\ Exclusion
  BY DEF StoreInv
<1>2. Owned(p, "publication")
  BY <1>1, OnePart DEF Holds, PublisherHolds, RecovererHolds, ReaderHolds, RetainerHolds
<1>3. ~Owned(q, "publication")
  BY <1>1, <1>2 DEF Exclusion, Owned, Lock
<1> QED
  BY <1>1, <1>3, OnePart
     DEF Holds, PublisherHolds, RecovererHolds, ReaderHolds, RetainerHolds

-----------------------------------------------------------------------------
(* What is needed stays whole.                                              *)

Store == /\ StoreTyped' /\ Numbered' /\ NeededIsWhole' /\ \A q \in Process : InHand(q)'

\* The files stay as they are.
LEMMA FilesStay ==
  ASSUME StoreInv, NEW p \in Process, Step(p), UNCHANGED <<dir, made, pointer, cited>>,
         \A r \in Reader : pin'[r] \in {pin[r], NoGeneration} \/ dir[pin'[r]] = "whole",
         InHand(p)'
  PROVE  Store
<1>1. LocalTyped' /\ Alone(p)
  BY StepMoves
<1>2. StoreTyped' /\ Numbered'
  BY <1>1 DEF StoreInv, StoreTyped, LocalTyped, Numbered
<1>3. NeededIsWhole'
  BY DEF StoreInv, NeededIsWhole, PointerWhole, PinnedWhole, CitationsKept
<1>4. \A q \in Process : InHand(q)'
  <2>1. SUFFICES ASSUME NEW q \in Process, q # p PROVE InHand(q)'
    OBVIOUS
  <2> QED
    BY <1>1, <2>1 DEF StoreInv, InHand, Sealed, Alone
<1> QED
  BY <1>2, <1>3, <1>4 DEF Store

\* A process that ends has nothing in hand.
LEMMA EndStore ==
  ASSUME StoreInv, NEW p \in Process, Step(p), UNCHANGED <<dir, made, pointer, cited>>, End(p)
  PROVE  Store
<1>1. LocalTyped
  BY DEF StoreInv, StoreTyped, LocalTyped
<1>2. pc'[p] = "done" /\ \A r \in Reader : pin'[r] \in {pin[r], NoGeneration}
  BY <1>1, EndDoes DEF Alone, Process
<1>3. InHand(p)'
  BY <1>2 DEF InHand, Sealed
<1> QED
  BY <1>2, <1>3, FilesStay

LEMMA QuietStore ==
  ASSUME StoreInv, NEW p \in Process, Step(p),
         Acquire(p) \/ Resolve(p) \/ Unpin(p) \/ Evict(p) \/ Scan(p) \/ Retained(p) \/ Stop(p)
  PROVE  Store
<1>1. UNCHANGED <<dir, made, pointer, cited>>
  BY DEF Acquire, Resolve, Unpin, Evict, Scan, Retained, Stop, files
<1>2. LocalTyped /\ LocalTyped' /\ Alone(p) /\ Holds(p) /\ InHand(p)
  BY StepMoves DEF StoreInv, StoreTyped, LocalTyped
<1>3. CASE End(p)
  BY <1>1, <1>3, EndStore
<1>4. CASE Acquire(p)
  <2>1. PICK k \in Lock : pc[p] = k /\ Goto(p, After(p, k)) /\ UNCHANGED locals
    BY <1>4 DEF Acquire, At
  <2>2. pc'[p] = After(p, k)
    BY <1>2, <2>1 DEF Goto, LocalTyped
  <2>3. InHand(p)'
    BY <1>1, <1>2, <2>1, <2>2, OnePart DEF After, Lock, InHand, Sealed, locals
  <2> QED
    BY <1>1, <2>1, <2>3, FilesStay DEF locals
<1>5. CASE Resolve(p) /\ ~End(p)
  <2>1. PICK g \in Generation : dir[g] = "whole" /\ pin' = [pin EXCEPT ![p] = g]
    BY <1>5 DEF Resolve
  <2>2. pc'[p] = "reading"
    BY <1>2, <1>5 DEF Resolve, Goto, LocalTyped
  <2>3. InHand(p)'
    BY <2>2 DEF InHand, Sealed
  <2>4. \A r \in Reader : pin'[r] = pin[r] \/ dir[pin'[r]] = "whole"
    BY <1>2, <2>1 DEF LocalTyped
  <2> QED
    BY <1>1, <2>3, <2>4, FilesStay
<1>6. CASE Unpin(p)
  <2>1. pc'[p] = "review"
    BY <1>2, <1>6 DEF Unpin, Goto, LocalTyped
  <2>2. InHand(p)'
    BY <2>1 DEF InHand, Sealed
  <2>3. \A r \in Reader : pin'[r] \in {pin[r], NoGeneration}
    BY <1>2, <1>6 DEF Unpin, LocalTyped
  <2> QED
    BY <1>1, <2>2, <2>3, FilesStay
<1>7. CASE Evict(p) /\ ~End(p)
  <2>1. pc'[p] = "publication" /\ UNCHANGED locals /\ pc[p] = "evict"
    BY <1>2, <1>7 DEF Evict, Goto, LocalTyped, At
  <2>2. p \notin Publisher
    BY <1>2, <2>1 DEF Holds, PublisherHolds
  <2>3. InHand(p)'
    BY <2>1, <2>2 DEF InHand, Sealed
  <2> QED
    BY <1>1, <2>1, <2>3, FilesStay DEF locals
<1>8. CASE Scan(p) /\ ~End(p)
  <2>1. /\ pc'[p] = "erase" /\ pin' = pin
        /\ \E S : todo' = [todo EXCEPT ![p] = S] /\ S \cap Protected = {}
    BY <1>2, <1>8 DEF Scan, Goto, LocalTyped
  <2>2. todo'[p] \cap Protected = {}
    BY <1>2, <2>1 DEF LocalTyped
  <2>3. InHand(p)'
    BY <1>1, <2>1, <2>2 DEF InHand, Sealed, Protected
  <2> QED
    BY <1>1, <2>1, <2>3, FilesStay
<1> QED
  BY <1>3, <1>4, <1>5, <1>6, <1>7, <1>8 DEF Retained, Stop

LEMMA BaseStore == ASSUME StoreInv, NEW p \in Process, Base(p) PROVE Store
<1>1. Step(p) /\ LocalTyped /\ LocalTyped' /\ Alone(p)
  BY StepMoves DEF StoreInv, StoreTyped, LocalTyped, Step, Proceed
<1>2. CASE End(p) /\ UNCHANGED files
  BY <1>1, <1>2, EndStore DEF files
<1>3. CASE ~(End(p) /\ UNCHANGED files)
  <2>1. /\ UNCHANGED <<dir, made, pointer, pin>> /\ pc'[p] = "lifetime"
        /\ cited' \subseteq cited \cup ({pointer} \ {NoGeneration})
    BY <1>1, <1>3 DEF Base, Goto, LocalTyped
  <2>2. pointer # NoGeneration => pointer \in Generation
    BY DEF StoreInv, StoreTyped, Generation, NoGeneration
  <2>3. StoreTyped' /\ Numbered'
    BY <1>1, <2>1, <2>2 DEF StoreInv, StoreTyped, LocalTyped, Numbered
  <2>4. NeededIsWhole'
    BY <2>1 DEF StoreInv, NeededIsWhole, PointerWhole, PinnedWhole, CitationsKept
  <2>5. \A q \in Process : InHand(q)'
    <3>1. InHand(p)'
      BY <2>1 DEF InHand, Sealed
    <3>2. ASSUME NEW q \in Process, q # p PROVE InHand(q)'
      BY <1>1, <2>1, <3>2 DEF StoreInv, InHand, Sealed, Alone
    <3> QED
      BY <3>1, <3>2
  <2> QED
    BY <2>3, <2>4, <2>5 DEF Store
<1> QED
  BY <1>2, <1>3

LEMMA CiteStore == ASSUME StoreInv, NEW p \in Process, CitePinned(p) \/ Report(p) PROVE Store
<1>1. Step(p) /\ LocalTyped /\ LocalTyped' /\ Alone(p) /\ Holds(p)
  BY StepMoves DEF StoreInv, StoreTyped, LocalTyped, Step, Proceed
<1>2. p \in Reader /\ (CitePinned(p) => pin[p] # NoGeneration) /\ (Report(p) => plan[p] # NoGeneration)
  BY <1>1, OnePart DEF CitePinned, Report, At, Holds, PublisherHolds, RecovererHolds, ReaderHolds, RetainerHolds
<1>3. CASE Report(p) /\ ~ResolvesTo(p, plan[p])
  BY <1>1, <1>3, EndStore DEF Report
<1>4. CASE CitePinned(p) \/ (Report(p) /\ ResolvesTo(p, plan[p]))
  <2>1. PICK g \in Generation :
          dir[g] = "whole" /\ cited' = cited \cup {g} /\ (CitePinned(p) \/ g = pointer)
    <3>1. CASE CitePinned(p)
      BY <1>1, <1>2, <3>1 DEF CitePinned, StoreInv, NeededIsWhole, PinnedWhole, LocalTyped, Generation, NoGeneration
    <3>2. CASE Report(p) /\ ResolvesTo(p, plan[p])
      BY <1>1, <1>2, <3>2 DEF Report, ResolvesTo, LocalTyped, Generation, NoGeneration
    <3> QED
      BY <1>4, <3>1, <3>2
  <2>2. UNCHANGED <<dir, made, pointer>>
    BY <1>4 DEF CitePinned, Report
  <2>3. \A r \in Reader : pin'[r] \in {pin[r], NoGeneration}
    <3>1. CASE CitePinned(p)
      BY <3>1 DEF CitePinned, locals
    <3>2. CASE Report(p)
      BY <1>1, <3>2, EndDoes, ReaderProcess DEF Report, Alone
    <3> QED
      BY <1>4, <3>1, <3>2
  <2>4. StoreTyped' /\ Numbered'
    BY <1>1, <2>1, <2>2 DEF StoreInv, StoreTyped, LocalTyped, Numbered
  <2>5. NeededIsWhole'
    BY <2>1, <2>2, <2>3 DEF StoreInv, NeededIsWhole, PointerWhole, PinnedWhole, CitationsKept
  <2>6. pc'[p] \in {"reading", "done"} /\ (CitePinned(p) => pc[p] = "reading")
    <3>1. CASE CitePinned(p)
      BY <3>1 DEF CitePinned, At
    <3>2. CASE Report(p)
      BY <1>1, <3>2, EndDoes DEF Report, CitePinned, At
    <3> QED
      BY <1>4, <3>1, <3>2
  <2>7. ASSUME NEW q \in Process, q # p PROVE InHand(q)'
    <3>1. pc[q] = "erase" => g = pointer
      BY <2>1, <2>6, <2>7, EraserAlone
    <3> QED
      BY <1>1, <2>1, <2>2, <2>7, <3>1 DEF StoreInv, InHand, Sealed, Alone
  <2>8. InHand(p)'
    BY <2>6 DEF InHand, Sealed
  <2> QED
    BY <2>4, <2>5, <2>7, <2>8 DEF Store
<1> QED
  BY <1>3, <1>4

LEMMA MakeStore ==
  ASSUME StoreInv, NEW p \in Process, Step(p), MakeCandidate(p)
  PROVE  Store
<1> DEFINE new == made + 1
<1>1. LocalTyped /\ LocalTyped' /\ Alone(p) /\ StoreTyped /\ Numbered
  BY StepMoves DEF StoreInv, StoreTyped, LocalTyped
<1>2. /\ new \in Generation /\ made' = new /\ dir' = [dir EXCEPT ![new] = "partial"] /\ dir[new] = "absent"
      /\ pc'[p] = "made" /\ own'[p] = new /\ UNCHANGED <<pointer, cited, pin>>
  BY <1>1, StoreAssumption DEF MakeCandidate, StoreTyped, LocalTyped, Numbered, Generation, Goto
<1>3. \A g \in Generation : dir[g] = "whole" => dir'[g] = "whole"
  BY <1>1, <1>2 DEF StoreTyped
<1>4. StoreTyped' /\ Numbered'
  BY <1>1, <1>2 DEF StoreTyped, LocalTyped, Numbered, Generation
<1>5. NeededIsWhole'
  <2>1. pointer # NoGeneration => pointer \in Generation
    BY <1>1 DEF StoreTyped, Generation, NoGeneration
  <2>2. \A r \in Reader : pin[r] # NoGeneration => pin[r] \in Generation
    BY <1>1 DEF StoreTyped, Generation, NoGeneration
  <2> QED
    BY <1>1, <1>2, <1>3, <2>1, <2>2
       DEF StoreInv, StoreTyped, NeededIsWhole, PointerWhole, PinnedWhole, CitationsKept
<1>6. ASSUME NEW q \in Process, q # p PROVE InHand(q)'
  <2>1. InHand(q)
    BY DEF StoreInv
  <2>2. pc[q] = "made" \/ Sealed(q) => own[q] \in 1 .. made' /\ own[q] \in Generation
    BY <1>1, <1>2, <2>1 DEF InHand, StoreTyped, Generation
  <2> QED
    BY <1>1, <1>2, <1>3, <1>6, <2>1, <2>2 DEF InHand, Sealed, Alone
<1>7. InHand(p)'
  BY <1>1, <1>2 DEF InHand, Sealed, Generation, StoreTyped
<1> QED
  BY <1>4, <1>5, <1>6, <1>7 DEF Store

LEMMA SealStore == ASSUME StoreInv, NEW p \in Process, Seal(p) PROVE Store
<1>1. Step(p) /\ LocalTyped /\ LocalTyped' /\ Alone(p) /\ StoreTyped /\ Numbered
  BY StepMoves DEF StoreInv, StoreTyped, LocalTyped, Step, Proceed
<1>2. /\ own[p] \in 1 .. made /\ own[p] \in Generation /\ dir' = [dir EXCEPT ![own[p]] = "whole"]
      /\ pc'[p] = AfterSeal(p) /\ UNCHANGED <<made, pointer, cited, pin, own>>
  BY <1>1 DEF Seal, At, StoreInv, InHand, StoreTyped, LocalTyped, Generation, Goto, locals
<1>3. \A g \in Generation : dir[g] = "whole" => dir'[g] = "whole"
  BY <1>1, <1>2 DEF StoreTyped
<1>4. StoreTyped' /\ Numbered'
  BY <1>1, <1>2 DEF StoreTyped, LocalTyped, Numbered, Generation
<1>5. NeededIsWhole'
  <2>1. pointer # NoGeneration => pointer \in Generation
    BY <1>1 DEF StoreTyped, Generation, NoGeneration
  <2>2. \A r \in Reader : pin[r] # NoGeneration => pin[r] \in Generation
    BY <1>1 DEF StoreTyped, Generation, NoGeneration
  <2> QED
    BY <1>1, <1>2, <1>3, <2>1, <2>2
       DEF StoreInv, StoreTyped, NeededIsWhole, PointerWhole, PinnedWhole, CitationsKept
<1>6. ASSUME NEW q \in Process, q # p PROVE InHand(q)'
  <2>1. InHand(q)
    BY DEF StoreInv
  <2>2. Sealed(q) => own[q] \in Generation
    BY <1>1, <2>1 DEF InHand, StoreTyped, Generation
  <2> QED
    BY <1>1, <1>2, <1>3, <1>6, <2>1, <2>2 DEF InHand, Sealed, Alone
<1>7. InHand(p)'
  BY <1>1, <1>2 DEF InHand, Sealed, AfterSeal, StoreTyped
<1> QED
  BY <1>4, <1>5, <1>6, <1>7 DEF Store

LEMMA ReplaceStore == ASSUME StoreInv, NEW p \in Process, Replace(p) PROVE Store
<1>1. Step(p) /\ LocalTyped /\ LocalTyped' /\ Alone(p) /\ StoreTyped /\ InHand(p)
  BY StepMoves DEF StoreInv, StoreTyped, LocalTyped, Step, Proceed
<1>2. /\ pc[p] = "commit" /\ pointer' = own[p] /\ pc'[p] = "index" /\ own' = own
      /\ UNCHANGED <<dir, made, cited, pin>>
  BY <1>1 DEF Replace, At, Goto, LocalTyped, locals
<1>3. own[p] \in 1 .. made /\ dir[own[p]] = "whole"
  BY <1>1, <1>2 DEF InHand, Sealed
<1>4. StoreTyped' /\ Numbered'
  BY <1>1, <1>2 DEF StoreInv, StoreTyped, LocalTyped, Numbered
<1>5. NeededIsWhole'
  BY <1>2, <1>3 DEF StoreInv, NeededIsWhole, PointerWhole, PinnedWhole, CitationsKept
<1>6. ASSUME NEW q \in Process, q # p PROVE InHand(q)'
  <2>1. pc[q] \notin {"index", "erase"}
    BY <1>2, <1>6, CommitterAlone
  <2> QED
    BY <1>1, <1>2, <1>6, <2>1 DEF StoreInv, InHand, Sealed, Alone
<1>7. InHand(p)'
  BY <1>2 DEF InHand, Sealed
<1> QED
  BY <1>4, <1>5, <1>6, <1>7 DEF Store

LEMMA EraseStore == ASSUME StoreInv, NEW p \in Process, Erase(p) \/ Remove(p) PROVE Store
<1>1. Step(p) /\ LocalTyped /\ LocalTyped' /\ Alone(p) /\ StoreTyped /\ Numbered /\ InHand(p)
  BY StepMoves DEF StoreInv, StoreTyped, LocalTyped, Step, Proceed
<1>2. CASE End(p) /\ UNCHANGED files
  BY <1>1, <1>2, EndStore DEF files
<1>3. CASE ~(End(p) /\ UNCHANGED files)
  <2>1. PICK g \in todo[p] :
          /\ \/ dir[g] = "whole" /\ dir' = [dir EXCEPT ![g] = "partial"] /\ todo' = todo
             \/ dir[g] = "partial" /\ dir' = [dir EXCEPT ![g] = "absent"] /\ todo' = [todo EXCEPT ![p] = @ \ {g}]
          /\ pc[p] = "erase" /\ UNCHANGED <<made, pointer, cited, pin, own, pc>>
    BY <1>3 DEF Erase, Remove, At, locals
  <2>2. g \notin cited /\ g # pointer
    BY <1>1, <2>1 DEF InHand
  <2>3. \A h \in Generation \ {g} : dir'[h] = dir[h]
    BY <1>1, <2>1 DEF StoreTyped
  <2>4. StoreTyped'
    BY <1>1, <2>1 DEF StoreTyped, LocalTyped
  <2>5. Numbered'
    BY <1>1, <2>1 DEF StoreTyped, Numbered
  <2>6. NeededIsWhole'
    <3>1. \A r \in Reader : pin[r] = NoGeneration
      <4>1. p \in Retainer
        BY <2>1, OnePart DEF StoreInv, Holds, PublisherHolds, RecovererHolds, ReaderHolds
      <4> QED
        BY <2>1, <4>1, EraserAlone, OnePart, ReaderProcess
    <3>2. pointer # NoGeneration => pointer \in Generation
      BY <1>1 DEF StoreTyped, Generation, NoGeneration
    <3> QED
      BY <1>1, <2>1, <2>2, <2>3, <3>1, <3>2
         DEF StoreInv, StoreTyped, NeededIsWhole, PointerWhole, PinnedWhole, CitationsKept
  <2>7. ASSUME NEW q \in Process, q # p PROVE InHand(q)'
    <3>1. ~Sealed(q) /\ pc[q] # "erase"
      BY <2>1, <2>7, EraserAlone
    <3> QED
      BY <1>1, <2>1, <2>7, <3>1 DEF StoreInv, InHand, Sealed, Alone
  <2>8. InHand(p)'
    BY <1>1, <2>1 DEF InHand, Sealed, LocalTyped
  <2> QED
    BY <2>4, <2>5, <2>6, <2>7, <2>8 DEF Store
<1> QED
  BY <1>2, <1>3

LEMMA StepStore == ASSUME StoreInv, NEW p \in Process, Step(p) PROVE Store
<1>1. CASE Acquire(p) \/ Resolve(p) \/ Unpin(p) \/ Evict(p) \/ Scan(p) \/ Retained(p) \/ Stop(p)
  BY <1>1, QuietStore
<1>2. CASE Index(p)
  BY <1>2, EndStore DEF Index
<1>3. CASE Recover(p)
  BY <1>3, EndStore, MakeStore DEF Recover, files
<1>4. CASE Make(p)
  BY <1>4, MakeStore DEF Make
<1> QED
  BY <1>1, <1>2, <1>3, <1>4, BaseStore, CiteStore, SealStore, ReplaceStore, EraseStore DEF Step, Proceed

-----------------------------------------------------------------------------
(* Theorems.                                                                *)

LEMMA StoreInit == Init => StoreInv
<1> SUFFICES ASSUME Init PROVE StoreInv
  OBVIOUS
<1>1. pointer \in 0 .. MaxGeneration /\ made = pointer /\ cited = {}
  BY StoreAssumption DEF Init, NoGeneration
<1>2. PICK oldest \in {"whole"} \cup IF pointer > 2 THEN {"partial", "absent"} ELSE {} :
        dir = [g \in Generation |-> IF g > pointer THEN "absent" ELSE IF g = 1 THEN oldest ELSE "whole"]
  BY DEF Init
<1>3. oldest \in {"whole", "partial", "absent"} /\ (pointer <= 2 => oldest = "whole")
  BY <1>1
<1>4. dir \in [Generation -> {"absent", "partial", "whole"}] /\ Numbered
  BY <1>1, <1>2, <1>3 DEF Numbered, Generation
<1>5. PointerWhole
  BY <1>1, <1>2, <1>3 DEF PointerWhole, Generation, NoGeneration
<1>6. /\ lock = [k \in Lock |-> [p \in Process |-> "free"]]
      /\ pc = [p \in Process |-> CASE p \in Reader -> "lifetime" [] p \in Retainer -> "evict" [] OTHER -> "review"]
      /\ plan = [p \in Process |-> NoGeneration] /\ own = [p \in Process |-> NoGeneration]
      /\ pin = [r \in Reader |-> NoGeneration] /\ todo = [p \in Process |-> {}]
  BY DEF Init
<1>7. LocalTyped
  BY <1>6, StoreAssumption DEF LocalTyped, Label, Lock, NoGeneration
<1>8. StoreTyped
  BY <1>1, <1>4, <1>7 DEF StoreTyped, LocalTyped
<1>9. Exclusion /\ NeededIsWhole
  BY <1>1, <1>5, <1>6 DEF Exclusion, NeededIsWhole, PinnedWhole, CitationsKept
<1>10. ASSUME NEW p \in Process PROVE Holds(p) /\ InHand(p)
  <2>1. /\ p \in Reader => pc[p] = "lifetime" /\ pin[p] = NoGeneration
        /\ p \in Retainer => pc[p] = "evict"
        /\ p \in Publisher \/ p \in Recoverer => pc[p] = "review"
        /\ pc[p] \in {"lifetime", "evict", "review"}
        /\ \A k \in Lock : lock[k][p] = "free"
    BY <1>6, <1>10, OnePart
  <2> QED
    BY <2>1, OnePart DEF Holds, PublisherHolds, RecovererHolds, ReaderHolds, RetainerHolds, InHand,
       Sealed, Locked, Owned, Lock
<1> QED
  BY <1>4, <1>8, <1>9, <1>10 DEF StoreInv

LEMMA StoreNext == StoreInv /\ [Next]_vars => StoreInv'
<1> SUFFICES ASSUME StoreInv, [Next]_vars PROVE StoreInv'
  OBVIOUS
<1>1. CASE UNCHANGED vars
  BY <1>1 DEF vars, files, locals, StoreInv, StoreTyped, Exclusion, Numbered, NeededIsWhole, PointerWhole,
     PinnedWhole, CitationsKept, Holds, PublisherHolds, RecovererHolds, ReaderHolds, RetainerHolds,
     InHand, Sealed, Locked, Owned
<1>2. CASE Next
  <2>1. PICK p \in Process : Step(p)
    BY <1>2 DEF Next, Step
  <2>2. Alone(p) /\ Holds(p)' /\ Exclusion' /\ Store
    BY <2>1, StepMoves, StepExcludes, StepStore
  <2>3. ASSUME NEW q \in Process, q # p PROVE Holds(q)'
    BY <2>2, <2>3 DEF Alone, StoreInv, Holds, PublisherHolds, RecovererHolds, ReaderHolds, RetainerHolds,
       Locked, Owned, Lock
  <2> QED
    BY <2>2, <2>3 DEF Store, StoreInv
<1> QED
  BY <1>1, <1>2

\* What the pointer names, what a reader pinned and what a stored document cites
\* is whole, for any number of processes and generations.
THEOREM NeededStaysWhole == Spec => []NeededIsWhole
<1>1. StoreInv => NeededIsWhole
  BY DEF StoreInv
<1> QED
  BY <1>1, StoreInit, StoreNext, PTL DEF Spec

\* The index is only written to what the pointer names.
THEOREM IndexIsPointer == Spec => IndexFollowsPointer
<1>1. ASSUME StoreInv, [Next]_vars PROVE [index' # index => index' = pointer']_index
  <2>1. CASE UNCHANGED vars
    BY <2>1 DEF vars, files
  <2>2. CASE Next
    <3>1. PICK p \in Process : Step(p)
      BY <2>2 DEF Next, Step
    <3>2. CASE Index(p)
      BY <1>1, <3>2 DEF Index, At, StoreInv, InHand
    <3>3. CASE Recover(p)
      BY <3>3 DEF Recover, MakeCandidate, files
    <3> QED
      BY <3>1, <3>2, <3>3 DEF Step, Proceed, Acquire, Base, Make, MakeCandidate, Seal, Replace, Resolve,
         Report, Evict, Scan, Erase, Remove, Retained, CitePinned, Unpin, Stop, files
  <2> QED
    BY <1>1, <2>1, <2>2
<1> QED
  BY <1>1, StoreInit, StoreNext, PTL DEF Spec, IndexFollowsPointer

-----------------------------------------------------------------------------
(* The way back from a generation.  Lineage and AncestorsVia follow the     *)
(* parents by a recursive function: it exists, whatever the parents are;    *)
(* since a parent has a lower number, a least counterexample shows all that *)
(* is needed of it.                                                         *)

GenerationOrNone == 0 .. MaxGeneration
Parents == {up \in [Generation -> GenerationOrNone] : \A g \in Generation : up[g] < g}

IsBack(f, up) ==
  f = [g \in 0 .. MaxGeneration |-> IF g = NoGeneration THEN {} ELSE {g} \cup f[up[g]]]

ClosedUnder(up, C) == \A x \in C : up[x] # NoGeneration => up[x] \in C
WithAll(up, g) == {C \in SUBSET Generation : g \in C /\ ClosedUnder(up, C)}
Reached(up, g) == {h \in Generation : \A C \in WithAll(up, g) : h \in C}

LEMMA ReachedStep ==
  ASSUME NEW up \in [Generation -> GenerationOrNone], NEW g \in Generation
  PROVE  Reached(up, g) = {g} \cup (IF up[g] = NoGeneration THEN {} ELSE Reached(up, up[g]))
<1> DEFINE rest == IF up[g] = NoGeneration THEN {} ELSE Reached(up, up[g])
<1>1. up[g] # NoGeneration => up[g] \in Generation
  BY DEF Generation, NoGeneration, GenerationOrNone
<1>2. g \in Reached(up, g)
  BY DEF Reached, WithAll
<1>3. rest \subseteq Reached(up, g)
  <2>1. \A C \in WithAll(up, g) : up[g] # NoGeneration => C \in WithAll(up, up[g])
    BY DEF WithAll, ClosedUnder
  <2> QED
    BY <2>1 DEF Reached
<1>4. Reached(up, g) \subseteq {g} \cup rest
  <2>1. {g} \cup rest \in SUBSET Generation
    BY DEF Reached
  <2>2. ClosedUnder(up, {g} \cup rest)
    <3>1. CASE up[g] = NoGeneration
      BY <3>1 DEF ClosedUnder
    <3>2. CASE up[g] # NoGeneration
      <4>1. up[g] \in Reached(up, up[g])
        BY <1>1, <3>2 DEF Reached, WithAll
      <4>2. ASSUME NEW x \in Reached(up, up[g]), up[x] # NoGeneration
            PROVE  up[x] \in Reached(up, up[g])
        <5>1. x \in Generation /\ up[x] \in Generation
          BY <4>2 DEF Reached, Generation, NoGeneration, GenerationOrNone
        <5>2. \A C \in WithAll(up, up[g]) : x \in C /\ up[x] \in C
          BY <4>2 DEF Reached, WithAll, ClosedUnder
        <5> QED
          BY <5>1, <5>2 DEF Reached
      <4> QED
        BY <3>2, <4>1, <4>2 DEF ClosedUnder
    <3> QED
      BY <3>1, <3>2
  <2>3. {g} \cup rest \in WithAll(up, g)
    BY <2>1, <2>2 DEF WithAll
  <2> QED
    BY <2>3 DEF Reached
<1> QED
  BY <1>2, <1>3, <1>4

LEMMA BackExists ==
  ASSUME NEW up \in [Generation -> GenerationOrNone]
  PROVE  \E f : IsBack(f, up)
<1> DEFINE f == [g \in 0 .. MaxGeneration |-> IF g = NoGeneration THEN {} ELSE Reached(up, g)]
<1>1. ASSUME NEW g \in 0 .. MaxGeneration
      PROVE  f[g] = IF g = NoGeneration THEN {} ELSE {g} \cup f[up[g]]
  <2>1. CASE g = NoGeneration
    BY <2>1
  <2>2. CASE g # NoGeneration
    <3>1. g \in Generation /\ up[g] \in 0 .. MaxGeneration
      BY <2>2 DEF Generation, NoGeneration, GenerationOrNone
    <3>2. f[up[g]] = IF up[g] = NoGeneration THEN {} ELSE Reached(up, up[g])
      BY <3>1
    <3>3. f[g] = Reached(up, g)
      BY <2>2
    <3> HIDE DEF f
    <3> QED
      BY <2>2, <3>1, <3>2, <3>3, ReachedStep
  <2> QED
    BY <2>1, <2>2
<1>2. f = [g \in 0 .. MaxGeneration |-> f[g]]
  OBVIOUS
<1> HIDE DEF f
<1>3. IsBack(f, up)
  BY <1>1, <1>2 DEF IsBack
<1> QED
  BY <1>3

LEMMA BackStep ==
  ASSUME NEW f, NEW up \in Parents, IsBack(f, up)
  PROVE  /\ f[NoGeneration] = {}
         /\ \A g \in Generation :
              /\ f[g] = {g} \cup f[up[g]] /\ up[g] \in GenerationOrNone /\ up[g] < g
              /\ g \in Nat /\ g # NoGeneration
  BY StoreAssumption DEF IsBack, NoGeneration, Generation, Parents, GenerationOrNone

\* Every generation on the way back has a number no higher.
LEMMA BackBelow ==
  ASSUME NEW f, NEW up \in Parents, IsBack(f, up), NEW g \in GenerationOrNone
  PROVE  f[g] \subseteq 1 .. g
<1> DEFINE Bad == {n \in GenerationOrNone : ~(f[n] \subseteq 1 .. n)}
<1> SUFFICES ASSUME Bad # {} PROVE FALSE
  BY Zenon
<1>1. PICK n \in Bad : \A i \in Bad : n <= i
  <2>1. Bad \subseteq Nat
    BY DEF GenerationOrNone
  <2> HIDE DEF Bad
  <2> QED
    BY <2>1, LeastNumber
<1>2. n # NoGeneration
  BY BackStep
<1>3. n \in Generation
  BY <1>2 DEF Generation, GenerationOrNone, NoGeneration
<1>4. f[n] = {n} \cup f[up[n]] /\ up[n] \in GenerationOrNone /\ up[n] < n /\ n \in Nat
  BY <1>3, BackStep
<1>5. up[n] \notin Bad
  <2> HIDE DEF Bad
  <2> QED
    BY <1>1, <1>4 DEF GenerationOrNone
<1>6. f[up[n]] \subseteq 1 .. up[n]
  BY <1>4, <1>5
<1>7. f[n] \subseteq 1 .. n
  <2>1. 1 .. up[n] \subseteq 1 .. n /\ n \in 1 .. n
    BY <1>3, <1>4 DEF Generation, GenerationOrNone
  <2> QED
    BY <1>4, <1>6, <2>1
<1> QED
  BY <1>7

\* Where the parents agree, so does the way back.
LEMMA BackAgrees ==
  ASSUME NEW f, NEW up \in Parents, IsBack(f, up), NEW h, NEW other \in Parents, IsBack(h, other),
         NEW g \in GenerationOrNone, \A x \in f[g] : up[x] = other[x]
  PROVE  f[g] = h[g]
<1> DEFINE Bad == {n \in GenerationOrNone : (\A x \in f[n] : up[x] = other[x]) /\ f[n] # h[n]}
<1> SUFFICES ASSUME Bad # {} PROVE FALSE
  BY Zenon
<1>1. PICK n \in Bad : \A i \in Bad : n <= i
  <2>1. Bad \subseteq Nat
    BY DEF GenerationOrNone
  <2> HIDE DEF Bad
  <2> QED
    BY <2>1, LeastNumber
<1>2. n # NoGeneration
  BY BackStep
<1>3. n \in Generation
  BY <1>2 DEF Generation, GenerationOrNone, NoGeneration
<1>4. /\ f[n] = {n} \cup f[up[n]] /\ up[n] \in GenerationOrNone /\ up[n] < n /\ n \in Nat
      /\ h[n] = {n} \cup h[other[n]]
  BY <1>3, BackStep
<1>5. up[n] = other[n] /\ \A x \in f[up[n]] : up[x] = other[x]
  BY <1>4
<1>6. up[n] \notin Bad
  <2> HIDE DEF Bad
  <2> QED
    BY <1>1, <1>4 DEF GenerationOrNone
<1>7. f[up[n]] = h[up[n]]
  BY <1>4, <1>5, <1>6
<1> QED
  BY <1>4, <1>5, <1>7

\* Lineage is the way back from the pointer.
LEMMA LineageBack ==
  ASSUME NEW up, up = from, up \in Parents, NEW g, g = pointer
  PROVE  \E f : IsBack(f, up) /\ Lineage = f[g]
<1>1. \E f : IsBack(f, from)
  BY BackExists DEF Parents
<1>2. Lineage = (CHOOSE f : IsBack(f, from))[pointer]
  BY Zenon DEF Lineage, IsBack
<1> QED
  BY <1>1, <1>2, Zenon

LEMMA LineageBackNext ==
  ASSUME NEW up, up = from', up \in Parents, NEW g, g = pointer'
  PROVE  \E f : IsBack(f, up) /\ Lineage' = f[g]
<1>1. \E f : IsBack(f, from')
  BY BackExists DEF Parents
<1>2. Lineage' = (CHOOSE f : IsBack(f, from'))[pointer']
  BY Zenon DEF Lineage, IsBack
<1> QED
  BY <1>1, <1>2, Zenon

IsWalk(w, readable) ==
  w = [g \in 0 .. MaxGeneration |->
         IF g = NoGeneration THEN {}
         ELSE {g} \cup (IF dir[g] = "whole" \/ g \in readable THEN w[from[g]] ELSE {})]

LEMMA WalkStep ==
  ASSUME NEW w, NEW readable, IsWalk(w, readable), NEW g \in Generation
  PROVE  w[g] \subseteq {g} \cup w[from[g]]
<1>1. g \in 0 .. MaxGeneration /\ g # NoGeneration
  BY StoreAssumption DEF Generation, NoGeneration
<1>2. w[g] = {g} \cup (IF dir[g] = "whole" \/ g \in readable THEN w[from[g]] ELSE {})
  BY <1>1, Zenon DEF IsWalk
<1> QED
  BY <1>2

\* The walk exists: it is a way back that ends at a manifest that cannot be read.
LEMMA WalkExists ==
  ASSUME from \in Parents, NEW readable
  PROVE  \E w : IsWalk(w, readable)
<1> DEFINE up == [g \in Generation |-> IF dir[g] = "whole" \/ g \in readable THEN from[g] ELSE NoGeneration]
<1>1. up \in [Generation -> GenerationOrNone]
  BY StoreAssumption DEF Parents, GenerationOrNone, NoGeneration
<1>2. \A g \in Generation : up[g] = IF dir[g] = "whole" \/ g \in readable THEN from[g] ELSE NoGeneration
  OBVIOUS
<1> HIDE DEF up
<1>3. PICK w : IsBack(w, up)
  BY <1>1, BackExists
<1>4. w = [g \in 0 .. MaxGeneration |-> w[g]]
      /\ \A g \in 0 .. MaxGeneration : w[g] = IF g = NoGeneration THEN {} ELSE {g} \cup w[up[g]]
  BY <1>3 DEF IsBack
<1>5. w[NoGeneration] = {}
  BY <1>4, StoreAssumption DEF NoGeneration
<1>6. ASSUME NEW g \in 0 .. MaxGeneration, g # NoGeneration
      PROVE  w[g] = {g} \cup (IF dir[g] = "whole" \/ g \in readable THEN w[from[g]] ELSE {})
  <2>1. g \in Generation
    BY <1>6 DEF Generation, NoGeneration
  <2> QED
    BY <1>2, <1>4, <1>5, <1>6, <2>1
<1>7. IsWalk(w, readable)
  BY <1>4, <1>5, <1>6 DEF IsWalk
<1> QED
  BY <1>7

\* The proven ancestors of the pointer are committed generations.
LEMMA AncestorsWithin ==
  ASSUME from \in Parents, pointer \in Generation, NEW readable
  PROVE  AncestorsVia(readable) \subseteq Lineage
<1>1. PICK up : up = from
  OBVIOUS
<1>2. PICK f : IsBack(f, up) /\ Lineage = f[pointer]
  BY <1>1, LineageBack
<1>3. PICK w : IsWalk(w, readable) /\ AncestorsVia(readable) = w[from[pointer]]
  <2>1. AncestorsVia(readable) = (CHOOSE w : IsWalk(w, readable))[from[pointer]]
    BY Zenon DEF AncestorsVia, IsWalk
  <2> QED
    BY <2>1, WalkExists, Zenon
<1> DEFINE Bad == {n \in GenerationOrNone : ~(w[n] \subseteq f[n])}
<1>4. Bad = {}
  <2> SUFFICES ASSUME Bad # {} PROVE FALSE
    OBVIOUS
  <2>1. PICK n \in Bad : \A i \in Bad : n <= i
    <3>1. Bad \subseteq Nat
      BY DEF GenerationOrNone
    <3> HIDE DEF Bad
    <3> QED
      BY <3>1, LeastNumber
  <2>2. w[NoGeneration] = {}
    BY <1>3, StoreAssumption DEF IsWalk, NoGeneration
  <2>3. n \in Generation
    BY <2>2 DEF Generation, GenerationOrNone, NoGeneration
  <2>4. f[n] = {n} \cup f[from[n]] /\ from[n] \in GenerationOrNone /\ from[n] < n /\ n \in Nat
    BY <1>1, <1>2, <2>3, BackStep
  <2>5. w[n] \subseteq {n} \cup w[from[n]]
    BY <1>3, <2>3, WalkStep
  <2>6. from[n] \notin Bad
    <3> HIDE DEF Bad
    <3> QED
      BY <2>1, <2>4 DEF GenerationOrNone
  <2>7. w[from[n]] \subseteq f[from[n]]
    BY <2>4, <2>6
  <2>8. w[n] \subseteq f[n]
    BY <2>4, <2>5, <2>7
  <2> QED
    BY <2>8
<1>5. f[pointer] = {pointer} \cup f[from[pointer]] /\ from[pointer] \in GenerationOrNone
  BY <1>1, <1>2, BackStep
<1>6. w[from[pointer]] \subseteq f[from[pointer]]
  BY <1>4, <1>5
<1> QED
  BY <1>2, <1>3, <1>5, <1>6

-----------------------------------------------------------------------------
(* The line of generations, and the candidates beside it.                   *)

Candidate(p) == pc[p] = "made" \/ Sealed(p)

RecordsTyped ==
  /\ from \in Parents /\ legacy \in BOOLEAN /\ index \in GenerationOrNone
  /\ todo \in [Process -> SUBSET Generation]

\* A candidate is nobody else's, off the line, made from what its maker planned for;
\* retention has only committed generations in hand that nobody needs.
OffTheLine(p) == Candidate(p) => from[own[p]] = plan[p] /\ own[p] \notin Lineage
Disposable(p) == pc[p] = "erase" => todo[p] \subseteq Lineage \ Protected

LineInv ==
  /\ RecordsTyped
  /\ pointer <= made
  /\ \A p \in Process : plan[p] <= made /\ (p \in Reader => pin[p] <= made)
  /\ \A p \in Process : OffTheLine(p) /\ Disposable(p)
  /\ \A p, q \in Process : p # q /\ Candidate(p) /\ Candidate(q) => own[p] # own[q]

LEMMA LineBelow ==
  ASSUME StoreInv, from \in Parents
  PROVE  Lineage \subseteq 1 .. pointer /\ Lineage \subseteq Generation
<1>1. PICK up, g : up = from /\ g = pointer
  OBVIOUS
<1>2. pointer \in GenerationOrNone
  BY DEF StoreInv, StoreTyped, GenerationOrNone
<1>3. Lineage \subseteq 1 .. pointer
  BY <1>1, <1>2, LineageBack, BackBelow
<1> QED
  BY <1>2, <1>3, StoreAssumption DEF GenerationOrNone, Generation

\* Which steps write a manifest or the pointer.
LEMMA WhoWrites ==
  ASSUME NEW p \in Process, Step(p)
  PROVE  /\ MakeCandidate(p) \/ (from' = from /\ made' = made)
         /\ Replace(p) \/ pointer' = pointer
         /\ legacy' = legacy
  BY DEF Step, Proceed, Acquire, Base, Make, MakeCandidate, Seal, Replace, Index, Recover, Resolve,
     Report, Evict, Scan, Erase, Remove, Retained, CitePinned, Unpin, Stop, files

LEMMA RecordsKept ==
  ASSUME StoreInv, LineInv, NEW p \in Process, Step(p)
  PROVE  RecordsTyped' /\ made' >= made /\ made \in Nat /\ made' \in Nat
<1>1. StoreTyped /\ RecordsTyped /\ LocalTyped /\ (\A q \in Process : plan[q] <= made) /\ InHand(p)
  BY DEF StoreInv, StoreTyped, LocalTyped, LineInv
<1>2. /\ from' \in Parents /\ made' >= made /\ made \in Nat /\ made' \in Nat
  <2>1. CASE MakeCandidate(p)
    <3>1. /\ made' = made + 1 /\ from' = [from EXCEPT ![made + 1] = plan[p]]
          /\ made + 1 \in Generation /\ plan[p] \in GenerationOrNone /\ plan[p] < made + 1
          /\ made \in Nat
      BY <1>1, <2>1, StoreAssumption DEF MakeCandidate, StoreTyped, Generation, GenerationOrNone
    <3>2. from' \in [Generation -> GenerationOrNone] /\ \A g \in Generation : from'[g] < g
      BY <1>1, <3>1 DEF RecordsTyped, Parents
    <3> QED
      BY <3>1, <3>2 DEF Parents
  <2>2. CASE from' = from /\ made' = made
    BY <1>1, <2>2, StoreAssumption DEF RecordsTyped, StoreTyped
  <2> QED
    BY <2>1, <2>2, WhoWrites
<1>3. legacy' \in BOOLEAN
  BY <1>1, WhoWrites DEF RecordsTyped
<1>4. index' \in GenerationOrNone
  <2>1. index' \in {index, pointer, own[p]}
    BY DEF Step, Proceed, Acquire, Base, Make, MakeCandidate, Seal, Replace, Index, Recover, Resolve,
       Report, Evict, Scan, Erase, Remove, Retained, CitePinned, Unpin, Stop, files
  <2> QED
    BY <1>1, <2>1 DEF RecordsTyped, StoreTyped, GenerationOrNone
<1>5. todo' \in [Process -> SUBSET Generation]
  <2>1. \/ todo' = todo \/ \E S \in SUBSET Generation : todo' = [todo EXCEPT ![p] = S]
    <3>1. CASE Scan(p)
      <4>1. \/ End(p)
            \/ /\ pointer # NoGeneration
               /\ \E readable : \E S \in SUBSET (AncestorsVia(readable) \ Protected) :
                    todo' = [todo EXCEPT ![p] = S]
        BY <3>1 DEF Scan
      <4>2. pointer # NoGeneration => \A readable : AncestorsVia(readable) \subseteq Generation
        BY <1>1, AncestorsWithin, LineBelow DEF StoreTyped, RecordsTyped, Generation, NoGeneration
      <4> QED
        BY <4>1, <4>2 DEF End, Forget
    <3>2. CASE Remove(p)
      BY <1>1, <3>2 DEF Remove, RecordsTyped
    <3>3. CASE ~Scan(p) /\ ~Remove(p)
      <4>1. End(p) \/ todo' = todo
        BY <3>3 DEF Step, Proceed, Acquire, Base, Make, MakeCandidate, Seal, Replace, Index, Recover,
           Resolve, Report, Evict, Erase, Retained, CitePinned, Unpin, Stop, locals
      <4> QED
        BY <4>1 DEF End, Forget
    <3> QED
      BY <3>1, <3>2, <3>3
  <2> QED
    BY <1>1, <2>1 DEF RecordsTyped
<1> QED
  BY <1>2, <1>3, <1>4, <1>5 DEF RecordsTyped

\* The line stays as it is, or grows by the candidate that was made from its end.
LEMMA LineMoves ==
  ASSUME StoreInv, LineInv, NEW p \in Process, Step(p)
  PROVE  /\ \A g \in Generation : g <= made => from'[g] = from[g]
         /\ \/ Lineage' = Lineage /\ pointer' = pointer
            \/ /\ Replace(p) /\ pc[p] = "commit" /\ own[p] \in Generation /\ own[p] \notin Lineage
               /\ pointer' = own[p] /\ from' = from /\ from[own[p]] = pointer
               /\ Lineage' = Lineage \cup {own[p]}
<1>1. /\ StoreTyped /\ RecordsTyped /\ RecordsTyped' /\ InHand(p) /\ OffTheLine(p)
      /\ pointer <= made /\ pointer \in GenerationOrNone
  BY RecordsKept DEF StoreInv, StoreTyped, LineInv, GenerationOrNone
<1>2. PICK up, g : up = from /\ g = pointer
  OBVIOUS
<1>3. PICK f : IsBack(f, up) /\ Lineage = f[g]
  BY <1>1, <1>2, LineageBack DEF RecordsTyped
<1>4. PICK up2, g2 : up2 = from' /\ g2 = pointer'
  OBVIOUS
<1>5. PICK h : IsBack(h, up2) /\ Lineage' = h[g2]
  BY <1>1, <1>4, LineageBackNext DEF RecordsTyped
<1>6. \A x \in Generation : x <= made => up2[x] = up[x]
  <2>1. CASE MakeCandidate(p)
    BY <1>1, <1>2, <1>4, <2>1, StoreAssumption
       DEF MakeCandidate, RecordsTyped, Parents, StoreTyped, Generation
  <2> QED
    BY <1>2, <1>4, <2>1, WhoWrites
<1>7. f[g] = h[g]
  <2>1. f[g] \subseteq 1 .. pointer /\ f[g] \subseteq Generation
    BY <1>1, <1>2, <1>3, LineBelow DEF RecordsTyped
  <2>2. \A x \in f[g] : x <= made
    BY <1>1, <2>1, StoreAssumption DEF StoreTyped, GenerationOrNone
  <2>3. \A x \in f[g] : up[x] = up2[x]
    BY <1>6, <2>1, <2>2
  <2> QED
    BY <1>1, <1>2, <1>3, <1>4, <1>5, <2>3, BackAgrees DEF RecordsTyped
<1>8. CASE Replace(p)
  <2>1. pc[p] = "commit" /\ pointer = plan[p] /\ pointer' = own[p] /\ from' = from
    BY <1>8 DEF Replace, At
  <2>2. own[p] \in Generation /\ from[own[p]] = pointer /\ own[p] \notin Lineage
    BY <1>1, <2>1, StoreAssumption DEF InHand, OffTheLine, Candidate, Sealed, StoreTyped, Generation
  <2>3. h[g2] = {own[p]} \cup h[pointer]
    BY <1>1, <1>4, <1>5, <2>1, <2>2, BackStep DEF RecordsTyped
  <2> QED
    BY <1>2, <1>3, <1>4, <1>5, <1>6, <1>7, <1>8, <2>1, <2>2, <2>3
<1>9. CASE pointer' = pointer
  BY <1>2, <1>3, <1>4, <1>5, <1>6, <1>7, <1>9
<1> QED
  BY <1>8, <1>9, WhoWrites

LEMMA BoundsKept ==
  ASSUME StoreInv, LineInv, NEW p \in Process, Step(p)
  PROVE  /\ pointer' <= made'
         /\ \A q \in Process : plan'[q] <= made' /\ (q \in Reader => pin'[q] <= made')
<1>1. /\ StoreTyped /\ LocalTyped /\ LocalTyped' /\ Alone(p) /\ InHand(p) /\ Holds(p) /\ RecordsTyped
      /\ made' >= made /\ made \in Nat /\ made' \in Nat /\ pointer \in Nat /\ pointer <= made
      /\ \A q \in Process : plan[q] <= made /\ (q \in Reader => pin[q] <= made)
      /\ plan'[p] \in Nat /\ (p \in Reader => pin'[p] \in Nat)
  BY StepMoves, RecordsKept DEF StoreInv, StoreTyped, LocalTyped, LineInv
<1>2. pointer' <= made'
  BY <1>1, WhoWrites DEF Replace, At, InHand, Sealed
<1>3. plan'[p] <= made
  <2>1. CASE End(p)
    BY <1>1, <2>1, EndDoes DEF NoGeneration
  <2>2. CASE Base(p) /\ ~End(p)
    <3>1. plan' = [plan EXCEPT ![p] = pointer]
      BY <2>2 DEF Base
    <3> QED
      BY <1>1, <3>1 DEF LocalTyped
  <2>3. CASE Unpin(p)
    <3>1. plan' = [plan EXCEPT ![p] = pin[p]] /\ p \in Reader
      BY <1>1, <2>3, OnePart
         DEF Unpin, At, Holds, PublisherHolds, RecovererHolds, RetainerHolds
    <3> QED
      BY <1>1, <3>1 DEF LocalTyped
  <2>4. CASE plan' = plan
    BY <1>1, <2>4
  <2> QED
    BY <2>1, <2>2, <2>3, <2>4 DEF Step, Proceed, Acquire, Make, MakeCandidate, Seal, Replace, Index, Recover,
       Resolve, Report, Evict, Scan, Erase, Remove, Retained, CitePinned, Stop, locals
<1>4. p \in Reader => pin'[p] <= made
  <2> SUFFICES ASSUME p \in Reader PROVE pin'[p] <= made
    OBVIOUS
  <2>1. CASE End(p)
    BY <1>1, <2>1, EndDoes DEF NoGeneration
  <2>2. CASE Resolve(p) /\ ~End(p)
    <3>1. PICK g \in Lineage : pin' = [pin EXCEPT ![p] = g]
      BY <2>2 DEF Resolve
    <3>2. g \in 1 .. pointer
      BY <1>1, <3>1, LineBelow DEF RecordsTyped
    <3> QED
      BY <1>1, <3>1, <3>2 DEF LocalTyped
  <2>3. CASE Unpin(p)
    BY <1>1, <2>3 DEF Unpin, LocalTyped, NoGeneration
  <2>4. CASE pin' = pin
    BY <1>1, <2>4
  <2> QED
    BY <2>1, <2>2, <2>3, <2>4 DEF Step, Proceed, Acquire, Base, Make, MakeCandidate, Seal, Replace, Index,
       Recover, Report, Evict, Scan, Erase, Remove, Retained, CitePinned, Stop, locals
<1>5. ASSUME NEW q \in Process PROVE plan'[q] <= made' /\ (q \in Reader => pin'[q] <= made')
  <2>1. plan'[q] <= made /\ (q \in Reader => pin'[q] <= made)
    BY <1>1, <1>3, <1>4 DEF Alone
  <2>2. plan'[q] \in Nat /\ (q \in Reader => pin'[q] \in Nat)
    BY <1>1 DEF LocalTyped
  <2> QED
    BY <1>1, <2>1, <2>2
<1> QED
  BY <1>2, <1>5

\* A candidate is new, or was one before and is not committed by this step.
LEMMA CandidateStep ==
  ASSUME StoreInv, NEW p \in Process, Step(p), Candidate(p)'
  PROVE  \/ MakeCandidate(p)
         \/ /\ Candidate(p) /\ own'[p] = own[p] /\ plan'[p] = plan[p]
            /\ from' = from /\ ~Replace(p)
<1>1. LocalTyped /\ Holds(p)
  BY DEF StoreInv, StoreTyped, LocalTyped
<1>2. pc'[p] \in {"made", "commit"} \/ (p \in Publisher /\ pc'[p] = "publication")
  BY DEF Candidate, Sealed
<1>3. ~End(p)
  BY <1>1, <1>2, EndDoes
<1>4. ASSUME NEW label \in Label, Goto(p, label) PROVE pc'[p] = label
  BY <1>1, <1>4 DEF Goto, LocalTyped
<1>5. CASE Acquire(p)
  <2>1. PICK k \in Lock : pc[p] = k /\ Goto(p, After(p, k)) /\ UNCHANGED <<files, locals>>
    BY <1>5 DEF Acquire, At
  <2>2. After(p, k) \in Label
    BY DEF After, Label, Lock
  <2>3. pc'[p] = After(p, k)
    BY <1>4, <2>1, <2>2
  <2>4. p \in Publisher /\ k = "publication"
    BY <1>2, <2>3, OnePart DEF After, Lock
  <2> QED
    BY <1>5, <2>1, <2>4 DEF Candidate, Sealed, Replace, At, files, locals
<1>6. CASE Seal(p)
  BY <1>6 DEF Seal, At, Candidate, Replace, files, locals
<1>7. ~Base(p) /\ ~Replace(p) /\ ~Resolve(p) /\ ~Unpin(p) /\ ~Scan(p)
  BY <1>2, <1>3, <1>4 DEF Base, Replace, Resolve, Unpin, Scan, Label, Lock
<1>8. ~Evict(p)
  <2> SUFFICES ASSUME Evict(p) PROVE FALSE
    OBVIOUS
  <2>1. pc'[p] = "publication" /\ pc[p] = "evict"
    BY <1>3, <1>4 DEF Evict, At, Label, Lock
  <2> QED
    BY <1>1, <1>2, <2>1 DEF Holds, PublisherHolds
<1>9. ~Erase(p) /\ ~Remove(p) /\ ~CitePinned(p)
  <2> SUFFICES ASSUME Erase(p) \/ Remove(p) \/ CitePinned(p) PROVE FALSE
    OBVIOUS
  <2>1. pc' = pc /\ pc[p] \in {"erase", "reading"}
    BY <1>3 DEF Erase, Remove, CitePinned, At
  <2> QED
    BY <1>2, <2>1
<1> QED
  BY <1>3, <1>5, <1>6, <1>7, <1>8, <1>9 DEF Step, Proceed, Make, Index, Recover, Report, Retained, Stop

LEMMA CandidatesKept ==
  ASSUME StoreInv, LineInv, NEW p \in Process, Step(p)
  PROVE  /\ \A q \in Process : OffTheLine(q)'
         /\ \A q, r \in Process : q # r /\ Candidate(q)' /\ Candidate(r)' => own'[q] # own'[r]
<1>1. /\ StoreTyped /\ RecordsTyped /\ Alone(p) /\ made \in Nat /\ pointer \in Nat /\ pointer <= made
      /\ \A q \in Process : Candidate(q) => own[q] \in 1 .. made /\ own[q] \in Generation
      /\ \A q \in Process : OffTheLine(q)
      /\ \A q, r \in Process : q # r /\ Candidate(q) /\ Candidate(r) => own[q] # own[r]
      /\ Lineage \subseteq 1 .. pointer
  <2>1. made \in Nat /\ made <= MaxGeneration /\ MaxGeneration \in Nat
    BY StoreAssumption DEF StoreInv, StoreTyped
  <2>2. \A q \in Process : Candidate(q) => own[q] \in 1 .. made
    BY DEF StoreInv, InHand, Candidate
  <2>3. 1 .. made \subseteq Generation
    BY <2>1 DEF Generation
  <2> QED
    BY <2>1, <2>2, <2>3, StepMoves, LineBelow DEF StoreInv, StoreTyped, LineInv, RecordsTyped
<1>2. ASSUME NEW q \in Process, q # p
      PROVE  own'[q] = own[q] /\ plan'[q] = plan[q] /\ (Candidate(q)' <=> Candidate(q))
  BY <1>1, <1>2 DEF Alone, Candidate, Sealed
<1>3. ASSUME NEW q \in Process, q # p PROVE OffTheLine(q)'
  <2> SUFFICES ASSUME Candidate(q) PROVE from'[own[q]] = plan[q] /\ own[q] \notin Lineage'
    BY <1>2, <1>3 DEF OffTheLine
  <2>1. from'[own[q]] = plan[q]
    BY <1>1, LineMoves DEF OffTheLine
  <2>2. own[q] \notin Lineage /\ (pc[p] = "commit" => own[q] # own[p])
    BY <1>1, <1>3 DEF OffTheLine, Candidate, Sealed
  <2>3. Lineage' = Lineage \/ (pc[p] = "commit" /\ Lineage' = Lineage \cup {own[p]})
    BY LineMoves
  <2> QED
    BY <2>1, <2>2, <2>3
<1>4. CASE MakeCandidate(p)
  <2>1. /\ own' = [own EXCEPT ![p] = made + 1] /\ from' = [from EXCEPT ![made + 1] = plan[p]]
        /\ plan' = plan /\ made' = made + 1 /\ made + 1 \in Generation
    BY <1>1, <1>4, StoreAssumption DEF MakeCandidate, StoreTyped, Generation
  <2>2. own'[p] = made + 1 /\ from'[made + 1] = plan'[p]
    BY <1>1, <2>1 DEF StoreTyped, RecordsTyped, Parents
  <2>3. ~Replace(p)
    BY <1>1, <2>1 DEF Replace
  <2>4. Lineage' = Lineage /\ made + 1 \notin Lineage
    BY <1>1, <2>3, LineMoves
  <2>5. \A q \in Process : q # p /\ Candidate(q) => own[q] # made + 1
    BY <1>1
  <2> QED
    BY <1>1, <1>2, <1>3, <2>2, <2>4, <2>5 DEF OffTheLine
<1>5. CASE ~MakeCandidate(p)
  <2>1. Candidate(p)' => /\ Candidate(p) /\ own'[p] = own[p] /\ plan'[p] = plan[p]
                         /\ from' = from /\ Lineage' = Lineage
    BY <1>5, CandidateStep, LineMoves
  <2> QED
    BY <1>1, <1>2, <1>3, <2>1 DEF OffTheLine
<1> QED
  BY <1>4, <1>5

\* What becomes cited is current, or pinned by who cites it.
LEMMA WhoCites ==
  ASSUME NEW p \in Process, Step(p)
  PROVE  cited' \subseteq cited \cup {pointer} \/ (pc[p] = "reading" /\ CitePinned(p))
  BY DEF Step, Proceed, Acquire, Base, Make, MakeCandidate, Seal, Replace, Index, Recover, Resolve,
     Report, ResolvesTo, Evict, Scan, Erase, Remove, Retained, CitePinned, Unpin, Stop, files, At

LEMMA DisposableKept ==
  ASSUME StoreInv, LineInv, NEW p \in Process, Step(p), NEW q \in Process
  PROVE  Disposable(q)'
<1>1. /\ StoreTyped /\ LocalTyped /\ RecordsTyped /\ Alone(p) /\ pointer \in GenerationOrNone
      /\ pointer <= made /\ Disposable(q) /\ Lineage \subseteq 1 .. pointer
  BY StepMoves, LineBelow DEF StoreInv, StoreTyped, LocalTyped, LineInv, GenerationOrNone, RecordsTyped
<1> SUFFICES ASSUME pc'[q] = "erase" PROVE todo'[q] \subseteq Lineage' \ Protected'
  BY DEF Disposable
<1>2. ASSUME ~Replace(p), todo'[q] \subseteq Lineage \ Protected, cited' \subseteq cited \cup {pointer}
      PROVE  todo'[q] \subseteq Lineage' \ Protected'
  <2>1. Lineage' = Lineage /\ pointer' = pointer
    BY <1>2, LineMoves
  <2>2. CASE pointer = NoGeneration
    <3>1. Lineage = {}
      BY <1>1, <2>2 DEF NoGeneration
    <3> QED
      BY <1>2, <3>1
  <2>3. CASE pointer # NoGeneration
    <3>1. pointer \in Generation
      BY <1>1, <2>3 DEF GenerationOrNone, Generation, NoGeneration
    <3>2. from'[pointer] = from[pointer]
      BY <1>1, <3>1, LineMoves
    <3> QED
      BY <1>2, <2>1, <3>2 DEF Protected
  <2> QED
    BY <2>2, <2>3
<1>3. CASE q # p
  <2>1. pc[q] = "erase" /\ todo'[q] = todo[q]
    BY <1>1, <1>3 DEF Alone
  <2>2. pc[p] \notin {"commit", "reading"}
    BY <1>3, <2>1, EraserAlone DEF Sealed
  <2>3. ~Replace(p) /\ cited' \subseteq cited \cup {pointer}
    BY <2>2, WhoCites DEF Replace, At
  <2> QED
    BY <1>1, <1>2, <2>1, <2>3 DEF Disposable
<1>4. CASE q = p
  <2>1. ~End(p)
    BY <1>1, <1>4, EndDoes
  <2>2. ASSUME NEW label \in Label, Goto(p, label) PROVE label = "erase"
    BY <1>1, <1>4, <2>2 DEF Goto, LocalTyped
  <2>3. CASE Scan(p)
    <3>1. pointer # NoGeneration
          /\ \E readable : \E S \in SUBSET (AncestorsVia(readable) \ Protected) : todo' = [todo EXCEPT ![p] = S]
      BY <2>1, <2>3 DEF Scan
    <3>2. pointer \in Generation
      BY <1>1, <3>1 DEF GenerationOrNone, Generation, NoGeneration
    <3>3. todo'[p] \subseteq Lineage \ Protected
      BY <1>1, <3>1, <3>2, AncestorsWithin DEF RecordsTyped
    <3>4. ~Replace(p) /\ cited' = cited
      BY <2>3 DEF Scan, Replace, At, files
    <3> QED
      BY <1>2, <1>4, <3>3, <3>4
  <2>4. CASE Erase(p) \/ Remove(p)
    <3>1. pc[p] = "erase" /\ todo'[p] \subseteq todo[p] /\ cited' = cited /\ ~Replace(p)
      BY <1>1, <2>1, <2>4 DEF Erase, Remove, At, Replace, locals, RecordsTyped
    <3> QED
      BY <1>1, <1>2, <1>4, <3>1 DEF Disposable
  <2>5. ~CitePinned(p)
    BY <1>4 DEF CitePinned, At
  <2>6. ~Acquire(p)
    BY <2>2 DEF Acquire, After, Lock, Label
  <2>7. ~Seal(p)
    BY <2>2 DEF Seal, AfterSeal, Lock, Label
  <2>8. ~MakeCandidate(p) /\ ~Replace(p) /\ ~Resolve(p) /\ ~Unpin(p) /\ ~Evict(p) /\ ~Base(p)
    BY <2>1, <2>2 DEF MakeCandidate, Replace, Resolve, Unpin, Evict, Base, Lock, Label
  <2> QED
    BY <2>1, <2>3, <2>4, <2>5, <2>6, <2>7, <2>8
       DEF Step, Proceed, Make, Index, Recover, Report, Retained, Stop
<1> QED
  BY <1>3, <1>4

LEMMA LineInit == Init => LineInv
<1> SUFFICES ASSUME Init PROVE LineInv
  OBVIOUS
<1>1. /\ pointer \in 0 .. MaxGeneration /\ made = pointer /\ index = pointer /\ pointer \in Nat
      /\ legacy \in BOOLEAN
  BY StoreAssumption DEF Init, NoGeneration
<1>2. /\ from = [g \in Generation |-> IF g <= pointer THEN g - 1 ELSE NoGeneration]
      /\ pc = [p \in Process |-> CASE p \in Reader -> "lifetime" [] p \in Retainer -> "evict" [] OTHER -> "review"]
      /\ plan = [p \in Process |-> NoGeneration]
      /\ pin = [r \in Reader |-> NoGeneration] /\ todo = [p \in Process |-> {}]
  BY DEF Init
<1>3. from \in Parents
  <2>1. \A g \in Generation : from[g] \in GenerationOrNone /\ from[g] < g
    BY <1>1, <1>2, StoreAssumption DEF Generation, GenerationOrNone, NoGeneration
  <2>2. from = [g \in Generation |-> from[g]]
    BY <1>2
  <2> QED
    BY <2>1, <2>2 DEF Parents
<1>4. RecordsTyped
  BY <1>1, <1>2, <1>3 DEF RecordsTyped, GenerationOrNone
<1>5. ASSUME NEW p \in Process PROVE plan[p] <= made /\ (p \in Reader => pin[p] <= made)
  BY <1>1, <1>2 DEF NoGeneration
<1>6. ASSUME NEW p \in Process PROVE ~Candidate(p) /\ pc[p] # "erase"
  <2>1. pc[p] \in {"lifetime", "evict", "review"}
    BY <1>2
  <2> QED
    BY <2>1 DEF Candidate, Sealed
<1>7. pointer <= made
  BY <1>1
<1> QED
  BY <1>4, <1>5, <1>6, <1>7 DEF LineInv, OffTheLine, Disposable

LEMMA LineageStays == ASSUME UNCHANGED <<from, pointer>> PROVE Lineage' = Lineage
  BY Zenon DEF Lineage

LEMMA LineNext == StoreInv /\ LineInv /\ [Next]_vars => LineInv'
<1> SUFFICES ASSUME StoreInv, LineInv, [Next]_vars PROVE LineInv'
  OBVIOUS
<1>1. CASE UNCHANGED vars
  <2>1. Lineage' = Lineage
    BY <1>1, LineageStays DEF vars, files
  <2> QED
    BY <1>1, <2>1 DEF vars, files, locals, LineInv, RecordsTyped, OffTheLine, Disposable, Protected,
       Candidate, Sealed
<1>2. CASE Next
  <2>1. PICK p \in Process : Step(p)
    BY <1>2 DEF Next, Step
  <2>2. RecordsTyped'
    BY <2>1, RecordsKept
  <2>3. pointer' <= made' /\ \A q \in Process : plan'[q] <= made' /\ (q \in Reader => pin'[q] <= made')
    BY <2>1, BoundsKept
  <2>4. \A q \in Process : OffTheLine(q)' /\ Disposable(q)'
    BY <2>1, CandidatesKept, DisposableKept
  <2>5. \A q, r \in Process : q # r /\ Candidate(q)' /\ Candidate(r)' => own'[q] # own'[r]
    BY <2>1, CandidatesKept
  <2> QED
    BY <2>2, <2>3, <2>4, <2>5 DEF LineInv
<1> QED
  BY <1>1, <1>2

\* The records of the store have their types: no directory is numbered beyond the
\* last, no parent, plan, pin or selection of retention is anything but a generation.
THEOREM StoreTypeCorrect == Spec => []TypeOK
<1>1. StoreInv /\ LineInv => TypeOK
  BY DEF StoreInv, LineInv, StoreTyped, RecordsTyped, TypeOK, Label, GenerationOrNone, Parents
<1> QED
  BY <1>1, StoreInit, StoreNext, LineInit, LineNext, PTL DEF Spec

-----------------------------------------------------------------------------
(* The store implements the register: Replace commits, Resolve pins, the    *)
(* end of a request unpins, corrections, reports and playlists cite, the    *)
(* first step of an erasure retires, and no other step is seen.             *)

Parent == [g \in Generation |-> IF g \in Lineage THEN from[g] ELSE NoGeneration]
Kept == {g \in Lineage : dir[g] = "whole"}

LEMMA RegisterVars ==
  /\ Register!vars = <<pointer, Lineage, Parent, Kept, pin, cited>>
  /\ Register!vars' = <<pointer', Lineage', Parent', Kept', pin', cited'>>
  /\ Register!Generation = Generation /\ Register!NoGeneration = NoGeneration
  BY DEF Register!vars, Parent, Kept, Register!Generation, Generation, Register!NoGeneration, NoGeneration

LEMMA RegisterCommits ==
  ASSUME NEW g \in Generation, g \notin Lineage, pointer' = g, Lineage' = Lineage \cup {g},
         Parent' = [Parent EXCEPT ![g] = pointer], Kept' = Kept \cup {g}, UNCHANGED <<pin, cited>>
  PROVE  Register!Next
<1>1. Register!Commit(g)
  BY DEF Register!Commit, Parent, Kept
<1> QED
  BY <1>1, RegisterVars DEF Register!Next

LEMMA RegisterPins ==
  ASSUME NEW r \in Reader, NEW g \in Generation, pin[r] = NoGeneration, g \in Kept,
         pin' = [pin EXCEPT ![r] = g], UNCHANGED <<pointer, Lineage, Parent, Kept, cited>>
  PROVE  Register!Next
<1>1. Register!Pin(r, g)
  BY RegisterVars DEF Register!Pin, Parent, Kept
<1> QED
  BY <1>1, RegisterVars DEF Register!Next

LEMMA RegisterUnpins ==
  ASSUME NEW r \in Reader, pin[r] # NoGeneration,
         pin' = [pin EXCEPT ![r] = NoGeneration], UNCHANGED <<pointer, Lineage, Parent, Kept, cited>>
  PROVE  Register!Next
<1>1. Register!Unpin(r)
  BY RegisterVars DEF Register!Unpin, Parent, Kept
<1> QED
  BY <1>1, RegisterVars DEF Register!Next

LEMMA RegisterCites ==
  ASSUME NEW g \in Generation, g = pointer \/ \E r \in Reader : pin[r] = g,
         cited' = cited \cup {g}, UNCHANGED <<pointer, Lineage, Parent, Kept, pin>>
  PROVE  Register!Next
<1>1. Register!Cite(g)
  BY DEF Register!Cite, Parent, Kept
<1> QED
  BY <1>1, RegisterVars DEF Register!Next

LEMMA RegisterRetires ==
  ASSUME NEW g \in Generation, g \in Kept, g \notin cited, g # pointer,
         pointer # NoGeneration => g # Parent[pointer], \A r \in Reader : pin[r] # g,
         Kept' = Kept \ {g}, UNCHANGED <<pointer, Lineage, Parent, pin, cited>>
  PROVE  Register!Next
<1>1. g # Register!Rollback
  BY RegisterVars DEF Register!Rollback, Parent, Generation, NoGeneration
<1>2. Register!Retire(g)
  BY <1>1 DEF Register!Retire, Parent, Kept
<1> QED
  BY <1>2, RegisterVars DEF Register!Next

\* A committed generation keeps its parent; the pointer is the last of the line.
LEMMA LineFacts ==
  ASSUME StoreInv, LineInv
  PROVE  /\ Lineage \subseteq Generation /\ \A g \in Lineage : g <= made /\ g \in Nat
         /\ pointer # NoGeneration => pointer \in Lineage /\ pointer \in Generation
         /\ made \in Nat
<1>1. StoreTyped /\ RecordsTyped /\ pointer <= made /\ pointer \in Nat /\ made \in Nat
      /\ pointer \in GenerationOrNone
  BY StoreAssumption DEF StoreInv, StoreTyped, LineInv, GenerationOrNone
<1>2. Lineage \subseteq 1 .. pointer /\ Lineage \subseteq Generation
  BY <1>1, LineBelow DEF RecordsTyped
<1>3. pointer # NoGeneration => pointer \in Generation
  BY <1>1 DEF GenerationOrNone, Generation, NoGeneration
<1>4. PICK up, g : up = from /\ g = pointer
  OBVIOUS
<1>5. PICK f : IsBack(f, up) /\ Lineage = f[g]
  BY <1>1, <1>4, LineageBack DEF RecordsTyped
<1>6. pointer # NoGeneration => pointer \in Lineage
  BY <1>1, <1>3, <1>4, <1>5, BackStep DEF RecordsTyped
<1> QED
  BY <1>1, <1>2, <1>3, <1>6

LEMMA LineFrame ==
  ASSUME StoreInv, LineInv, NEW p \in Process, Step(p), ~Replace(p)
  PROVE  pointer' = pointer /\ Lineage' = Lineage /\ Parent' = Parent
<1>1. pointer' = pointer /\ Lineage' = Lineage
  BY LineMoves
<1>2. \A g \in Lineage : from'[g] = from[g]
  BY LineMoves, LineFacts
<1> QED
  BY <1>1, <1>2 DEF Parent

LEMMA ReplaceCommits ==
  ASSUME StoreInv, LineInv, NEW p \in Process, Step(p), Replace(p)
  PROVE  Register!Next
<1>1. made' = made /\ dir' = dir /\ pin' = pin /\ cited' = cited /\ pc[p] = "commit" /\ pointer' = own[p]
  BY DEF Replace, locals, At
<1>2. OffTheLine(p) /\ InHand(p) /\ made \in 0 .. MaxGeneration
  BY DEF LineInv, StoreInv, StoreTyped
<1>3. own[p] \in Generation /\ own[p] \notin Lineage /\ dir[own[p]] = "whole" /\ own[p] # NoGeneration
  BY <1>1, <1>2, StoreAssumption DEF OffTheLine, InHand, Candidate, Generation, Sealed, NoGeneration
<1>4. pointer' # pointer
  BY <1>1, <1>3, LineFacts
<1>5. from' = from /\ from[own[p]] = pointer /\ Lineage' = Lineage \cup {own[p]}
  BY <1>4, LineMoves
<1>6. Parent' = [Parent EXCEPT ![own[p]] = pointer]
  <2>1. Parent' = [g \in Generation |-> IF g \in Lineage \cup {own[p]} THEN from[g] ELSE NoGeneration]
    BY <1>5 DEF Parent
  <2> QED
    BY <1>3, <1>5, <2>1 DEF Parent
<1>7. Kept' = Kept \cup {own[p]}
  BY <1>1, <1>3, <1>5 DEF Kept
<1> QED
  BY <1>1, <1>3, <1>5, <1>6, <1>7, RegisterCommits

LEMMA EraseRetires ==
  ASSUME StoreInv, LineInv, NEW p \in Process, Step(p), Erase(p), dir' # dir
  PROVE  Register!Next
<1>1. PICK g \in todo[p] : dir[g] = "whole" /\ dir' = [dir EXCEPT ![g] = "partial"]
  BY DEF Erase, files
<1>2. /\ pc[p] = "erase" /\ pin' = pin /\ cited' = cited /\ pointer' = pointer /\ made' = made
      /\ from' = from
  BY DEF Erase, At, locals, files
<1>3. Disposable(p) /\ Holds(p) /\ dir \in [Generation -> {"absent", "partial", "whole"}]
  BY DEF LineInv, StoreInv, StoreTyped
<1>4. g \in Lineage /\ g \notin Protected /\ g \in Generation
  BY <1>1, <1>2, <1>3, LineFacts DEF Disposable
<1>5. Lineage' = Lineage /\ Parent' = Parent
  <2>1. Lineage' = Lineage
    BY <1>2, LineageStays
  <2> QED
    BY <1>2, <2>1 DEF Parent
<1>6. g \in Kept /\ Kept' = Kept \ {g}
  BY <1>1, <1>3, <1>4, <1>5 DEF Kept
<1>7. pointer # NoGeneration => g # Parent[pointer]
  BY <1>4, LineFacts DEF Parent, Protected
<1>8. ASSUME NEW r \in Reader PROVE pin[r] # g
  <2>1. r # p /\ r \in Process
    BY <1>2, <1>3, <1>8, ReaderProcess DEF Holds, ReaderHolds
  <2>2. pin[r] = NoGeneration
    BY <1>2, <1>8, <2>1, EraserAlone
  <2> QED
    BY <1>4, <2>2 DEF Generation, NoGeneration
<1> QED
  BY <1>2, <1>4, <1>5, <1>6, <1>7, <1>8, RegisterRetires DEF Protected

\* Making, sealing and removing a directory does not show.
LEMMA KeptStays ==
  ASSUME StoreInv, LineInv, NEW p \in Process, Step(p), ~Replace(p), Erase(p) => dir' = dir
  PROVE  Kept' = Kept
<1>1. Lineage' = Lineage /\ Lineage \subseteq Generation /\ \A g \in Lineage : g <= made /\ g \in Nat
  BY LineFrame, LineFacts
<1>2. dir \in [Generation -> {"absent", "partial", "whole"}] /\ made \in Nat
      /\ InHand(p) /\ OffTheLine(p)
  BY LineFacts DEF StoreInv, StoreTyped, LineInv
<1>3. \A g \in Lineage : dir'[g] = "whole" <=> dir[g] = "whole"
  <2>1. CASE MakeCandidate(p)
    <3>1. dir' = [dir EXCEPT ![made + 1] = "partial"] /\ made + 1 \notin Lineage
      BY <1>1, <1>2, <2>1 DEF MakeCandidate
    <3> QED
      BY <1>1, <1>2, <3>1
  <2>2. CASE Seal(p)
    <3>1. dir' = [dir EXCEPT ![own[p]] = "whole"] /\ own[p] \notin Lineage
      BY <1>2, <2>2 DEF Seal, At, OffTheLine, Candidate
    <3> QED
      BY <1>1, <1>2, <3>1
  <2>3. CASE Remove(p)
    <3>1. PICK g \in todo[p] : dir[g] = "partial" /\ dir' = [dir EXCEPT ![g] = "absent"]
      BY <2>3 DEF Remove
    <3> QED
      BY <1>1, <1>2, <3>1
  <2>4. CASE dir' = dir
    BY <2>4
  <2> QED
    BY <2>1, <2>2, <2>3, <2>4 DEF Step, Proceed, Acquire, Base, Make, Replace, Index, Recover, Resolve,
       Report, Evict, Scan, Retained, CitePinned, Unpin, Stop, files
<1> QED
  BY <1>1, <1>3 DEF Kept

\* A process that ends takes its pin along, if it had one.
LEMMA EndShows ==
  ASSUME StoreInv, LineInv, NEW p \in Process, Step(p), ~Replace(p), Erase(p) => dir' = dir, End(p), cited' = cited
  PROVE  Register!Next \/ Register!vars' = Register!vars
<1>1. /\ UNCHANGED <<pointer, Lineage, Parent, Kept>>
  BY LineFrame, KeptStays
<1>2. pin \in [Reader -> 0 .. MaxGeneration] /\ pin' = [r \in Reader |-> IF r = p THEN NoGeneration ELSE pin[r]]
  BY DEF StoreInv, StoreTyped, End, Forget
<1>3. CASE p \in Reader /\ pin[p] # NoGeneration
  <2>1. pin' = [pin EXCEPT ![p] = NoGeneration]
    BY <1>2
  <2> QED
    BY <1>1, <1>3, <2>1, RegisterUnpins
<1>4. CASE p \in Reader => pin[p] = NoGeneration
  <2>1. pin' = pin
    BY <1>2, <1>4
  <2> QED
    BY <1>1, <2>1, RegisterVars
<1> QED
  BY <1>3, <1>4

LEMMA ResolvePins ==
  ASSUME StoreInv, LineInv, NEW p \in Process, Step(p), Resolve(p), ~End(p)
  PROVE  Register!Next
<1>1. PICK g \in Generation : g \in Lineage /\ dir[g] = "whole" /\ pin' = [pin EXCEPT ![p] = g]
  BY DEF Resolve
<1>2. pc[p] = "resolve" /\ dir' = dir /\ cited' = cited /\ ~Replace(p)
  BY DEF Resolve, At, files, Replace
<1>3. p \in Reader /\ pin[p] = NoGeneration
  <2>1. Holds(p)
    BY DEF StoreInv
  <2> QED
    BY <1>2, <2>1, OnePart DEF Holds, PublisherHolds, RecovererHolds, ReaderHolds, RetainerHolds
<1>4. UNCHANGED <<pointer, Lineage, Parent, Kept>>
  BY <1>2, LineFrame, KeptStays
<1>5. g \in Kept
  BY <1>1 DEF Kept
<1> QED
  BY <1>1, <1>2, <1>3, <1>4, <1>5, RegisterPins

\* Who reads has a pin, and a report is about a generation.
LEMMA ReadersHave ==
  ASSUME StoreInv, NEW p \in Process
  PROVE  /\ pc[p] = "reading" => p \in Reader /\ pin[p] \in Generation
         /\ pc[p] = "report" => plan[p] # NoGeneration /\ (p \in Reader => pin[p] = NoGeneration)
<1>1. Holds(p) /\ pin \in [Reader -> 0 .. MaxGeneration]
  BY DEF StoreInv, StoreTyped
<1>2. pc[p] = "reading" => p \in Reader /\ pin[p] # NoGeneration
  BY <1>1, OnePart DEF Holds, PublisherHolds, RecovererHolds, ReaderHolds, RetainerHolds
<1>3. pc[p] = "report" => plan[p] # NoGeneration /\ (p \in Reader => pin[p] = NoGeneration)
  BY <1>1, OnePart DEF Holds, PublisherHolds, RecovererHolds, ReaderHolds, RetainerHolds
<1>4. p \in Reader /\ pin[p] # NoGeneration => pin[p] \in Generation
  BY <1>1, StoreAssumption DEF Generation, NoGeneration
<1> QED
  BY <1>2, <1>3, <1>4

LEMMA CitationShows ==
  ASSUME StoreInv, LineInv, NEW p \in Process, Step(p), Base(p) \/ CitePinned(p) \/ Report(p),
         cited' # cited
  PROVE  Register!Next
<1>1. UNCHANGED <<pointer, Lineage, Parent, Kept>>
  <2>1. ~Replace(p) /\ (Erase(p) => dir' = dir)
    BY DEF Base, CitePinned, Report, Replace, At, files
  <2> QED
    BY <2>1, LineFrame, KeptStays
<1>2. CASE Base(p)
  <2>1. cited' = cited \cup {pointer} /\ pointer # NoGeneration /\ pin' = pin
    BY <1>2 DEF Base, files
  <2>2. pointer \in Generation
    BY <2>1, LineFacts
  <2> QED
    BY <1>1, <2>1, <2>2, RegisterCites
<1>3. CASE CitePinned(p)
  <2>1. pc[p] = "reading" /\ cited' = cited \cup {pin[p]} /\ pin' = pin
    BY <1>3 DEF CitePinned, At, locals
  <2> QED
    BY <1>1, <2>1, ReadersHave, RegisterCites
<1>4. CASE Report(p)
  <2>1. pc[p] = "report" /\ plan[p] = pointer /\ cited' = cited \cup {pointer} /\ End(p)
    BY <1>4 DEF Report, ResolvesTo, At
  <2>2. pointer \in Generation
    BY <2>1, ReadersHave, LineFacts
  <2>3. pin' = pin
    BY <2>1, ReadersHave DEF StoreInv, StoreTyped, End, Forget
  <2> QED
    BY <1>1, <2>1, <2>2, <2>3, RegisterCites
<1> QED
  BY <1>2, <1>3, <1>4

LEMMA StepShows ==
  ASSUME StoreInv, LineInv, NEW p \in Process, Step(p)
  PROVE  Register!Next \/ Register!vars' = Register!vars
<1>1. CASE Replace(p)
  BY <1>1, ReplaceCommits
<1>2. CASE Erase(p) /\ dir' # dir
  BY <1>2, EraseRetires
<1>3. CASE Resolve(p) /\ ~End(p)
  BY <1>3, ResolvePins
<1>4. CASE ~Replace(p) /\ (Erase(p) => dir' = dir) /\ End(p) /\ cited' = cited
  BY <1>4, EndShows
<1>5. CASE (Base(p) \/ CitePinned(p) \/ Report(p)) /\ cited' # cited
  BY <1>5, CitationShows
<1>6. CASE Unpin(p)
  <2>1. UNCHANGED <<pointer, Lineage, Parent, Kept>>
    <3>1. ~Replace(p) /\ (Erase(p) => dir' = dir)
      BY <1>6 DEF Unpin, files, Replace, At
    <3> QED
      BY <3>1, LineFrame, KeptStays
  <2>2. pc[p] = "reading" /\ pin' = [pin EXCEPT ![p] = NoGeneration] /\ cited' = cited
    BY <1>6 DEF Unpin, At, files
  <2>3. p \in Reader /\ pin[p] # NoGeneration
    BY <2>2, ReadersHave DEF Generation, NoGeneration
  <2> QED
    BY <2>1, <2>2, <2>3, RegisterUnpins
<1>7. CASE ~Replace(p) /\ (Erase(p) => dir' = dir) /\ pin' = pin /\ cited' = cited
  BY <1>7, LineFrame, KeptStays, RegisterVars
<1>8. \/ End(p) /\ cited' = cited
      \/ pin' = pin /\ cited' = cited
      \/ Resolve(p) /\ ~End(p)
      \/ (Base(p) \/ CitePinned(p) \/ Report(p)) /\ cited' # cited
      \/ Unpin(p)
  BY DEF Step, Proceed, Acquire, Base, Make, MakeCandidate, Seal, Replace, Index, Recover, Resolve,
     Report, Evict, Scan, Erase, Remove, Retained, CitePinned, Stop, files, locals
<1> QED
  BY <1>1, <1>2, <1>3, <1>4, <1>5, <1>6, <1>7, <1>8

-----------------------------------------------------------------------------
\* In the beginning the line is what was published before.
LEMMA LineAtStart == ASSUME Init PROVE Lineage = 1 .. pointer
<1>1. /\ pointer \in GenerationOrNone /\ pointer \in Nat
      /\ from = [g \in Generation |-> IF g <= pointer THEN g - 1 ELSE NoGeneration]
  BY StoreAssumption DEF Init, NoGeneration, GenerationOrNone
<1>2. from \in Parents
  BY LineInit DEF LineInv, RecordsTyped
<1>3. PICK up, top : up = from /\ top = pointer
  OBVIOUS
<1>4. PICK f : IsBack(f, up) /\ Lineage = f[top]
  BY <1>2, <1>3, LineageBack
<1> DEFINE Bad == {n \in GenerationOrNone : n <= pointer /\ f[n] # 1 .. n}
<1>5. Bad = {}
  <2> SUFFICES ASSUME Bad # {} PROVE FALSE
    OBVIOUS
  <2>1. PICK n \in Bad : \A i \in Bad : n <= i
    <3>1. Bad \subseteq Nat
      BY DEF GenerationOrNone
    <3> HIDE DEF Bad
    <3> QED
      BY <3>1, LeastNumber
  <2>2. f[NoGeneration] = {} /\ 1 .. 0 = {}
    BY <1>2, <1>3, <1>4, BackStep
  <2>3. n \in Generation /\ n <= pointer
    <3>1. n # NoGeneration
      BY <2>2 DEF NoGeneration
    <3> QED
      BY <3>1 DEF Generation, GenerationOrNone, NoGeneration
  <2>4. from[n] = n - 1
    BY <1>1, <2>3
  <2>5. f[n] = {n} \cup f[n - 1] /\ n - 1 \in GenerationOrNone /\ n \in Nat /\ n # 0
    BY <1>2, <1>3, <1>4, <2>3, <2>4, BackStep DEF NoGeneration
  <2>6. n - 1 <= pointer /\ ~(n <= n - 1)
    BY <1>1, <2>3, <2>5
  <2>7. n - 1 \notin Bad
    <3> HIDE DEF Bad
    <3> QED
      BY <2>1, <2>6
  <2>8. f[n - 1] = 1 .. (n - 1)
    BY <2>5, <2>6, <2>7
  <2>9. 1 .. n = {n} \cup 1 .. (n - 1)
    BY <2>5
  <2> QED
    BY <2>1, <2>5, <2>8, <2>9
<1> QED
  BY <1>1, <1>3, <1>4, <1>5

LEMMA RegisterInit == Init => Register!Init
<1> SUFFICES ASSUME Init PROVE Register!Init
  OBVIOUS
<1>1. Lineage = 1 .. pointer
  BY LineAtStart
<1>2. /\ pointer \in {NoGeneration, Past} /\ pointer \in 0 .. MaxGeneration
      /\ from = [g \in Generation |-> IF g <= pointer THEN g - 1 ELSE NoGeneration]
      /\ pin = [r \in Reader |-> NoGeneration] /\ cited = {}
  BY StoreAssumption DEF Init, NoGeneration
<1>3. Parent = [g \in Generation |-> IF g \in Lineage THEN g - 1 ELSE NoGeneration]
  BY <1>1, <1>2 DEF Parent, Generation
<1>4. Kept \in {Lineage} \cup IF pointer > 2 THEN {Lineage \ {1}} ELSE {}
  <2>1. PICK oldest \in {"whole"} \cup IF pointer > 2 THEN {"partial", "absent"} ELSE {} :
          dir = [g \in Generation |-> IF g > pointer THEN "absent" ELSE IF g = 1 THEN oldest ELSE "whole"]
    BY DEF Init
  <2>2. \A g \in Lineage : g \in Generation /\ dir[g] = IF g = 1 THEN oldest ELSE "whole"
    BY <1>1, <1>2, <2>1, StoreAssumption DEF Generation
  <2>3. CASE oldest = "whole"
    BY <2>2, <2>3 DEF Kept
  <2>4. CASE oldest # "whole"
    <3>1. pointer > 2 /\ Kept = Lineage \ {1}
      BY <2>1, <2>2, <2>4 DEF Kept
    <3> QED
      BY <3>1
  <2> QED
    BY <2>3, <2>4
<1> QED
  BY <1>1, <1>2, <1>3, <1>4, RegisterVars DEF Register!Init, Parent, Kept

\* The store implements the register, for any number of processes and generations:
\* every step of locks, directories, pointer and index is a step of the register, or
\* is not seen; a commit replaces exactly the generation it was made from.
THEOREM StoreIsRegister == Spec => ImplementsRegister
<1>1. ASSUME StoreInv, LineInv, [Next]_vars PROVE [Register!Next]_(Register!vars)
  <2>1. CASE UNCHANGED vars
    <3>1. UNCHANGED <<from, dir, pointer, pin, cited>>
      BY <2>1 DEF vars, files, locals
    <3>2. Lineage' = Lineage
      BY <3>1, LineageStays
    <3>3. UNCHANGED <<pointer, Lineage, Parent, Kept, pin, cited>>
      BY <3>1, <3>2 DEF Parent, Kept
    <3> QED
      BY <3>3, RegisterVars
  <2>2. CASE Next
    <3>1. PICK p \in Process : Step(p)
      BY <2>2 DEF Next, Step
    <3> QED
      BY <1>1, <3>1, StepShows
  <2> QED
    BY <1>1, <2>1, <2>2
<1> QED
  BY <1>1, RegisterInit, StoreInit, StoreNext, LineInit, LineNext, PTL
     DEF Spec, ImplementsRegister, Register!Spec

-----------------------------------------------------------------------------
(* The locks are taken in one order, so nobody waits in a circle.           *)

\* What a process asks for while it waits, and for which use: a process that looks
\* at the store takes the lifetime and publication locks in passing.
AsksFor(p) ==
  CASE pc[p] \in Lock -> {pc[p]}
    [] pc[p] = "base" -> {"lifetime", "publication"}
    [] pc[p] \in {"parent", "resolve"} -> {"publication"}
    [] OTHER -> {}
Use(p, k) == IF pc[p] = k THEN Mode(k) ELSE "shared"
Waits(p) == \E k \in AsksFor(p) : ~Available(p, k, Use(p, k))

\* Whenever somebody waits, somebody is on the way who does not.
NoCircle == (\E p \in Process : Waits(p)) => \E q \in Process : pc[q] # "done" /\ ~Waits(q)

Ordered(p) ==
  /\ pc[p] \in {"review", "evict", "done"} => \A k \in Lock : ~Locked(p, k)
  /\ pc[p] \in {"base", "lifetime"} => ~Locked(p, "lifetime") /\ ~Locked(p, "publication")
  /\ pc[p] \in {"parent", "publication", "resolve", "reading"} \/ (p \in Publisher /\ pc[p] = "made") =>
       ~Locked(p, "publication")

AllOrdered == \A p \in Process : Ordered(p)

LEMMA OrderStep ==
  ASSUME StoreInv, NEW p \in Process, Step(p), Ordered(p)
  PROVE  Ordered(p)'
<1>1. LocalTyped /\ Holds(p)
  BY DEF StoreInv, StoreTyped, LocalTyped
<1>2. ASSUME NEW label \in Label, Goto(p, label) PROVE pc'[p] = label
  BY <1>1, <1>2 DEF Goto, LocalTyped
<1>3. CASE End(p)
  BY <1>1, <1>3, EndDoes DEF Ordered, Locked
<1>4. CASE Acquire(p)
  <2>1. PICK k \in Lock : pc[p] = k /\ Take(p, k, Mode(k)) /\ Goto(p, After(p, k))
    BY <1>4 DEF Acquire, At
  <2>2. Mode(k) \in {"shared", "exclusive"} /\ After(p, k) \in Label
    BY DEF Mode, After, Label, Lock
  <2>3. pc'[p] = After(p, k) /\ \A j \in Lock \ {k} : lock'[j][p] = lock[j][p]
    BY <1>1, <1>2, <2>1, <2>2, TakeDoes
  <2>4. CASE k = "review"
    BY <2>1, <2>3, <2>4 DEF After, Ordered, Locked, Lock
  <2>5. CASE k = "lifetime"
    BY <2>1, <2>3, <2>5 DEF After, Ordered, Locked, Lock
  <2>6. CASE k = "publication"
    BY <2>1, <2>3, <2>6 DEF After, Ordered, Locked, Lock
  <2> QED
    BY <2>4, <2>5, <2>6 DEF Lock
<1>5. CASE Base(p) /\ ~End(p)
  BY <1>2, <1>5 DEF Base, At, Ordered, Locked, Label, Lock
<1>6. CASE MakeCandidate(p) /\ pc[p] \in {"parent", "recover"}
  <2>1. pc'[p] = "made" /\ lock' = lock
    BY <1>2, <1>6 DEF MakeCandidate, Label
  <2>2. p \in Publisher => pc[p] = "parent"
    BY <1>1, <1>6 DEF Holds, PublisherHolds
  <2> QED
    BY <2>1, <2>2 DEF Ordered, Locked
<1>7. CASE Seal(p)
  <2>1. pc[p] = "made" /\ pc'[p] = AfterSeal(p) /\ lock' = lock
    BY <1>2, <1>7 DEF Seal, At, AfterSeal, Label, Lock
  <2>2. p \in Publisher \/ p \in Recoverer
    BY <1>1, <2>1, OnePart DEF Holds, ReaderHolds, RetainerHolds
  <2> QED
    BY <2>1, <2>2 DEF AfterSeal, Ordered, Locked
<1>8. CASE Resolve(p) /\ ~End(p)
  BY <1>2, <1>8 DEF Resolve, At, Ordered, Locked, Label
<1>9. CASE Unpin(p)
  <2>1. pc'[p] = "review" /\ \A k \in Lock : lock'[k][p] = "free"
    BY <1>1, <1>2, <1>9 DEF Unpin, Released, LocalTyped, Label, Lock
  <2> QED
    BY <2>1 DEF Ordered, Locked
<1>10. CASE Evict(p) /\ ~End(p)
  <2>1. pc[p] = "evict" /\ Take(p, "lifetime", "exclusive") /\ pc'[p] = "publication"
    BY <1>2, <1>10 DEF Evict, At, Label, Lock
  <2>2. lock'["publication"][p] = lock["publication"][p]
    BY <1>1, <2>1, TakeDoes DEF Lock
  <2> QED
    BY <2>1, <2>2 DEF Ordered, Locked, Lock
<1>11. CASE Replace(p) \/ (Scan(p) /\ ~End(p))
  <2>1. pc'[p] \in {"index", "erase"}
    BY <1>2, <1>11 DEF Replace, Scan, Label
  <2> QED
    BY <2>1 DEF Ordered
<1>12. CASE pc' = pc /\ lock' = lock
  BY <1>12 DEF Ordered, Locked
<1> QED
  BY <1>3, <1>4, <1>5, <1>6, <1>7, <1>8, <1>9, <1>10, <1>11, <1>12
     DEF Step, Proceed, Make, Index, Recover, Report, Erase, Remove, Retained, CitePinned, Stop, At

LEMMA OrderNext == StoreInv /\ AllOrdered /\ [Next]_vars => AllOrdered'
<1> SUFFICES ASSUME StoreInv, AllOrdered, [Next]_vars PROVE AllOrdered'
  OBVIOUS
<1>1. CASE UNCHANGED vars
  BY <1>1 DEF vars, AllOrdered, Ordered, Locked
<1>2. CASE Next
  <2>1. PICK p \in Process : Step(p)
    BY <1>2 DEF Next, Step
  <2>2. Alone(p) /\ Ordered(p)'
    BY <2>1, StepMoves, OrderStep DEF AllOrdered
  <2>3. ASSUME NEW q \in Process, q # p PROVE Ordered(q)'
    BY <2>2, <2>3 DEF Alone, AllOrdered, Ordered, Locked, Lock
  <2> QED
    BY <2>2, <2>3 DEF AllOrdered
<1> QED
  BY <1>1, <1>2

LEMMA OrderInit == Init => AllOrdered
  BY DEF Init, AllOrdered, Ordered, Locked, Lock

\* Whoever holds the lock that another waits for waits for a later one, if at all.
LEMMA HolderGoesOn ==
  ASSUME AllOrdered, NEW q \in Process, NEW k \in Lock, Locked(q, k)
  PROVE  /\ pc[q] # "done"
         /\ AsksFor(q) \subseteq IF k = "publication" THEN {}
                                 ELSE IF k = "lifetime" THEN {"publication"} ELSE {"lifetime", "publication"}
<1>1. Ordered(q)
  BY DEF AllOrdered
<1>2. CASE k = "publication"
  BY <1>1, <1>2 DEF Ordered, AsksFor, Lock
<1>3. CASE k = "lifetime"
  BY <1>1, <1>3 DEF Ordered, AsksFor, Lock
<1>4. CASE k = "review"
  BY <1>1, <1>4 DEF Ordered, AsksFor, Lock
<1> QED
  BY <1>2, <1>3, <1>4 DEF Lock

LEMMA OrderBreaksCircles == AllOrdered => NoCircle
<1> SUFFICES ASSUME AllOrdered, NEW p \in Process, Waits(p)
             PROVE  \E q \in Process : pc[q] # "done" /\ ~Waits(q)
  BY DEF NoCircle
<1>1. ASSUME NEW r \in Process, Waits(r)
      PROVE  \E k \in AsksFor(r) : \E q \in Process : Locked(q, k)
  BY <1>1 DEF Waits, Available, Locked
<1>2. AsksFor(p) \subseteq Lock
  BY DEF AsksFor, Lock
<1>3. ASSUME NEW q \in Process, Locked(q, "publication")
      PROVE  pc[q] # "done" /\ ~Waits(q)
  BY <1>1, <1>3, HolderGoesOn DEF Lock
<1>4. ASSUME NEW q \in Process, Locked(q, "lifetime")
      PROVE  \E r \in Process : pc[r] # "done" /\ ~Waits(r)
  <2>1. pc[q] # "done" /\ AsksFor(q) \subseteq {"publication"}
    BY <1>4, HolderGoesOn DEF Lock
  <2> QED
    BY <1>1, <1>3, <2>1
<1>5. ASSUME NEW q \in Process, Locked(q, "review")
      PROVE  \E r \in Process : pc[r] # "done" /\ ~Waits(r)
  <2>1. pc[q] # "done" /\ AsksFor(q) \subseteq {"lifetime", "publication"}
    BY <1>5, HolderGoesOn DEF Lock
  <2> QED
    BY <1>1, <1>3, <1>4, <2>1
<1> QED
  BY <1>1, <1>2, <1>3, <1>4, <1>5 DEF Lock

\* Publishers, recoveries, readers and retentions never all wait for each other's
\* locks: while somebody waits, somebody who is not done waits for nobody.
THEOREM NobodyWaitsInACircle == Spec => []NoCircle
  BY OrderInit, OrderNext, OrderBreaksCircles, StoreInit, StoreNext, PTL DEF Spec

-----------------------------------------------------------------------------
(* The generation to roll back to.                                          *)

WayBackWhole ==
  pointer # NoGeneration /\ from[pointer] # NoGeneration => dir[from[pointer]] = "whole"

LEMMA WayBackStep ==
  ASSUME StoreInv, LineInv, WayBackWhole, NEW p \in Process, Step(p)
  PROVE  WayBackWhole'
<1>1. /\ StoreTyped /\ RecordsTyped /\ PointerWhole /\ OffTheLine(p) /\ Disposable(p) /\ InHand(p)
      /\ pointer <= made /\ made \in Nat /\ pointer \in Nat
  BY StoreAssumption DEF StoreInv, StoreTyped, LineInv, NeededIsWhole
<1>2. CASE Replace(p)
  <2>1. pointer' = own[p] /\ from' = from /\ dir' = dir /\ pc[p] = "commit" /\ pointer = plan[p]
    BY <1>2 DEF Replace, At
  <2>2. from[own[p]] = pointer
    BY <1>1, <2>1 DEF OffTheLine, Candidate, Sealed
  <2> QED
    BY <1>1, <2>1, <2>2 DEF WayBackWhole, PointerWhole
<1>3. CASE ~Replace(p) /\ pointer # NoGeneration /\ from[pointer] # NoGeneration
  <2>1. pointer' = pointer /\ pointer \in Generation /\ from'[pointer] = from[pointer]
    BY <1>1, <1>3, LineMoves, LineFacts
  <2>2. PICK b \in Generation : b = from[pointer] /\ b < pointer /\ dir[b] = "whole" /\ b \in Nat
    BY <1>1, <1>3, <2>1 DEF RecordsTyped, Parents, GenerationOrNone, Generation, NoGeneration, WayBackWhole
  <2>3. dir'[b] = "whole"
    <3>1. CASE MakeCandidate(p)
      <4>1. dir' = [dir EXCEPT ![made + 1] = "partial"] /\ made + 1 # b
        BY <1>1, <2>2, <3>1 DEF MakeCandidate
      <4> QED
        BY <1>1, <2>2, <4>1 DEF StoreTyped
    <3>2. CASE Seal(p)
      BY <1>1, <2>2, <3>2 DEF Seal, StoreTyped
    <3>3. CASE Remove(p)
      BY <1>1, <2>2, <3>3 DEF Remove, StoreTyped
    <3>4. CASE Erase(p)
      <4>1. b \notin todo[p]
        BY <1>1, <2>2, <3>4 DEF Erase, At, Disposable, Protected
      <4> QED
        BY <1>1, <2>2, <3>4, <4>1 DEF Erase, files, StoreTyped
    <3>5. CASE dir' = dir
      BY <2>2, <3>5
    <3> QED
      BY <3>1, <3>2, <3>3, <3>4, <3>5, <1>3 DEF Step, Proceed, Acquire, Base, Make, Index, Recover, Resolve,
         Report, Evict, Scan, Retained, CitePinned, Unpin, Stop, files
  <2> QED
    BY <2>1, <2>2, <2>3 DEF WayBackWhole
<1>4. CASE ~Replace(p) /\ (pointer = NoGeneration \/ from[pointer] = NoGeneration)
  <2>1. pointer' = pointer /\ (pointer # NoGeneration => from'[pointer] = from[pointer])
    BY <1>1, <1>4, LineMoves, LineFacts
  <2> QED
    BY <1>4, <2>1 DEF WayBackWhole
<1> QED
  BY <1>2, <1>3, <1>4

LEMMA WayBackInit == Init => WayBackWhole
<1> SUFFICES ASSUME Init, pointer # NoGeneration, from[pointer] # NoGeneration
             PROVE  dir[from[pointer]] = "whole"
  BY DEF WayBackWhole
<1>1. /\ pointer \in 0 .. MaxGeneration
      /\ from = [g \in Generation |-> IF g <= pointer THEN g - 1 ELSE NoGeneration]
  BY StoreAssumption DEF Init, NoGeneration
<1>2. PICK oldest \in {"whole"} \cup IF pointer > 2 THEN {"partial", "absent"} ELSE {} :
        dir = [g \in Generation |-> IF g > pointer THEN "absent" ELSE IF g = 1 THEN oldest ELSE "whole"]
  BY DEF Init
<1>3. pointer \in Generation /\ from[pointer] = pointer - 1 /\ pointer - 1 \in Generation
  <2>1. pointer \in Generation /\ MaxGeneration \in Nat
    BY <1>1, StoreAssumption DEF Generation, NoGeneration
  <2>2. from[pointer] = pointer - 1
    BY <1>1, <2>1 DEF Generation
  <2> QED
    BY <2>1, <2>2 DEF Generation, NoGeneration
<1>4. oldest = "whole" \/ pointer - 1 # 1
  BY <1>1, <1>2
<1> QED
  BY <1>1, <1>2, <1>3, <1>4

\* The generation that the current one replaced, which retention protects for a
\* rollback, is whole: no retention, crash or failed publication takes it away.
THEOREM WayBackStaysWhole == Spec => []WayBackWhole
<1>1. ASSUME StoreInv, LineInv, WayBackWhole, [Next]_vars PROVE WayBackWhole'
  <2>1. CASE UNCHANGED vars
    BY <1>1, <2>1 DEF vars, files, WayBackWhole
  <2>2. CASE Next
    BY <1>1, <2>2, WayBackStep DEF Next, Step
  <2> QED
    BY <1>1, <2>1, <2>2
<1> QED
  BY <1>1, WayBackInit, StoreInit, StoreNext, LineInit, LineNext, PTL DEF Spec
=============================================================================
