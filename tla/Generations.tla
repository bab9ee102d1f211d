---------------------------- MODULE Generations ----------------------------
(***************************************************************************)
(* The generation store of one match (generations.py) and its users:       *)
(* publishers (a worker, a correction, an import), startup recovery,       *)
(* readers, the report and playlist writers, and retention.  A generation  *)
(* is a directory of sealed files; current_generation.json, the pointer,   *)
(* is the only commit record; the matches row in SQLite is an index that   *)
(* follows it.  The processes meet in three file locks, taken in the order *)
(* review, lifetime, publication, which the system releases when a process *)
(* dies.  Every process performs one operation.                            *)
(***************************************************************************)
EXTENDS Naturals, FiniteSets

CONSTANTS
  MaxGeneration,   \* bound of the model: directories that can ever be made
  Past,            \* generations that were published before, if any were
  Publisher,       \* publish: processing, corrections, imports
  Corrector,       \* the publishers that apply a correction, stored before with its base
  Recoverer,       \* recover: started with every Storage
  Reader,          \* snapshot: API requests, which then may store a report on what they read
  Retainer         \* retention(apply=True)

ASSUME StoreAssumption ==
  /\ MaxGeneration \in Nat /\ Past \in 0 .. MaxGeneration
  /\ Corrector \subseteq Publisher
  /\ Publisher \cap Recoverer = {} /\ Publisher \cap Reader = {} /\ Publisher \cap Retainer = {}
  /\ Recoverer \cap Reader = {} /\ Recoverer \cap Retainer = {} /\ Reader \cap Retainer = {}

Process == Publisher \cup Recoverer \cup Reader \cup Retainer
Generation == 1 .. MaxGeneration
NoGeneration == 0
Lock == {"review", "lifetime", "publication"}

VARIABLES
  dir,       \* the directory of each generation: absent, partial (written or
             \* removed in part) or whole (all files, verified and sealed)
  from,      \* parentGenerationId of its manifest
  made,      \* directories made so far: identifiers are never used twice
  legacy,    \* flat files of an older release lie in the match directory
  pointer,   \* current_generation.json
  index,     \* matches.analytical_generation_id
  cited,     \* generations named in corrections, reports and playlists
  lock,      \* who holds which lock, and how
  pc,        \* where each process is
  plan,      \* the generation it read: planned parent, or what a report is about
  own,       \* the candidate it made
  pin,       \* the generation a reader has pinned
  todo       \* what retention selected and has not removed

files == <<dir, from, made, legacy, pointer, index, cited>>
locals == <<plan, own, pin, todo>>
vars == <<files, lock, pc, locals>>

TypeOK ==
  /\ dir \in [Generation -> {"absent", "partial", "whole"}]
  /\ from \in [Generation -> 0 .. MaxGeneration]
  /\ made \in 0 .. MaxGeneration
  /\ legacy \in BOOLEAN
  /\ pointer \in 0 .. MaxGeneration /\ index \in 0 .. MaxGeneration
  /\ cited \subseteq Generation
  /\ lock \in [Lock -> [Process -> {"free", "shared", "exclusive"}]]
  /\ pc \in [Process -> Lock \cup
                {"base", "parent", "made", "commit", "index", "recover",
                 "resolve", "reading", "report", "evict", "scan", "erase", "done"}]
  /\ plan \in [Process -> 0 .. MaxGeneration]
  /\ own \in [Process -> 0 .. MaxGeneration]
  /\ pin \in [Reader -> 0 .. MaxGeneration]
  /\ todo \in [Process -> SUBSET Generation]

\* Earlier retentions may have removed the oldest generation, or died while they did.
Init ==
  /\ pointer \in {NoGeneration, Past}
  /\ \E oldest \in {"whole"} \cup IF pointer > 2 THEN {"partial", "absent"} ELSE {} :
       dir = [g \in Generation |-> IF g > pointer THEN "absent" ELSE IF g = 1 THEN oldest ELSE "whole"]
  /\ from = [g \in Generation |-> IF g <= pointer THEN g - 1 ELSE NoGeneration]
  /\ made = pointer /\ index = pointer
  /\ legacy \in {b \in BOOLEAN : b => pointer = NoGeneration}
  /\ cited = {}
  /\ lock = [k \in Lock |-> [p \in Process |-> "free"]]
  /\ pc = [p \in Process |-> CASE p \in Reader -> "lifetime" [] p \in Retainer -> "evict" [] OTHER -> "review"]
  /\ plan = [p \in Process |-> NoGeneration]
  /\ own = [p \in Process |-> NoGeneration]
  /\ pin = [r \in Reader |-> NoGeneration]
  /\ todo = [p \in Process |-> {}]

-----------------------------------------------------------------------------
(* Locks.                                                                   *)

At(p, label) == pc[p] = label
Goto(p, label) == pc' = [pc EXCEPT ![p] = label]

\* Variant: locks are known to the process that holds them only.
AvailableWithin(p, k, mode) == TRUE

\* flock: shared holders admit each other, an exclusive one nobody.
Available(p, k, mode) ==
  \A q \in Process \ {p} : lock[k][q] = "free" \/ (mode = "shared" /\ lock[k][q] = "shared")

Take(p, k, mode) ==
  /\ Available(p, k, mode)
  /\ lock' = [lock EXCEPT ![k][p] = mode]

\* The last lock is left, with every other one that is held.
Released(p) == [k \in Lock |-> [lock[k] EXCEPT ![p] = "free"]]
Forget(p) ==
  /\ plan' = [plan EXCEPT ![p] = NoGeneration]
  /\ own' = [own EXCEPT ![p] = NoGeneration]
  /\ pin' = [r \in Reader |-> IF r = p THEN NoGeneration ELSE pin[r]]
  /\ todo' = [todo EXCEPT ![p] = {}]
End(p) == lock' = Released(p) /\ Goto(p, "done") /\ Forget(p)

\* What a blocking acquisition asks for.
Mode(k) == IF k = "lifetime" THEN "shared" ELSE "exclusive"

\* Where a process goes on once it holds the lock it waited for.
After(p, k) ==
  CASE k = "review" -> IF p \in Publisher THEN "base" ELSE "lifetime"
    [] k = "lifetime" -> IF p \in Publisher THEN "parent"
                         ELSE IF lock["review"][p] = "free" THEN "resolve" ELSE "publication"
    [] k = "publication" -> IF p \in Publisher THEN "commit"
                            ELSE IF p \in Recoverer THEN "recover"
                            ELSE IF p \in Retainer THEN "scan" ELSE "report"

Acquire(p) ==
  \E k \in Lock :
    /\ At(p, k)
    /\ Take(p, k, Mode(k))
    /\ Goto(p, After(p, k))
    /\ UNCHANGED <<files, locals>>

-----------------------------------------------------------------------------
(* Publication.                                                             *)

\* _pointer: without a pointer, any directory is a candidate that must not be guessed.
Blocked == pointer = NoGeneration /\ \E g \in Generation : dir[g] # "absent"
Readable(p) == Available(p, "publication", "shared")

\* The store as resolve() sees it under a shared publication lock.
ResolvesTo(p, g) == Readable(p) /\ ~Blocked /\ pointer = g /\ (g # NoGeneration => dir[g] = "whole")

\* The caller looks at the current generation; a correction that is submitted
\* is stored with it as its base, under the review lock alone.
Base(p) ==
  /\ At(p, "base")
  /\ Available(p, "lifetime", "shared") /\ Readable(p)
  /\ \/ Blocked /\ End(p) /\ UNCHANGED files
     \/ /\ ResolvesTo(p, pointer)
        /\ plan' = [plan EXCEPT ![p] = pointer]
        /\ Goto(p, "lifetime")
        /\ cited' = IF p \in Corrector THEN cited \cup ({pointer} \ {NoGeneration}) ELSE cited
        /\ UNCHANGED <<dir, from, made, legacy, pointer, index, lock, own, pin, todo>>

\* publish: the parent is compared with the planned one, then the directory is made.
MakeCandidate(p) ==
  /\ made < MaxGeneration
  /\ made' = made + 1
  /\ dir' = [dir EXCEPT ![made + 1] = "partial"]
  /\ from' = [from EXCEPT ![made + 1] = plan[p]]
  /\ own' = [own EXCEPT ![p] = made + 1]
  /\ Goto(p, "made")
  /\ UNCHANGED <<legacy, pointer, index, cited, lock, plan, pin, todo>>

Make(p) == At(p, "parent") /\ ResolvesTo(p, plan[p]) /\ MakeCandidate(p)

\* Migration of the flat files runs inside recovery, which holds every lock.
AfterSeal(p) == IF p \in Recoverer THEN "commit" ELSE "publication"

\* All files and the manifest are written, verified and sealed.
Seal(p) ==
  /\ At(p, "made")
  /\ dir' = [dir EXCEPT ![own[p]] = "whole"]
  /\ Goto(p, AfterSeal(p))
  /\ UNCHANGED <<from, made, legacy, pointer, index, cited, lock, locals>>

\* Variant: the publication lock is left with the pointer, before the index.
ReplaceAndRelease(p) ==
  /\ At(p, "commit")
  /\ pointer = plan[p]
  /\ pointer' = own[p]
  /\ lock' = Released(p)
  /\ Goto(p, "index")
  /\ UNCHANGED <<dir, from, made, legacy, index, cited, locals>>

\* _activate: the parent is compared again; os.replace is the commit.
Replace(p) ==
  /\ At(p, "commit")
  /\ pointer = plan[p]
  /\ pointer' = own[p]
  /\ Goto(p, "index")
  /\ UNCHANGED <<dir, from, made, legacy, index, cited, lock, locals>>

\* refresh_index, for the manifest that was just committed.
Index(p) ==
  /\ At(p, "index")
  /\ index' = own[p]
  /\ End(p)
  /\ UNCHANGED <<dir, from, made, legacy, pointer, cited>>

-----------------------------------------------------------------------------
(* Recovery.                                                                *)

\* The pointer's generation is verified and indexed again, or flat files are
\* migrated, or there is nothing to recover, or nothing may be guessed.
Recover(p) ==
  /\ At(p, "recover")
  /\ \/ /\ pointer # NoGeneration /\ dir[pointer] = "whole"
        /\ index' = pointer
        /\ End(p)
        /\ UNCHANGED <<dir, from, made, legacy, pointer, cited>>
     \/ pointer = NoGeneration /\ ~Blocked /\ legacy /\ MakeCandidate(p)
     \/ /\ pointer = NoGeneration /\ (Blocked \/ ~legacy)
        /\ End(p)
        /\ UNCHANGED files

-----------------------------------------------------------------------------
(* Readers, reports and playlists.                                          *)

\* The committed generations, from the pointer back.
Lineage ==
  LET Back[g \in 0 .. MaxGeneration] == IF g = NoGeneration THEN {} ELSE {g} \cup Back[from[g]]
  IN Back[pointer]

\* snapshot: the current generation, or one that the client names.
Resolve(p) ==
  /\ At(p, "resolve")
  /\ Readable(p)
  /\ \/ \E g \in Generation :
          /\ g \in Lineage /\ dir[g] = "whole"
          /\ pin' = [pin EXCEPT ![p] = g]
          /\ Goto(p, "reading")
          /\ UNCHANGED <<files, lock, plan, own, todo>>
     \/ \/ pointer = NoGeneration
        \/ \E g \in Lineage : dir[g] # "whole"
        /\ End(p) /\ UNCHANGED files

\* A playlist item is stored while its generation is pinned.
CitePinned(p) ==
  /\ At(p, "reading")
  /\ cited' = cited \cup {pin[p]}
  /\ UNCHANGED <<dir, from, made, legacy, pointer, index, lock, pc, locals>>

\* The request ends; a report may then be stored on the generation it was about.
Unpin(p) ==
  /\ At(p, "reading")
  /\ plan' = [plan EXCEPT ![p] = pin[p]]
  /\ pin' = [pin EXCEPT ![p] = NoGeneration]
  /\ lock' = Released(p)
  /\ Goto(p, "review")
  /\ UNCHANGED <<files, own, todo>>

\* ReportStore.publish refuses when the evidence is no longer current.
Report(p) ==
  /\ At(p, "report")
  /\ cited' = IF ResolvesTo(p, plan[p]) THEN cited \cup {plan[p]} ELSE cited
  /\ End(p)
  /\ UNCHANGED <<dir, from, made, legacy, pointer, index>>

-----------------------------------------------------------------------------
(* Retention.                                                               *)

\* Variant: retention shares the lifetime lock with readers.
EvictShared(p) ==
  /\ At(p, "evict")
  /\ \/ /\ Take(p, "lifetime", "shared")
        /\ Goto(p, "publication") /\ UNCHANGED locals
     \/ ~Available(p, "lifetime", "shared") /\ End(p)
  /\ UNCHANGED files

\* Variant: retention waits for readers and publishers to leave.
EvictBlocking(p) ==
  /\ At(p, "evict")
  /\ Take(p, "lifetime", "exclusive")
  /\ Goto(p, "publication") /\ UNCHANGED locals
  /\ UNCHANGED files

\* A lifetime lock that anyone else holds makes retention give up at once.
Evict(p) ==
  /\ At(p, "evict")
  /\ \/ /\ Take(p, "lifetime", "exclusive")
        /\ Goto(p, "publication") /\ UNCHANGED locals
     \/ ~Available(p, "lifetime", "exclusive") /\ End(p)
  /\ UNCHANGED files

\* The proven ancestors: the walk stops behind a manifest that cannot be read.
\* A directory that was removed in part may or may not still have its own.
AncestorsVia(readable) ==
  LET Walk[g \in 0 .. MaxGeneration] ==
        IF g = NoGeneration THEN {}
        ELSE {g} \cup (IF dir[g] = "whole" \/ g \in readable THEN Walk[from[g]] ELSE {})
  IN Walk[from[pointer]]

Protected == cited \cup {pointer, from[pointer]}

\* Variant: the parent of the oldest generation is taken for an ancestor.
ScanPastRoot(p) ==
  /\ At(p, "scan")
  /\ pointer # NoGeneration
  /\ \E S \in SUBSET ((AncestorsVia({}) \cup {from[g] : g \in Lineage}) \ Protected) :
        todo' = [todo EXCEPT ![p] = S]
  /\ Goto(p, "erase")
  /\ UNCHANGED <<files, lock, plan, own, pin>>

Scan(p) ==
  /\ At(p, "scan")
  /\ \/ /\ pointer = NoGeneration
        /\ End(p)
     \/ /\ pointer # NoGeneration /\ dir[pointer] = "whole"
        /\ \E readable \in SUBSET {g \in Generation : dir[g] = "partial"} :
             \E S \in SUBSET (AncestorsVia(readable) \ Protected) :
                todo' = [todo EXCEPT ![p] = S]
        /\ Goto(p, "erase")
        /\ UNCHANGED <<lock, plan, own, pin>>
  /\ UNCHANGED files

\* rmtree begins on one directory; it fails on one that an earlier retention removed.
Erase(p) ==
  /\ At(p, "erase")
  /\ \E g \in todo[p] :
       \/ /\ dir[g] = "whole"
          /\ dir' = [dir EXCEPT ![g] = "partial"]
          /\ UNCHANGED <<from, made, legacy, pointer, index, cited, lock, pc, locals>>
       \/ dir[g] = "absent" /\ End(p) /\ UNCHANGED files

\* ... and ends, with the seal.
Remove(p) ==
  /\ At(p, "erase")
  /\ \E g \in todo[p] :
       /\ dir[g] = "partial"
       /\ dir' = [dir EXCEPT ![g] = "absent"]
       /\ todo' = [todo EXCEPT ![p] = @ \ {g}]
  /\ UNCHANGED <<from, made, legacy, pointer, index, cited, lock, pc, plan, own, pin>>

Retained(p) ==
  /\ At(p, "erase") /\ todo[p] = {}
  /\ End(p)
  /\ UNCHANGED files

-----------------------------------------------------------------------------
(* Failures.                                                                *)

\* The process is killed, or a step of it raises: a full disk, a rejected payload,
\* an index that cannot be written, an import whose cleanup failed.  Its locks are
\* released, its files stay.  One that dies without a lock leaves nothing behind.
Stop(p) ==
  /\ \E k \in Lock : lock[k][p] # "free"
  /\ End(p)
  /\ UNCHANGED files

\* What a process does on its own, without an end that a reader owes nobody.
Proceed(p) ==
  \/ Acquire(p) \/ Base(p) \/ Make(p) \/ Seal(p) \/ Replace(p) \/ Index(p) \/ Recover(p)
  \/ Resolve(p) \/ Report(p) \/ Evict(p) \/ Scan(p) \/ Erase(p) \/ Remove(p) \/ Retained(p)

Next == \E p \in Process : Proceed(p) \/ CitePinned(p) \/ Unpin(p) \/ Stop(p)

Spec == Init /\ [][Next]_vars

\* Processes that run go on running; a client may keep its reader open for ever.
FairSpec == Spec /\ \A p \in Process : WF_vars(Proceed(p))

-----------------------------------------------------------------------------
(* Properties.                                                              *)

(* Whoever may still read a generation finds all its files: the pointer names *)
(* a verified one whatever process died or failed; a reader keeps what it      *)
(* pinned while publishers replace the pointer and retention removes old ones; *)
(* and what a stored correction, report or playlist cites stays, although      *)
(* corrections are stored under the review lock, which retention does not take.*)
PointerWhole == pointer # NoGeneration => dir[pointer] = "whole"
PinnedWhole == \A r \in Reader : pin[r] # NoGeneration => dir[pin[r]] = "whole"
CitationsKept == \A g \in cited : dir[g] = "whole"

NeededIsWhole == PointerWhole /\ PinnedWhole /\ CitationsKept

(* The index is only ever written to the generation the pointer names then:  *)
(* a slow writer never puts an older generation over a newer one.            *)
IndexFollowsPointer == [][index' # index => index' = pointer']_index

(* The store implements the register: each commit replaces the generation it *)
(* was made from, so none is lost; readers see committed generations; what   *)
(* is pinned, cited, current or the way back is never retired.               *)
Register == INSTANCE GenerationRegister WITH
  current <- pointer,
  line <- Lineage,
  parent <- [g \in Generation |-> IF g \in Lineage THEN from[g] ELSE NoGeneration],
  kept <- {g \in Lineage : dir[g] = "whole"},
  pinned <- pin

ImplementsRegister == Register!Spec

(* Nobody waits for ever: publishers, recovery and retention come to an end  *)
(* even when readers keep their pins, and no order of acquisitions blocks.   *)
EveryoneEnds ==
  \A p \in Process : <>(At(p, "done") \/ (p \in Reader /\ At(p, "reading")))

=============================================================================
