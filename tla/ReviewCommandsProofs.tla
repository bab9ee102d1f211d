------------------------ MODULE ReviewCommandsProofs ------------------------
(***************************************************************************)
(* Proofs about the review commands of a match, for any number of          *)
(* commands, undos, generations and faults: a command enters the history   *)
(* once, what is called applied was listed and is shown, what failed is    *)
(* not listed, and what is applied stays so; the register below keeps      *)
(* readable what its users name.                                           *)
(***************************************************************************)
EXTENDS ReviewCommands, TLAPS

LocalTyped ==
  /\ st \in [Command -> {"none", "committed", "applying", "applied", "failed"}]
  /\ base \in [Command -> 0 .. MaxGeneration] /\ appliedIn \in [Command -> 0 .. MaxGeneration]
  /\ included \in [Generation -> SUBSET Command] /\ effect \in [Generation -> SUBSET Command]
  /\ server \in {"up", "down", "starting"}
  /\ phase \in {"free", "apply", "repaired", "marked", "published"}
  /\ pending \subseteq Command /\ misread \subseteq Command /\ overtaken \subseteq Command
  /\ faults \in 0 .. MaxFaults

Logged == LoggedOnce /\ log \in Seq(Command) /\ received \subseteq Command

\* Generations were committed; a command is based on one, and listed by later ones.
Based ==
  /\ line \subseteq Generation /\ current \in line
  /\ \A c \in Command : base[c] \in line \cup {NoGeneration}
  /\ \A g \in line : \A c \in included[g] : base[c] # g /\ st[c] # "none"

\* What an operation that holds the review lock has in hand.
Phases ==
  /\ phase \in {"marked", "published"} => pending \subseteq In({"applying"})
  /\ phase = "repaired" => Unapplied \cap included[current] = {}
  /\ phase = "marked" => pending \cap included[current] = {}
  /\ phase = "published" => pending \subseteq included[current]

\* What repair_commands may find listed without having been materialised.
Overtakes == In({"committed"}) \cap included[current] \subseteq overtaken

\* The commands that took effect, whether or not the log knows it yet.
Effective == In({"applied"}) \cup (In({"applying"}) \cap included[current])
Superseded(c) == \E u \in Effective \cup misread : UndoOf[u] = c
Effects == \A c \in Effective : c \in overtaken \/ Shown(c) \/ Superseded(c)

AppliedListed ==
  \A c \in In({"applied"}) : appliedIn[c] \in line /\ c \in included[appliedIn[c]]

RInv ==
  LocalTyped /\ Logged /\ Based /\ Phases /\ FailedIsNotListed /\ Overtakes /\ Effects /\ AppliedListed

AppliedStays == \A c \in In({"applied"}) : st'[c] = "applied" /\ appliedIn'[c] = appliedIn[c]

Kept == RInv' /\ AppliedStays

-----------------------------------------------------------------------------
(* The history.                                                             *)

LEMMA AppendLogs ==
  ASSUME Logged, NEW c \in Command, c \notin ToSet(log), log' = Append(log, c)
  PROVE  log' \in Seq(Command) /\ IsInjective(log') /\ ToSet(log') = ToSet(log) \cup {c}
<1>1. log \in Seq(Command)
  BY DEF Logged
<1>2. /\ log' \in Seq(Command) /\ DOMAIN log = 1 .. Len(log) /\ DOMAIN log' = 1 .. Len(log) + 1
      /\ Len(log) \in Nat /\ log'[Len(log) + 1] = c /\ \A i \in 1 .. Len(log) : log'[i] = log[i]
  BY <1>1
<1>3. ToSet(log') = ToSet(log) \cup {c}
  BY <1>2 DEF ToSet
<1>4. \A i \in 1 .. Len(log) : log[i] # c
  BY <1>2 DEF ToSet
<1>5. IsInjective(log')
  BY <1>2, <1>4 DEF IsInjective, Logged, LoggedOnce
<1> QED
  BY <1>2, <1>3, <1>5

\* Nothing that moves commands within the history changes which are in it.
LEMMA LogStays ==
  ASSUME Logged, UNCHANGED <<log, received>>,
         \A c \in Command : st'[c] = "none" <=> st[c] = "none"
  PROVE  Logged'
  BY DEF Logged, LoggedOnce

-----------------------------------------------------------------------------
(* Each operation.                                                          *)

LEMMA RepairKeeps == ASSUME RInv, Repair PROVE Kept
<1> USE DEF In, Unapplied, Listed, Active, SetState, Leave, Raise, Go, Idle, store, manifests, records
<1>1. LocalTyped /\ Logged /\ Based /\ Phases /\ FailedIsNotListed /\ Overtakes /\ Effects /\ AppliedListed
  BY DEF RInv
<1>2. LocalTyped'
  <2>1. current \in 0 .. MaxGeneration
    BY <1>1, RegisterAssumption DEF Based, Generation
  <2> QED
    BY <1>1, <2>1, ReviewAssumption DEF LocalTyped, Repair, RepairCommands, Missing
<1>3. Logged'
  BY <1>1, LogStays DEF LocalTyped, Phases, Repair, RepairCommands, Missing
<1>4. Based'
  BY <1>1 DEF LocalTyped, Logged, LoggedOnce, Based, Phases, Repair, RepairCommands, Missing
<1>5. Phases' /\ FailedIsNotListed' /\ Overtakes'
  BY <1>1 DEF LocalTyped, Based, Phases, FailedIsNotListed, Overtakes, Repair, RepairCommands, Missing
<1>6. Effects'
  BY <1>1, ReviewAssumption DEF LocalTyped, Based, Phases, Overtakes, Effects, Effective, Superseded, Shown, Repair, RepairCommands, Missing
<1>7. AppliedListed' /\ AppliedStays
  BY <1>1 DEF LocalTyped, Based, Phases, AppliedListed, AppliedStays, Repair, RepairCommands, Missing
<1> QED
  BY <1>2, <1>3, <1>4, <1>5, <1>6, <1>7 DEF Kept, RInv

LEMMA MarkApplyingKeeps == ASSUME RInv, MarkApplying PROVE Kept
<1> USE DEF In, Unapplied, Listed, Active, SetState, Leave, Raise, Go, Idle, store, manifests, records
<1>1. LocalTyped /\ Logged /\ Based /\ Phases /\ FailedIsNotListed /\ Overtakes /\ Effects /\ AppliedListed
  BY DEF RInv
<1>2. LocalTyped'
  BY <1>1, ReviewAssumption DEF LocalTyped, Based, MarkApplying
<1>3. Logged'
  BY <1>1, LogStays DEF LocalTyped, Phases, MarkApplying
<1>4. Based'
  BY <1>1 DEF LocalTyped, Logged, LoggedOnce, Based, Phases, MarkApplying
<1>5. Phases' /\ FailedIsNotListed' /\ Overtakes'
  BY <1>1 DEF LocalTyped, Based, Phases, FailedIsNotListed, Overtakes, MarkApplying
<1>6. Effects'
  BY <1>1, ReviewAssumption DEF LocalTyped, Based, Phases, Overtakes, Effects, Effective, Superseded, Shown, MarkApplying
<1>7. AppliedListed' /\ AppliedStays
  BY <1>1 DEF LocalTyped, Based, Phases, AppliedListed, AppliedStays, MarkApplying
<1> QED
  BY <1>2, <1>3, <1>4, <1>5, <1>6, <1>7 DEF Kept, RInv

LEMMA MarkFailedKeeps == ASSUME RInv, MarkFailed PROVE Kept
<1> USE DEF In, Unapplied, Listed, Active, SetState, Leave, Raise, Go, Idle, store, manifests, records
<1>1. LocalTyped /\ Logged /\ Based /\ Phases /\ FailedIsNotListed /\ Overtakes /\ Effects /\ AppliedListed
  BY DEF RInv
<1>2. LocalTyped'
  BY <1>1, ReviewAssumption DEF LocalTyped, Based, MarkFailed
<1>3. Logged'
  BY <1>1, LogStays DEF LocalTyped, Phases, MarkFailed
<1>4. Based'
  BY <1>1 DEF LocalTyped, Logged, LoggedOnce, Based, Phases, MarkFailed
<1>5. Phases' /\ FailedIsNotListed' /\ Overtakes'
  BY <1>1 DEF LocalTyped, Based, Phases, FailedIsNotListed, Overtakes, MarkFailed
<1>6. Effects'
  BY <1>1, ReviewAssumption DEF LocalTyped, Based, Phases, Overtakes, Effects, Effective, Superseded, Shown, MarkFailed
<1>7. AppliedListed' /\ AppliedStays
  BY <1>1 DEF LocalTyped, Based, Phases, AppliedListed, AppliedStays, MarkFailed
<1> QED
  BY <1>2, <1>3, <1>4, <1>5, <1>6, <1>7 DEF Kept, RInv

LEMMA UncertainKeeps == ASSUME RInv, Uncertain PROVE Kept
<1> USE DEF In, Unapplied, Listed, Active, SetState, Leave, Raise, Go, Idle, store, manifests, records
<1>1. LocalTyped /\ Logged /\ Based /\ Phases /\ FailedIsNotListed /\ Overtakes /\ Effects /\ AppliedListed
  BY DEF RInv
<1>2. LocalTyped'
  BY <1>1, ReviewAssumption DEF LocalTyped, Based, Uncertain
<1>3. Logged'
  BY <1>1, LogStays DEF LocalTyped, Phases, Uncertain
<1>4. Based'
  BY <1>1 DEF LocalTyped, Logged, LoggedOnce, Based, Phases, Uncertain
<1>5. Phases' /\ FailedIsNotListed' /\ Overtakes'
  BY <1>1 DEF LocalTyped, Based, Phases, FailedIsNotListed, Overtakes, Uncertain
<1>6. Effects'
  BY <1>1, ReviewAssumption DEF LocalTyped, Based, Phases, Overtakes, Effects, Effective, Superseded, Shown, Uncertain
<1>7. AppliedListed' /\ AppliedStays
  BY <1>1 DEF LocalTyped, Based, Phases, AppliedListed, AppliedStays, Uncertain
<1> QED
  BY <1>2, <1>3, <1>4, <1>5, <1>6, <1>7 DEF Kept, RInv

LEMMA MarkAppliedKeeps == ASSUME RInv, MarkApplied PROVE Kept
<1> USE DEF In, Unapplied, Listed, Active, SetState, Leave, Raise, Go, Idle, store, manifests, records
<1>1. LocalTyped /\ Logged /\ Based /\ Phases /\ FailedIsNotListed /\ Overtakes /\ Effects /\ AppliedListed
  BY DEF RInv
<1>2. LocalTyped'
  <2>1. current \in 0 .. MaxGeneration
    BY <1>1, RegisterAssumption DEF Based, Generation
  <2> QED
    BY <1>1, <2>1, ReviewAssumption DEF LocalTyped, MarkApplied
<1>3. Logged'
  BY <1>1, LogStays DEF LocalTyped, Phases, MarkApplied
<1>4. Based'
  BY <1>1 DEF LocalTyped, Logged, LoggedOnce, Based, Phases, MarkApplied
<1>5. Phases' /\ FailedIsNotListed' /\ Overtakes'
  BY <1>1 DEF LocalTyped, Based, Phases, FailedIsNotListed, Overtakes, MarkApplied
<1>6. Effects'
  BY <1>1, ReviewAssumption DEF LocalTyped, Based, Phases, Overtakes, Effects, Effective, Superseded, Shown, MarkApplied
<1>7. AppliedListed' /\ AppliedStays
  BY <1>1 DEF LocalTyped, Based, Phases, AppliedListed, AppliedStays, MarkApplied
<1> QED
  BY <1>2, <1>3, <1>4, <1>5, <1>6, <1>7 DEF Kept, RInv

LEMMA AbandonKeeps == ASSUME RInv, Abandon PROVE Kept
<1> USE DEF In, Unapplied, Listed, Active, SetState, Leave, Raise, Go, Idle, store, manifests, records
<1>1. LocalTyped /\ Logged /\ Based /\ Phases /\ FailedIsNotListed /\ Overtakes /\ Effects /\ AppliedListed
  BY DEF RInv
<1>2. LocalTyped'
  BY <1>1, ReviewAssumption DEF LocalTyped, Based, Abandon
<1>3. Logged'
  BY <1>1, LogStays DEF LocalTyped, Phases, Abandon
<1>4. Based'
  BY <1>1 DEF LocalTyped, Logged, LoggedOnce, Based, Phases, Abandon
<1>5. Phases' /\ FailedIsNotListed' /\ Overtakes'
  BY <1>1 DEF LocalTyped, Based, Phases, FailedIsNotListed, Overtakes, Abandon
<1>6. Effects'
  BY <1>1, ReviewAssumption DEF LocalTyped, Based, Phases, Overtakes, Effects, Effective, Superseded, Shown, Abandon
<1>7. AppliedListed' /\ AppliedStays
  BY <1>1 DEF LocalTyped, Based, Phases, AppliedListed, AppliedStays, Abandon
<1> QED
  BY <1>2, <1>3, <1>4, <1>5, <1>6, <1>7 DEF Kept, RInv

LEMMA PublishKeeps == ASSUME RInv, Publish PROVE Kept
<1> USE DEF In, Unapplied, Listed, Active, SetState, Leave, Raise, Go, Idle, store, manifests, records
<1>1. LocalTyped /\ Logged /\ Based /\ Phases /\ FailedIsNotListed /\ Overtakes /\ Effects /\ AppliedListed
  BY DEF RInv
<1>2. LocalTyped'
  BY <1>1, ReviewAssumption DEF LocalTyped, Based, Publish, Rebuild, PublishNext, Commit
<1>3. Logged'
  BY <1>1, LogStays DEF LocalTyped, Phases, Publish, Rebuild, PublishNext, Commit
<1>4. Based'
  <2>1. PICK g \in Generation :
          /\ g \notin line /\ current' = g /\ line' = line \cup {g} /\ included'[g] = Listed
          /\ \A h \in line : included'[h] = included[h]
    BY <1>1 DEF LocalTyped, Based, Publish, Rebuild, PublishNext, Commit
  <2>2. UNCHANGED <<base, st>>
    BY DEF Publish, Rebuild, PublishNext, Commit
  <2>3. g # NoGeneration
    BY RegisterAssumption DEF Generation, NoGeneration
  <2>4. line' \subseteq Generation /\ current' \in line' /\ \A c \in Command : base'[c] \in line' \cup {NoGeneration}
    BY <1>1, <2>1, <2>2 DEF Based
  <2>5. \A c \in Listed : base[c] # g /\ st[c] # "none"
    BY <1>1, <2>1, <2>3 DEF Based
  <2>6. \A h \in line' : \A c \in included'[h] : base'[c] # h /\ st'[c] # "none"
    BY <1>1, <2>1, <2>2, <2>5 DEF Based
  <2> QED
    BY <2>4, <2>6 DEF Based
<1>5. Phases' /\ FailedIsNotListed' /\ Overtakes'
  BY <1>1 DEF LocalTyped, Based, Phases, FailedIsNotListed, Overtakes, Publish, Rebuild, PublishNext, Commit
<1>6. Effects'
  BY <1>1, ReviewAssumption DEF LocalTyped, Based, Phases, Overtakes, Effects, Effective, Superseded, Shown, Publish, Rebuild, PublishNext, Commit
<1>7. AppliedListed' /\ AppliedStays
  BY <1>1 DEF LocalTyped, Based, Phases, AppliedListed, AppliedStays, Publish, Rebuild, PublishNext, Commit
<1> QED
  BY <1>2, <1>3, <1>4, <1>5, <1>6, <1>7 DEF Kept, RInv

LEMMA ProcessKeeps == ASSUME RInv, Process PROVE Kept
<1> USE DEF In, Unapplied, Listed, Active, SetState, Leave, Raise, Go, Idle, store, manifests, records
<1>1. LocalTyped /\ Logged /\ Based /\ Phases /\ FailedIsNotListed /\ Overtakes /\ Effects /\ AppliedListed
  BY DEF RInv
<1>2. LocalTyped'
  BY <1>1, ReviewAssumption DEF LocalTyped, Based, Process, Rebuild, PublishNext, Commit
<1>3. Logged'
  BY <1>1, LogStays DEF LocalTyped, Phases, Process, Rebuild, PublishNext, Commit
<1>4. Based'
  <2>1. PICK g \in Generation :
          /\ g \notin line /\ current' = g /\ line' = line \cup {g} /\ included'[g] = Listed
          /\ \A h \in line : included'[h] = included[h]
    BY <1>1 DEF LocalTyped, Based, Process, Rebuild, PublishNext, Commit
  <2>2. UNCHANGED <<base, st>>
    BY DEF Process, Rebuild, PublishNext, Commit
  <2>3. g # NoGeneration
    BY RegisterAssumption DEF Generation, NoGeneration
  <2>4. line' \subseteq Generation /\ current' \in line' /\ \A c \in Command : base'[c] \in line' \cup {NoGeneration}
    BY <1>1, <2>1, <2>2 DEF Based
  <2>5. \A c \in Listed : base[c] # g /\ st[c] # "none"
    BY <1>1, <2>1, <2>3 DEF Based
  <2>6. \A h \in line' : \A c \in included'[h] : base'[c] # h /\ st'[c] # "none"
    BY <1>1, <2>1, <2>2, <2>5 DEF Based
  <2> QED
    BY <2>4, <2>6 DEF Based
<1>5. Phases' /\ FailedIsNotListed' /\ Overtakes'
  BY <1>1 DEF LocalTyped, Based, Phases, FailedIsNotListed, Overtakes, Process, Rebuild, PublishNext, Commit
<1>6. Effects'
  BY <1>1, ReviewAssumption DEF LocalTyped, Based, Phases, Overtakes, Effects, Effective, Superseded, Shown, Process, Rebuild, PublishNext, Commit
<1>7. AppliedListed' /\ AppliedStays
  BY <1>1 DEF LocalTyped, Based, Phases, AppliedListed, AppliedStays, Process, Rebuild, PublishNext, Commit
<1> QED
  BY <1>2, <1>3, <1>4, <1>5, <1>6, <1>7 DEF Kept, RInv

LEMMA ReplaceKeeps == ASSUME RInv, Replace PROVE Kept
<1> USE DEF In, Unapplied, Listed, Active, SetState, Leave, Raise, Go, Idle, store, manifests, records
<1>1. LocalTyped /\ Logged /\ Based /\ Phases /\ FailedIsNotListed /\ Overtakes /\ Effects /\ AppliedListed
  BY DEF RInv
<1>2. LocalTyped'
  BY <1>1, ReviewAssumption DEF LocalTyped, Based, Replace, PublishNext, Commit
<1>3. Logged'
  BY <1>1, LogStays DEF LocalTyped, Phases, Replace, PublishNext, Commit
<1>4. Based'
  <2>1. PICK g \in Generation :
          /\ g \notin line /\ current' = g /\ line' = line \cup {g} /\ included'[g] = Listed
          /\ \A h \in line : included'[h] = included[h]
    BY <1>1 DEF LocalTyped, Based, Replace, PublishNext, Commit
  <2>2. UNCHANGED <<base, st>>
    BY DEF Replace, PublishNext, Commit
  <2>3. g # NoGeneration
    BY RegisterAssumption DEF Generation, NoGeneration
  <2>4. line' \subseteq Generation /\ current' \in line' /\ \A c \in Command : base'[c] \in line' \cup {NoGeneration}
    BY <1>1, <2>1, <2>2 DEF Based
  <2>5. \A c \in Listed : base[c] # g /\ st[c] # "none"
    BY <1>1, <2>1, <2>3 DEF Based
  <2>6. \A h \in line' : \A c \in included'[h] : base'[c] # h /\ st'[c] # "none"
    BY <1>1, <2>1, <2>2, <2>5 DEF Based
  <2> QED
    BY <2>4, <2>6 DEF Based
<1>5. Phases' /\ FailedIsNotListed' /\ Overtakes'
  BY <1>1 DEF LocalTyped, Based, Phases, FailedIsNotListed, Overtakes, Replace, PublishNext, Commit
<1>6. Effects'
  BY <1>1, ReviewAssumption DEF LocalTyped, Based, Phases, Overtakes, Effects, Effective, Superseded, Shown, Replace, PublishNext, Commit
<1>7. AppliedListed' /\ AppliedStays
  BY <1>1 DEF LocalTyped, Based, Phases, AppliedListed, AppliedStays, Replace, PublishNext, Commit
<1> QED
  BY <1>2, <1>3, <1>4, <1>5, <1>6, <1>7 DEF Kept, RInv

LEMMA CrashKeeps == ASSUME RInv, Crash PROVE Kept
<1> USE DEF In, Unapplied, Listed, Active, SetState, Leave, Raise, Go, Idle, store, manifests, records
<1>1. LocalTyped /\ Logged /\ Based /\ Phases /\ FailedIsNotListed /\ Overtakes /\ Effects /\ AppliedListed
  BY DEF RInv
<1>2. LocalTyped'
  BY <1>1, ReviewAssumption DEF LocalTyped, Based, Crash
<1>3. Logged'
  BY <1>1, LogStays DEF LocalTyped, Phases, Crash
<1>4. Based'
  BY <1>1 DEF LocalTyped, Logged, LoggedOnce, Based, Phases, Crash
<1>5. Phases' /\ FailedIsNotListed' /\ Overtakes'
  BY <1>1 DEF LocalTyped, Based, Phases, FailedIsNotListed, Overtakes, Crash
<1>6. Effects'
  BY <1>1, ReviewAssumption DEF LocalTyped, Based, Phases, Overtakes, Effects, Effective, Superseded, Shown, Crash
<1>7. AppliedListed' /\ AppliedStays
  BY <1>1 DEF LocalTyped, Based, Phases, AppliedListed, AppliedStays, Crash
<1> QED
  BY <1>2, <1>3, <1>4, <1>5, <1>6, <1>7 DEF Kept, RInv

LEMMA RestartKeeps == ASSUME RInv, Restart PROVE Kept
<1> USE DEF In, Unapplied, Listed, Active, SetState, Leave, Raise, Go, Idle, store, manifests, records
<1>1. LocalTyped /\ Logged /\ Based /\ Phases /\ FailedIsNotListed /\ Overtakes /\ Effects /\ AppliedListed
  BY DEF RInv
<1>2. LocalTyped'
  <2>1. current \in 0 .. MaxGeneration
    BY <1>1, RegisterAssumption DEF Based, Generation
  <2> QED
    BY <1>1, <2>1, ReviewAssumption DEF LocalTyped, Restart, RepairCommands, Missing
<1>3. Logged'
  BY <1>1, LogStays DEF LocalTyped, Phases, Restart, RepairCommands, Missing
<1>4. Based'
  BY <1>1 DEF LocalTyped, Logged, LoggedOnce, Based, Phases, Restart, RepairCommands, Missing
<1>5. Phases' /\ FailedIsNotListed' /\ Overtakes'
  BY <1>1 DEF LocalTyped, Based, Phases, FailedIsNotListed, Overtakes, Restart, RepairCommands, Missing
<1>6. Effects'
  BY <1>1, ReviewAssumption DEF LocalTyped, Based, Phases, Overtakes, Effects, Effective, Superseded, Shown, Restart, RepairCommands, Missing
<1>7. AppliedListed' /\ AppliedStays
  BY <1>1 DEF LocalTyped, Based, Phases, AppliedListed, AppliedStays, Restart, RepairCommands, Missing
<1> QED
  BY <1>2, <1>3, <1>4, <1>5, <1>6, <1>7 DEF Kept, RInv

LEMMA SubmitKeeps == ASSUME RInv, NEW c \in Command, Submit(c) PROVE Kept
<1> USE DEF In, Unapplied, Listed, Active, SetState, Leave, Raise, Go, Idle, store, manifests, records
<1>1. LocalTyped /\ Logged /\ Based /\ Phases /\ FailedIsNotListed /\ Overtakes /\ Effects /\ AppliedListed
  BY DEF RInv
<1>2. st[c] \notin {"applying", "applied"} /\ (st[c] # "committed" => c \notin included[current])
  BY <1>1 DEF Logged, LoggedOnce, Based, Submit, Known
<1>3. LocalTyped'
  <2>1. current \in 0 .. MaxGeneration
    BY <1>1, RegisterAssumption DEF Based, Generation
  <2> QED
    BY <1>1, <2>1 DEF LocalTyped, Submit, Known
<1>4. Logged'
  <2>1. CASE log' = log /\ received' = received
    BY <1>1, <2>1 DEF LocalTyped, Logged, LoggedOnce, Submit, Known
  <2>2. CASE log' = log /\ received' # received
    BY <1>1, <2>2 DEF LocalTyped, Logged, LoggedOnce, Submit, Known
  <2>3. CASE log' # log
    <3>1. log' = Append(log, c) /\ c \notin ToSet(log) /\ c \notin received'
      BY <1>1, <2>3 DEF Logged, LoggedOnce, Submit, Known
    <3>2. log' \in Seq(Command) /\ IsInjective(log') /\ ToSet(log') = ToSet(log) \cup {c}
      BY <1>1, <3>1, AppendLogs
    <3>3. st' = [st EXCEPT ![c] = "committed"] /\ received' \subseteq received
      BY <1>1, <2>3 DEF LocalTyped, Submit, Known
    <3> QED
      BY <1>1, <3>1, <3>2, <3>3 DEF LocalTyped, Logged, LoggedOnce
  <2> QED
    BY <2>1, <2>2, <2>3
<1>5. Based'
  BY <1>1, <1>2 DEF LocalTyped, Logged, LoggedOnce, Based, Submit, Known
<1>6. Phases' /\ FailedIsNotListed' /\ Overtakes'
  BY <1>1, <1>2 DEF LocalTyped, Phases, FailedIsNotListed, Overtakes, Submit, Known
<1>7. Effects'
  <2>1. Effective' = Effective
    BY <1>1, <1>2 DEF LocalTyped, Effective, Submit, Known
  <2>2. UNCHANGED <<current, effect, overtaken, misread>>
    BY DEF Submit, Known
  <2> QED
    BY <1>1, <2>1, <2>2 DEF Effects, Superseded, Shown
<1>8. AppliedListed' /\ AppliedStays
  BY <1>1, <1>2 DEF LocalTyped, AppliedListed, AppliedStays, Submit, Known
<1> QED
  BY <1>3, <1>4, <1>5, <1>6, <1>7, <1>8 DEF Kept, RInv

LEMMA RecoverCommandKeeps == ASSUME RInv, NEW c \in Command, RecoverCommand(c) PROVE Kept
<1> USE DEF In, Unapplied, Listed, Active, SetState, Leave, Raise, Go, Idle, store, manifests, records
<1>1. LocalTyped /\ Logged /\ Based /\ Phases /\ FailedIsNotListed /\ Overtakes /\ Effects /\ AppliedListed
  BY DEF RInv
<1>2. st[c] \notin {"applying", "applied"} /\ (st[c] # "committed" => c \notin included[current])
  BY <1>1 DEF Logged, LoggedOnce, Based, RecoverCommand
<1>3. LocalTyped'
  <2>1. current \in 0 .. MaxGeneration
    BY <1>1, RegisterAssumption DEF Based, Generation
  <2> QED
    BY <1>1, <2>1 DEF LocalTyped, RecoverCommand
<1>4. Logged'
  <2>1. CASE log' = log /\ received' = received
    BY <1>1, <2>1 DEF LocalTyped, Logged, LoggedOnce, RecoverCommand
  <2>2. CASE log' = log /\ received' # received
    BY <1>1, <2>2 DEF LocalTyped, Logged, LoggedOnce, RecoverCommand
  <2>3. CASE log' # log
    <3>1. log' = Append(log, c) /\ c \notin ToSet(log) /\ c \notin received'
      BY <1>1, <2>3 DEF Logged, LoggedOnce, RecoverCommand
    <3>2. log' \in Seq(Command) /\ IsInjective(log') /\ ToSet(log') = ToSet(log) \cup {c}
      BY <1>1, <3>1, AppendLogs
    <3>3. st' = [st EXCEPT ![c] = "committed"] /\ received' \subseteq received
      BY <1>1, <2>3 DEF LocalTyped, RecoverCommand
    <3> QED
      BY <1>1, <3>1, <3>2, <3>3 DEF LocalTyped, Logged, LoggedOnce
  <2> QED
    BY <2>1, <2>2, <2>3
<1>5. Based'
  BY <1>1, <1>2 DEF LocalTyped, Logged, LoggedOnce, Based, RecoverCommand
<1>6. Phases' /\ FailedIsNotListed' /\ Overtakes'
  BY <1>1, <1>2 DEF LocalTyped, Phases, FailedIsNotListed, Overtakes, RecoverCommand
<1>7. Effects'
  <2>1. Effective' = Effective
    BY <1>1, <1>2 DEF LocalTyped, Effective, RecoverCommand
  <2>2. UNCHANGED <<current, effect, overtaken, misread>>
    BY DEF RecoverCommand
  <2> QED
    BY <1>1, <2>1, <2>2 DEF Effects, Superseded, Shown
<1>8. AppliedListed' /\ AppliedStays
  BY <1>1, <1>2 DEF LocalTyped, AppliedListed, AppliedStays, RecoverCommand
<1> QED
  BY <1>3, <1>4, <1>5, <1>6, <1>7, <1>8 DEF Kept, RInv

-----------------------------------------------------------------------------
LEMMA InitRInv == ReviewInit => RInv
<1> SUFFICES ASSUME ReviewInit PROVE RInv
  OBVIOUS
<1> USE DEF ReviewInit, In
<1>1. line = Generation \cap 1 .. Past /\ current = Past /\ current \in line
  BY RegisterAssumption, ReviewAssumption DEF Init, Generation, NoGeneration
<1>2. LocalTyped
  BY ReviewAssumption, RegisterAssumption DEF LocalTyped, NoGeneration
<1>3. log \in Seq(Command) /\ ToSet(log) = {} /\ IsInjective(log)
  BY DEF ToSet, IsInjective
<1>4. Logged
  BY <1>3 DEF Logged, LoggedOnce
<1>5. Based
  BY <1>1 DEF Based, NoGeneration
<1>6. Phases /\ FailedIsNotListed /\ Overtakes /\ Effects /\ AppliedListed
  BY <1>1 DEF Phases, FailedIsNotListed, Overtakes, Effects, Effective, AppliedListed
<1> QED
  BY <1>2, <1>4, <1>5, <1>6 DEF RInv

LEMMA NextKeeps == ASSUME RInv, [ReviewNext]_rvars PROVE Kept
<1>1. CASE UNCHANGED rvars
  <2>1. RInv'
    BY <1>1 DEF rvars, store, records, manifests, RInv, LocalTyped, Logged, LoggedOnce, Based, Phases,
                FailedIsNotListed, Overtakes, Effects, Effective, Superseded, Shown, AppliedListed,
                In, Unapplied
  <2>2. AppliedStays
    BY <1>1 DEF rvars, records, AppliedStays, In
  <2> QED
    BY <2>1, <2>2 DEF Kept
<1>2. ASSUME NEW c \in Command, Submit(c) \/ RecoverCommand(c) PROVE Kept
  BY <1>2, SubmitKeeps, RecoverCommandKeeps
<1>3. CASE Proceed
  BY <1>3, RepairKeeps, MarkApplyingKeeps, MarkFailedKeeps, PublishKeeps, UncertainKeeps, MarkAppliedKeeps,
     AbandonKeeps DEF Proceed
<1>4. CASE Process \/ Replace \/ Crash \/ Restart
  BY <1>4, ProcessKeeps, ReplaceKeeps, CrashKeeps, RestartKeeps
<1> QED
  BY <1>1, <1>2, <1>3, <1>4 DEF ReviewNext

LEMMA Invariant == ReviewSpec => []RInv
<1>1. RInv /\ [ReviewNext]_rvars => RInv'
  BY NextKeeps DEF Kept
<1> QED
  BY InitRInv, <1>1, PTL DEF ReviewSpec

(* Every record stays well-typed, and however often a request is repeated, left *)
(* received, recovered or retried, its command enters the history once          *)
(* (CorrectionLog, review_service.py).                                          *)
THEOREM ReviewTypeCorrect == ReviewSpec => []ReviewTypeOK
<1>1. RInv => ReviewTypeOK
  BY DEF RInv, ReviewTypeOK, LocalTyped, Logged
<1> QED
  BY Invariant, <1>1, PTL

(* What the history calls applied is listed by a committed generation and shown *)
(* by the current one, with the exceptions that AppliedIsShown names            *)
(* (apply_pending_locked and repair_commands).                                  *)
THEOREM AppliedStaysShown == ReviewSpec => []AppliedIsShown
<1>1. RInv => AppliedIsShown
  <2> SUFFICES ASSUME RInv, NEW c \in In({"applied"})
               PROVE  /\ appliedIn[c] \in line /\ c \in included[appliedIn[c]]
                      /\ Undone(c) \/ c \in overtaken \/ Shown(c)
    BY DEF AppliedIsShown
  <2>1. appliedIn[c] \in line /\ c \in included[appliedIn[c]]
    BY DEF RInv, AppliedListed
  <2>2. c \in overtaken \/ Shown(c) \/ Superseded(c)
    BY DEF RInv, Effects, Effective
  <2>3. Superseded(c) => Undone(c)
    BY DEF RInv, LocalTyped, Superseded, Undone, Effective, In
  <2> QED
    BY <2>1, <2>2, <2>3
<1> QED
  BY Invariant, <1>1, PTL

(* A failed command is not listed by the current generation, so that it may be *)
(* recovered and repair_commands does not find it missing.                      *)
THEOREM FailedStaysUnlisted == ReviewSpec => []FailedIsNotListed
<1>1. RInv => FailedIsNotListed
  BY DEF RInv
<1> QED
  BY Invariant, <1>1, PTL

(* No operation, failure, crash or restart takes back that a command was       *)
(* applied, or applies it in a second generation.                               *)
THEOREM AppliedOnlyOnce == ReviewSpec => AppliedOnce
<1>1. RInv /\ [ReviewNext]_rvars
        => [\A c \in In({"applied"}) : st'[c] = "applied" /\ appliedIn'[c] = appliedIn[c]]_rvars
  BY NextKeeps DEF Kept, AppliedStays
<1> QED
  BY Invariant, <1>1, PTL DEF ReviewSpec, AppliedOnce

-----------------------------------------------------------------------------
(* The register below: what it promises, and that the review service keeps  *)
(* to its operations.                                                       *)

\* What is current, the way back, cited or pinned was committed and can be read.
Promised ==
  /\ kept \subseteq line /\ line \subseteq Generation
  /\ current # NoGeneration => current \in kept
  /\ Rollback # NoGeneration => Rollback \in kept
  /\ cited \subseteq kept
  /\ \A r \in Reader : pinned[r] # NoGeneration => pinned[r] \in kept

RegisterInv ==
  /\ Promised
  /\ current \in 0 .. MaxGeneration
  /\ parent \in [Generation -> 0 .. MaxGeneration]
  /\ pinned \in [Reader -> 0 .. MaxGeneration]

LEMMA RegisterStarts == Init => RegisterInv
<1> SUFFICES ASSUME Init PROVE RegisterInv
  OBVIOUS
<1>1. /\ current \in 0 .. MaxGeneration /\ current \in Nat /\ line = 1 .. current
      /\ parent = [g \in Generation |-> IF g \in line THEN g - 1 ELSE NoGeneration]
      /\ pinned = [r \in Reader |-> NoGeneration] /\ cited = {}
      /\ kept \in {line} \cup IF current > 2 THEN {line \ {1}} ELSE {}
  BY RegisterAssumption DEF Init, NoGeneration
<1>2. line \subseteq Generation
  BY <1>1, RegisterAssumption DEF Generation
<1>3. parent \in [Generation -> 0 .. MaxGeneration]
  <2>1. \A g \in Generation : (IF g \in line THEN g - 1 ELSE NoGeneration) \in 0 .. MaxGeneration
    BY RegisterAssumption DEF Generation, NoGeneration
  <2> QED
    BY <1>1, <2>1
<1>4. kept = line \/ (current > 2 /\ kept = line \ {1})
  BY <1>1
<1>5. current # NoGeneration => /\ current \in line /\ Rollback = current - 1
                                /\ current - 1 \in line \/ current - 1 = NoGeneration
  BY <1>1, <1>2 DEF Rollback, NoGeneration, Generation
<1>6. current = NoGeneration => Rollback = NoGeneration
  BY DEF Rollback
<1>7. /\ current # NoGeneration => current \in kept
      /\ Rollback # NoGeneration => Rollback \in kept
  BY <1>1, <1>4, <1>5, <1>6 DEF NoGeneration
<1> QED
  BY <1>1, <1>2, <1>3, <1>4, <1>7, RegisterAssumption DEF RegisterInv, Promised, NoGeneration

LEMMA RegisterSteps == RegisterInv /\ [Next]_vars => RegisterInv'
<1> SUFFICES ASSUME RegisterInv, [Next]_vars PROVE RegisterInv'
  OBVIOUS
<1> USE DEF RegisterInv, Promised
<1>1. CASE UNCHANGED vars
  BY <1>1 DEF vars, Rollback
<1>2. ASSUME NEW g \in Generation, Commit(g) PROVE RegisterInv'
  <2>1. /\ current' = g /\ line' = line \cup {g} /\ kept' = kept \cup {g}
        /\ parent' = [parent EXCEPT ![g] = current] /\ pinned' = pinned /\ cited' = cited
    BY <1>2 DEF Commit
  <2>2. g \in 0 .. MaxGeneration /\ g # NoGeneration
    BY RegisterAssumption DEF Generation, NoGeneration
  <2>3. parent' \in [Generation -> 0 .. MaxGeneration] /\ parent'[g] = current
    BY <2>1
  <2>4. Rollback' = current
    BY <2>1, <2>2, <2>3 DEF Rollback
  <2> QED
    BY <2>1, <2>2, <2>3, <2>4
<1>3. ASSUME NEW g \in Generation, Cite(g) PROVE RegisterInv'
  <2>1. g \in kept
    BY <1>3 DEF Cite, Generation, NoGeneration
  <2> QED
    BY <1>3, <2>1 DEF Cite, Rollback
<1>4. ASSUME NEW g \in Generation, Retire(g) PROVE RegisterInv'
  BY <1>4 DEF Retire, Rollback
<1>5. ASSUME NEW r \in Reader, Unpin(r) PROVE RegisterInv'
  <2>1. pinned' \in [Reader -> 0 .. MaxGeneration] /\ \A q \in Reader : pinned'[q] \in {pinned[q], NoGeneration}
    BY <1>5, RegisterAssumption DEF Unpin, NoGeneration
  <2> QED
    BY <1>5, <2>1 DEF Unpin, Rollback
<1>6. ASSUME NEW r \in Reader, NEW g \in Generation, Pin(r, g) PROVE RegisterInv'
  <2>1. pinned' \in [Reader -> 0 .. MaxGeneration] /\ \A q \in Reader : pinned'[q] \in {pinned[q], g}
    BY <1>6, RegisterAssumption DEF Pin, Generation
  <2> QED
    BY <1>6, <2>1 DEF Pin, Rollback
<1> QED
  BY <1>1, <1>2, <1>3, <1>4, <1>5, <1>6 DEF Next

\* The register keeps what its users name: the current generation, the one to roll
\* back to, what documents cite and what readers pinned were committed and stay readable.
THEOREM RegisterKeepsPromise == Spec => []Promised
<1>1. RegisterInv => Promised
  BY DEF RegisterInv
<1> QED
  BY <1>1, RegisterStarts, RegisterSteps, PTL DEF Spec

\* The review service changes the generations by commits of the register only, each
\* of which replaces the generation that is current at that step.
THEOREM ReviewUsesRegister == ReviewSpec => Spec
<1>1. ReviewInit => Init
  BY DEF ReviewInit
<1>2. ASSUME [ReviewNext]_rvars PROVE [Next]_vars
  <2>1. CASE UNCHANGED store
    BY <2>1 DEF store, vars
  <2>2. CASE \E shown : PublishNext(shown)
    BY <2>2 DEF PublishNext, Next
  <2>3. UNCHANGED store \/ \E shown : PublishNext(shown)
    BY <1>2 DEF ReviewNext, rvars, Submit, RecoverCommand, Proceed, Repair, MarkApplying, MarkFailed, Publish,
       Rebuild, Uncertain, MarkApplied, Abandon, Process, Replace, Crash, Restart
  <2> QED
    BY <2>1, <2>2, <2>3
<1> QED
  BY <1>1, <1>2, PTL DEF Spec, ReviewSpec

\* So the current generation and the way back stay readable under review commands.
COROLLARY ReviewedStaysReadable == ReviewSpec => []Promised
  BY RegisterKeepsPromise, ReviewUsesRegister, PTL
=============================================================================
