--------------------------- MODULE ReviewCommands ---------------------------
(***************************************************************************)
(* Review commands of one match (review_service.py, workbench/review.py):  *)
(* corrections and undos are kept in a log and take effect in generations. *)
(* A generation's manifest lists the commands it includes; the log's       *)
(* apply state follows it, not the other way round, so that after a crash  *)
(* the manifest tells which commands took effect.  The store of            *)
(* generations appears here as the register it implements (Generations).   *)
(* Every operation holds the match's review lock from its first read to    *)
(* its last write, so operations do not interleave; they stop in the       *)
(* middle.  The match has been processed before.                           *)
(***************************************************************************)
EXTENDS GenerationRegister, Sequences, SequencesExt

CONSTANTS
  Command,      \* the commands that clients may issue
  UndoOf,       \* for each command the one that it undoes, or NoCommand
  NoCommand,
  MaxFaults     \* bound of the model: crashes and input/output errors

ASSUME ReviewAssumption ==
  /\ NoCommand \notin Command
  /\ UndoOf \in [Command -> Command \cup {NoCommand}]
  /\ \A u \in Command : UndoOf[u] # NoCommand => UndoOf[UndoOf[u]] = NoCommand
  /\ MaxFaults \in Nat /\ Past > 0

VARIABLES
  st,         \* applyState of the commands in the history, "none" for others
  log,        \* the history, CorrectionLog._items, in the order of versions
  received,   \* commands received but not committed, CorrectionLog._pending
  base,       \* baseGeneration
  appliedIn,  \* appliedGeneration
  included,   \* includedCommandIds of each manifest
  effect,     \* the commands whose effect each generation shows
  server,     \* the API: up, down, or starting (inside Storage.__init__)
  phase,      \* how far the operation that holds the review lock is
  pending,    \* the commands it applies
  overtaken,  \* commands listed by the current manifest while merely committed
  misread,    \* commands marked failed although their generation was committed
  faults

store == <<current, line, parent, kept, pinned, cited>>
records == <<st, log, received, base, appliedIn, misread>>
manifests == <<included, effect, overtaken>>
rvars == <<store, records, manifests, server, phase, pending, faults>>

(* However often a request is repeated, left received, recovered or retried,  *)
(* its command enters the history once.                                       *)
LoggedOnce ==
  /\ IsInjective(log)
  /\ ToSet(log) = {c \in Command : st[c] # "none"} /\ ToSet(log) \cap received = {}

ReviewTypeOK ==
  /\ LoggedOnce
  /\ st \in [Command -> {"none", "committed", "applying", "applied", "failed"}]
  /\ log \in Seq(Command) /\ received \subseteq Command
  /\ base \in [Command -> 0 .. MaxGeneration] /\ appliedIn \in [Command -> 0 .. MaxGeneration]
  /\ included \in [Generation -> SUBSET Command] /\ effect \in [Generation -> SUBSET Command]
  /\ server \in {"up", "down", "starting"}
  /\ phase \in {"free", "apply", "repaired", "marked", "published"}
  /\ pending \subseteq Command /\ misread \subseteq Command /\ overtaken \subseteq Command
  /\ faults \in 0 .. MaxFaults

ReviewInit ==
  /\ Init /\ current # NoGeneration
  /\ st = [c \in Command |-> "none"]
  /\ log = <<>> /\ received = {}
  /\ base = [c \in Command |-> NoGeneration] /\ appliedIn = [c \in Command |-> NoGeneration]
  /\ included = [g \in Generation |-> {}] /\ effect = [g \in Generation |-> {}]
  /\ server = "up" /\ phase = "free"
  /\ pending = {} /\ misread = {} /\ overtaken = {}
  /\ faults = 0

-----------------------------------------------------------------------------
(* The log.                                                                 *)

In(states) == {c \in Command : st[c] \in states}
Unapplied == In({"committed", "applying"})

\* command_metadata: what a manifest that is made now lists.
Listed == In({"committed", "applying", "applied"})

\* Variant: commands that are being applied are not active yet.
ActiveApplied ==
  LET Standing == In({"applied"})
  IN {c \in Standing : UndoOf[c] = NoCommand /\ \A u \in Standing : UndoOf[u] # c}

\* active_commands: what a generation that is made now shows.
Active ==
  LET Standing == In({"applying", "applied"})
  IN {c \in Standing : UndoOf[c] = NoCommand /\ \A u \in Standing : UndoOf[u] # c}

SetState(S, s) == st' = [c \in Command |-> IF c \in S THEN s ELSE st[c]]

Idle == server = "up" /\ phase = "free"
Go(p) == phase' = p /\ UNCHANGED server

\* The operation ends.  An exception inside Storage.__init__ ends the server too.
Leave == phase' = "free" /\ server' = "up" /\ pending' = {}
Raise == phase' = "free" /\ server' = (IF server = "starting" THEN "down" ELSE server) /\ pending' = {}

-----------------------------------------------------------------------------
(* Submitting and recovering commands.                                      *)

\* Variant: a request is looked up in the history only.
KnownInHistory(c) == c \in ToSet(log)

\* A request with a known command id or idempotency key gets its receipt.
Known(c) == c \in ToSet(log) \cup received

\* validate_undo; what else is validated is left open.
Admissible(c) == UndoOf[c] # NoCommand => UndoOf[c] \in Active \cap In({"applied"})

\* crashBeforeCommit leaves the command received, outside of the history.
Submit(c) ==
  /\ Idle /\ ~Known(c) /\ Admissible(c)
  /\ base' = [base EXCEPT ![c] = current]
  /\ \/ SetState({c}, "committed") /\ log' = Append(log, c) /\ UNCHANGED received /\ Go("apply")
     \/ received' = received \cup {c} /\ UNCHANGED <<st, log>> /\ Go("free")
  /\ UNCHANGED <<store, appliedIn, misread, manifests, pending, faults>>

\* A received or failed command may be taken up while its source is current.
RecoverCommand(c) ==
  /\ Idle
  /\ \/ /\ c \in received /\ base[c] = current
        /\ log' = Append(log, c) /\ received' = received \ {c}
     \/ /\ st[c] = "committed" \/ (st[c] = "failed" /\ base[c] = current)
        /\ UNCHANGED <<log, received>>
  /\ SetState({c}, "committed")
  /\ Go("apply")
  /\ UNCHANGED <<store, base, appliedIn, misread, manifests, pending, faults>>

-----------------------------------------------------------------------------
(* Applying what is pending.                                                *)

\* The current manifest lists a command that the log holds to be failed.
Missing == included[current] \ Listed

\* Variant: every listed command is said to be applied by the current generation.
RepairAll ==
  /\ SetState(included[current], "applied")
  /\ appliedIn' = [c \in Command |-> IF c \in included[current] THEN current ELSE appliedIn[c]]

\* repair_commands, once nothing is missing.
RepairCommands ==
  LET overdue == included[current] \cap Unapplied
  IN /\ SetState(overdue, "applied")
     /\ appliedIn' = [c \in Command |-> IF c \in overdue THEN current ELSE appliedIn[c]]

Repair ==
  /\ phase = "apply"
  /\ \/ Missing # {} /\ Raise /\ UNCHANGED <<st, appliedIn>>
     \/ Missing = {} /\ RepairCommands /\ Go("repaired") /\ UNCHANGED pending
  /\ UNCHANGED <<store, log, received, base, misread, manifests, faults>>

MarkApplying ==
  /\ phase = "repaired"
  /\ \/ Unapplied = {} /\ Leave /\ UNCHANGED st
     \/ Unapplied # {} /\ SetState(Unapplied, "applying") /\ pending' = Unapplied /\ Go("marked")
  /\ UNCHANGED <<store, log, received, base, appliedIn, misread, manifests, faults>>

\* The commands cannot be materialised, or the candidate cannot be published.
MarkFailed ==
  /\ phase = "marked"
  /\ SetState(pending, "failed")
  /\ Raise
  /\ UNCHANGED <<store, log, received, base, appliedIn, misread, manifests, faults>>

\* A new generation, with the next number of the model.
PublishNext(shown) ==
  \E g \in Generation :
    /\ g = Cardinality(line) + 1 /\ Commit(g)
    /\ included' = [included EXCEPT ![g] = Listed]
    /\ effect' = [effect EXCEPT ![g] = shown]

\* It is made from the observations and the active commands.
Rebuild == PublishNext(Active) /\ overtaken' = In({"committed"})

Publish ==
  /\ phase = "marked"
  /\ Rebuild
  /\ Go("published")
  /\ UNCHANGED <<records, pending, faults>>

\* Variant: an error after the pointer was replaced is taken for a failure.
UncertainFails ==
  /\ phase = "published" /\ faults < MaxFaults
  /\ faults' = faults + 1
  /\ SetState(pending, "failed") /\ UNCHANGED misread
  /\ Raise
  /\ UNCHANGED <<store, log, received, base, appliedIn, manifests>>

\* An error after the pointer was replaced.  GenerationCommitUncertain, or an error
\* while the log is saved, leaves the commands applying; an error when the new
\* generation is read back at the very end of the publication is an ordinary one.
Uncertain ==
  /\ phase = "published" /\ faults < MaxFaults
  /\ faults' = faults + 1
  /\ \/ UNCHANGED <<st, misread>>
     \/ SetState(pending, "failed") /\ misread' = misread \cup pending
  /\ Raise
  /\ UNCHANGED <<store, log, received, base, appliedIn, manifests>>

MarkApplied ==
  /\ phase = "published"
  /\ SetState(pending, "applied")
  /\ appliedIn' = [c \in Command |-> IF c \in pending THEN current ELSE appliedIn[c]]
  /\ Leave
  /\ UNCHANGED <<store, log, received, base, misread, manifests, faults>>

\* An input/output error before: the log stays as it was saved last.
Abandon ==
  /\ phase \in {"apply", "repaired", "marked"} /\ faults < MaxFaults
  /\ faults' = faults + 1
  /\ Raise
  /\ UNCHANGED <<store, records, manifests>>

-----------------------------------------------------------------------------
(* Other publications of the match.                                         *)

\* A worker, or a recomputation: what is committed is listed but not applied.
Process ==
  /\ Idle
  /\ Rebuild
  /\ UNCHANGED <<records, server, phase, pending, faults>>

\* _publish_replacement: one derived value of the current generation is replaced.
Replace ==
  /\ Idle
  /\ Unapplied = {}
  /\ PublishNext(effect[current])
  /\ UNCHANGED <<overtaken, records, server, phase, pending, faults>>

-----------------------------------------------------------------------------
(* Crashes and restarts.                                                    *)

Crash ==
  /\ server # "down" /\ faults < MaxFaults
  /\ faults' = faults + 1
  /\ server' = "down" /\ phase' = "free" /\ pending' = {}
  /\ UNCHANGED <<store, records, manifests>>

\* Variant: only the generations are recovered.
RestartRepairs ==
  /\ server = "down"
  /\ Leave
  /\ IF Missing = {} THEN RepairCommands ELSE UNCHANGED <<st, appliedIn>>
  /\ UNCHANGED <<store, log, received, base, misread, manifests, faults>>

\* Storage.__init__: generations are recovered, with their commands; a store that
\* cannot be recovered, or read, is noted; otherwise what is pending is applied.
Restart ==
  /\ server = "down"
  /\ \/ Missing # {} /\ Leave /\ UNCHANGED <<st, appliedIn, faults>>
     \/ faults < MaxFaults /\ faults' = faults + 1 /\ Leave /\ UNCHANGED <<st, appliedIn>>
     \/ /\ Missing = {} /\ RepairCommands /\ UNCHANGED faults
        /\ IF Unapplied \subseteq included[current]
           THEN Leave
           ELSE server' = "starting" /\ phase' = "apply" /\ UNCHANGED pending
  /\ UNCHANGED <<store, log, received, base, misread, manifests>>

Proceed ==
  Repair \/ MarkApplying \/ MarkFailed \/ Publish \/ Uncertain \/ MarkApplied \/ Abandon

ReviewNext ==
  \/ \E c \in Command : Submit(c) \/ RecoverCommand(c)
  \/ Proceed \/ Process \/ Replace \/ Crash \/ Restart

ReviewSpec == ReviewInit /\ [][ReviewNext]_rvars

\* An operation that has begun runs on, and a server that is down is started again.
FairReviewSpec == ReviewSpec /\ WF_rvars(Proceed) /\ WF_rvars(Restart)

-----------------------------------------------------------------------------
(* Properties.                                                              *)

Undone(c) == \E u \in Command : UndoOf[u] = c /\ (st[u] \in {"applying", "applied"} \/ u \in misread)

\* An undo takes effect when what it undoes is no longer shown.
Shown(c) == IF UndoOf[c] = NoCommand THEN c \in effect[current] ELSE UndoOf[c] \notin effect[current]

(* What the history calls applied, the generation it names lists, and that one *)
(* was committed; and the current generation shows it, after any mix of        *)
(* crashes, failures, replacements and recoveries; except for what was undone, *)
(* and for a command that another publication listed before it was applied:    *)
(* repair_commands calls that one applied all the same.                        *)
AppliedIsShown ==
  \A c \in In({"applied"}) :
    /\ appliedIn[c] \in line /\ c \in included[appliedIn[c]]
    /\ Undone(c) \/ c \in overtaken \/ Shown(c)

(* A command that failed is not listed by the current generation: it may be   *)
(* recovered, and repair_commands never finds it missing; unless its          *)
(* generation was committed and could not be read back at once.               *)
FailedIsNotListed ==
  \A c \in In({"none", "failed"}) : c \in included[current] => c \in misread

(* Recovery never applies a command twice: what is applied stays applied, in  *)
(* the generation that first was said to apply it.                            *)
AppliedOnce ==
  [][\A c \in In({"applied"}) : st'[c] = "applied" /\ appliedIn'[c] = appliedIn[c]]_rvars

(* A restart that meets no further fault decides every command that the crash *)
(* left committed or half applied.                                            *)
RestartSettles ==
  \A c \in Command :
    server = "down" /\ c \in Unapplied /\ Missing = {} /\ faults = MaxFaults ~> c \notin Unapplied

=============================================================================
