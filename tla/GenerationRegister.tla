------------------------ MODULE GenerationRegister ------------------------
(***************************************************************************)
(* What the generation store of one match promises to its users: a         *)
(* register that holds one whole analytical generation at a time.  A       *)
(* publication puts a new generation in the place of the one it was made   *)
(* from; a reader keeps the generation it pinned while later ones are      *)
(* published; a generation that is pinned, cited by a stored report,       *)
(* playlist or correction, current, or the one to roll back to, stays      *)
(* readable.  Locks, directories, crashes and the steps of a publication   *)
(* do not appear here: Generations is shown to implement this module.      *)
(***************************************************************************)
EXTENDS Naturals, FiniteSets

CONSTANTS
  MaxGeneration,   \* bound of the model: generations are numbered 1 .. MaxGeneration
  Past,            \* how many of them were committed before the model begins, if any
  Reader           \* who pins a generation

ASSUME RegisterAssumption == MaxGeneration \in Nat /\ Past \in 0 .. MaxGeneration

Generation == 1 .. MaxGeneration
NoGeneration == 0

VARIABLES
  current,   \* the generation the pointer names
  line,      \* every generation that was ever committed
  parent,    \* the generation each of them replaced
  kept,      \* the committed generations that can still be read
  pinned,    \* what each reader reads
  cited      \* the generations that stored documents name

vars == <<current, line, parent, kept, pinned, cited>>

Init ==
  /\ current \in {NoGeneration, Past}
  /\ line = 1 .. current
  /\ parent = [g \in Generation |-> IF g \in line THEN g - 1 ELSE NoGeneration]
  /\ kept \in {line} \cup IF current > 2 THEN {line \ {1}} ELSE {}
  /\ pinned = [r \in Reader |-> NoGeneration]
  /\ cited = {}

\* A new generation replaces exactly the one that is current.
Commit(g) ==
  /\ g \notin line
  /\ current' = g
  /\ line' = line \cup {g}
  /\ parent' = [parent EXCEPT ![g] = current]
  /\ kept' = kept \cup {g}
  /\ UNCHANGED <<pinned, cited>>

Pin(r, g) ==
  /\ pinned[r] = NoGeneration /\ g \in kept
  /\ pinned' = [pinned EXCEPT ![r] = g]
  /\ UNCHANGED <<current, line, parent, kept, cited>>

Unpin(r) ==
  /\ pinned[r] # NoGeneration
  /\ pinned' = [pinned EXCEPT ![r] = NoGeneration]
  /\ UNCHANGED <<current, line, parent, kept, cited>>

Cite(g) ==
  /\ g = current \/ \E r \in Reader : pinned[r] = g
  /\ cited' = cited \cup {g}
  /\ UNCHANGED <<current, line, parent, kept, pinned>>

Rollback == IF current = NoGeneration THEN NoGeneration ELSE parent[current]

Retire(g) ==
  /\ g \in kept \ (cited \cup {current, Rollback})
  /\ \A r \in Reader : pinned[r] # g
  /\ kept' = kept \ {g}
  /\ UNCHANGED <<current, line, parent, pinned, cited>>

Next ==
  \/ \E g \in Generation : Commit(g) \/ Cite(g) \/ Retire(g)
  \/ \E r \in Reader : Unpin(r) \/ \E g \in Generation : Pin(r, g)

Spec == Init /\ [][Next]_vars

=============================================================================
