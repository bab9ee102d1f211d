--------------------------- MODULE MCJobLifecycle ---------------------------
(* Small instances of JobLifecycle: one local job, which reserves nothing.  *)
EXTENDS JobLifecycle, TLC

MCBudget == [r \in Request |-> 0]
MCOwned == {JobOwner}
MCRequested == {Job}
Retriers == Permutations(Retrier)
=============================================================================
