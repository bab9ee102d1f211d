---------------------------- MODULE MCJobLedger ----------------------------
(* Values of the constants of JobLedger for model checking. *)
EXTENDS JobLedger, TLC

CONSTANT BudgetOf   \* the budget every request of the instance has

MCBudget == [r \in Request |-> BudgetOf]
Requests == Permutations(Request)
Owners == Permutations(Owner)

\* A read that something has overtaken commits nothing any more: the states it leads to
\* differ from those without the read by nothing a property asks.
ReadsMayCommit == \A v \in view : v.revision >= attempt[v.attempt].revision

\* Bound of the instance with two requests: two attempts in all, of one request or of both.
TwoAttempts ==
  /\ ReadsMayCommit
  /\ MapThenSumSet(LAMBDA r : count[r], Request) <= 2
  /\ MapThenSumSet(LAMBDA a : attempt[a].revision, Admitted) <= 3
=============================================================================
