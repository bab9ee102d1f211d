---------------------------- MODULE MCRemoteJob -----------------------------
(* An instance of RemoteJob for TLC: one job, one reservation, one invoice.   *)
EXTENDS RemoteJob, TLC

MCRequest == {Job}
MCOwner == {JobOwner}
MCBudget == [r \in Request |-> 1]
MCCaller == {Worker, Api, Prober}
=============================================================================
