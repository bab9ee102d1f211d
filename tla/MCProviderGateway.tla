------------------------- MODULE MCProviderGateway --------------------------
(* An instance of ProviderGateway for TLC: callers that all make the same     *)
(* logical request.                                                           *)
EXTENDS ProviderGateway, TLC

CONSTANT r1

MCRequest == {r1}
MCBudget == [r \in MCRequest |-> 2]
MCAsks == [c \in Caller |-> r1]
Callers == Permutations(Caller)
=============================================================================
