-------------------------- MODULE MCMatchAdmission --------------------------
(* An instance of MatchAdmission for TLC: a request that is sent three times *)
(* under one token, and another without any in common.                       *)
EXTENDS MatchAdmission

CONSTANTS p1, p2, p3, other, key, fresh

MCPost == {p1, p2, other}
MCToken == {key, fresh}
MCCarries == [p \in MCPost |-> IF p = other THEN fresh ELSE key]
=============================================================================
