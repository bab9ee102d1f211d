---------------------------- MODULE AcceptedOnce ----------------------------
(***************************************************************************)
(* What POST /api/matches promises to a client that names its upload with  *)
(* an admission token: however often it asks, one of its requests becomes  *)
(* the match; processing starts for that one only; every request that is   *)
(* answered is told of it.  Uploads, transactions, failures and crashes do *)
(* not appear here: MatchAdmission is shown to implement this module.      *)
(***************************************************************************)
CONSTANTS
  Post,      \* the requests, each of which may become a match of the same name
  Carries,   \* the admission token of each of them
  None       \* no match

VARIABLES
  accepted,  \* the requests that became matches
  started,   \* the matches whose processing was started
  told       \* the match that each request was told of

vars == <<accepted, started, told>>

Init == accepted = {} /\ started = {} /\ told = [p \in Post |-> None]

\* The accepted request with the token of p, if any.
Holders(p) == {q \in accepted : Carries[q] = Carries[p]}

Accept(p) ==
  /\ Holders(p) = {}
  /\ accepted' = accepted \cup {p}
  /\ UNCHANGED <<started, told>>

Start(p) ==
  /\ p \in accepted \ started
  /\ started' = started \cup {p}
  /\ UNCHANGED <<accepted, told>>

Tell(p, q) ==
  /\ told[p] = None
  /\ q \in Holders(p)
  /\ told' = [told EXCEPT ![p] = q]
  /\ UNCHANGED <<accepted, started>>

Next == \E p \in Post : Accept(p) \/ Start(p) \/ \E q \in Post : Tell(p, q)

Spec == Init /\ [][Next]_vars

=============================================================================
