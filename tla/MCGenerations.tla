--------------------------- MODULE MCGenerations ---------------------------
(* An instance of Generations for TLC: two publishers meet a recovery, one   *)
(* reader that writes a report and one retention, over up to three earlier   *)
(* generations or the flat files of an older release.                        *)
EXTENDS Generations, TLC

CONSTANTS p1, p2, c1, r1, t1

MCPublisher == {p1, p2}
MCCorrector == {p1}
MCRecoverer == {c1}
MCReader == {r1}
MCRetainer == {t1}
=============================================================================
