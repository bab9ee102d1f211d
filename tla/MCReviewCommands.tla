-------------------------- MODULE MCReviewCommands --------------------------
(* An instance of ReviewCommands for TLC: two corrections and the undo of one *)
(* of them, over one earlier generation.                                      *)
EXTENDS ReviewCommands

CONSTANTS swap, edit, undo

MCCommand == {swap, edit, undo}
MCUndoOf == [c \in MCCommand |-> IF c = undo THEN swap ELSE NoCommand]
MCReader == {}
=============================================================================
