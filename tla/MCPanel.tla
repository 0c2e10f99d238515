------------------------------- MODULE MCPanel -------------------------------
(* An instance of Panel for TLC: three windows of applications, a directory
   with a hidden file, one whose icon is wider, one of unknown size and one
   without a dot; icons, texts and windows are interchangeable. *)
EXTENDS Panel, TLC

CONSTANTS w1, w2, w3

File(hidden, wide, dot) == [hidden |-> hidden, icon |-> TRUE, wide |-> wide, dot |-> dot]
MCFiles == <<File(FALSE, 32, TRUE), File(TRUE, 32, TRUE),
             File(FALSE, 48, TRUE), File(FALSE, 0, TRUE), File(FALSE, 32, FALSE)>>

MCLoads == {{"tray"}, {"flasher"}, {"quicklaunch"}, {"clock"}}

Symmetry == Permutations(Icons) \cup Permutations(Texts) \cup Permutations(Apps)
=============================================================================
