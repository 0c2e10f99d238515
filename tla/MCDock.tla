------------------------------- MODULE MCDock -------------------------------
(* Two windows of one program, one that is no application window and whose *)
(* module cannot be read, and two shortcuts to the program.  The dock      *)
(* starts with one shortcut and both windows, on either desktop,  *)
(* in a slit at the side.                                                  *)
EXTENDS Dock
CONSTANTS w1, w2, w3, f1, f2, m1
ModuleOf == w1 :> m1 @@ w2 :> m1 @@ w3 :> Unreadable
Target == f1 :> m1 @@ f2 :> m1

MCInit == /\ Init
          /\ alive = {w1, w2, w3} /\ elsewhere \in {{}, {w1}}
          /\ dir = {f1} /\ is_vert
MCSpec == MCInit /\ [][Next]_vars /\ Fairness
=============================================================================
