----------------------------- MODULE MCOverlays -----------------------------
(* Three windows on the first workspace, one of which is on the second too. *)
EXTENDS Overlays
CONSTANTS w1, w2, w3
Homes == [w \in Windows |-> IF w = w1 THEN {1, 2} ELSE {1}]

MCInit == Init /\ zorder = <<w1, w2, w3>>
MCSpec == MCInit /\ [][Next]_vars /\ Fairness
=============================================================================
