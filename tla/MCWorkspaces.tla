---------------------------- MODULE MCWorkspaces ----------------------------
(* Instances of Workspaces for TLC. *)
EXTENDS Workspaces

CONSTANTS w1, w2

NoRule == [w \in Windows |-> {}]
OneRule == [w \in Windows |-> IF w = w1 THEN {NDesks} ELSE {}]
StickyRule == [w \in Windows |-> IF w = w1 THEN Desks ELSE {}]
=============================================================================
