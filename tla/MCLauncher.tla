------------------------------ MODULE MCLauncher ------------------------------
(* Instances of Launcher for TLC. *)
EXTENDS Launcher

CONSTANTS a, b

\* No command yet; and one command short of a full list.
NoMru == {[list |-> <<>>, values |-> <<NoValue, NoValue>>]}
OneMru == {[list |-> <<1>>, values |-> <<b, NoValue>>]}
=============================================================================
