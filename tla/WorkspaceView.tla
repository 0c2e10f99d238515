---------------------------- MODULE WorkspaceView ----------------------------
(***************************************************************************)
(* What the workspace core of the shell promises: one workspace is shown   *)
(* at a time, a switch is announced, and takes effect, in one step each,   *)
(* and a window changes workspaces only in the ways listed here.  In       *)
(* particular a window met for the first time belongs to the workspace     *)
(* that is shown, never to the one being switched to, and no window is     *)
(* drawn onto a workspace while a switch is under way.                     *)
(***************************************************************************)
EXTENDS Naturals

CONSTANTS Windows, NDesks

Desks == 1..NDesks
Places == {{d} : d \in Desks} \cup {Desks}

VARIABLES
    shown,    \* the workspace on the screen
    going,    \* the one being switched to, or 0
    member    \* the workspaces of each window; none while it is unknown

vars == <<shown, going, member>>

Init ==
    /\ shown = 1
    /\ going = 0
    /\ member \in [Windows -> {{}, {1}}]

Forgotten(w) == member'[w] = {}
Met(w) == member[w] = {} /\ member'[w] = {shown}
Kept(w) == member'[w] = member[w]

\* Bookkeeping: windows come and go.
Others(w) == \A v \in Windows \ {w} : Kept(v) \/ Forgotten(v) \/ Met(v)
Housekeeping == \A v \in Windows : Kept(v) \/ Forgotten(v) \/ Met(v)

\* The user, or a rule of the user's, puts a window somewhere.
Placed(w) == member'[w] \in Places /\ Others(w)

\* A window that opens, or is drawn, on the workspace shown belongs to it.
Joined(w) ==
    /\ going = 0
    /\ member'[w] = member[w] \cup {shown}
    /\ Others(w)

Members ==
    /\ member' \in [Windows -> SUBSET Desks]
    /\ \/ Housekeeping
       \/ \E w \in Windows : Placed(w) \/ Joined(w)

Live == Members /\ UNCHANGED <<shown, going>>

\* A switch is announced, by itself or as part of placing a window.
Leave(d) ==
    /\ going = 0
    /\ d # shown
    /\ going' = d
    /\ shown' = shown
    /\ member' \in [Windows -> SUBSET Desks]
    /\ Housekeeping \/ \E w \in Windows : Placed(w)

Arrive ==
    /\ going # 0
    /\ shown' = going
    /\ going' = 0
    /\ UNCHANGED member

Next == Live \/ Arrive \/ \E d \in Desks : Leave(d)

Spec == Init /\ [][Next]_vars
=============================================================================
