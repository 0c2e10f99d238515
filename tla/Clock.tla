-------------------------------- MODULE Clock --------------------------------
(***************************************************************************)
(* The clock (clock.cpp): a window that shows the unread mail, the date    *)
(* and the time, and takes the size of its text whenever it is painted.    *)
(*                                                                         *)
(* A text is the set of its lines.  A date format of the configuration may *)
(* be one that GetDateFormat refuses.  Settings are read when the plugin   *)
(* starts, and the font when it first paints.                              *)
(***************************************************************************)
EXTENDS Naturals, FiniteSets

CONSTANT MaxMail       \* bound: unread messages

VARIABLES
    mail, edge,        \* the system: unread mail; the slit: the edge it is at
    ck                 \* the plugin: see NoClock

Upright == {"LEFT", "RIGHT"}

\* The size of the window is the number of lines it has room for.
NoClock == [datable |-> TRUE, font |-> FALSE, size |-> 0, text |-> {},
            told |-> 0, grav |-> "none"]

-----------------------------------------------------------------------------
\* The lines of paint_clock: a refused date leaves the length of the text at
\* nothing, and the time is written over the mail.
Lines(datable, unread) ==
    (IF datable /\ unread > 0 THEN {"mail"} ELSE {})
    \cup (IF datable THEN {"date"} ELSE {}) \cup {"time"}

paint_clock(c) ==
    LET text == Lines(c.datable, mail) IN
    [c EXCEPT !.font = TRUE, !.text = text, !.told = mail, !.size = Cardinality(text)]

\* handle_slit_layout_change, with the slit at edge e.
handle_slit_layout_change(c, e) ==
    paint_clock([c EXCEPT !.grav = IF e \in Upright THEN "BOTTOM" ELSE "RIGHT"])

\* initialize: which way the window is first made depends on is_vert, not yet
\* set; the layout and the first painting follow at once.
ClockStarted(datable) ==
    handle_slit_layout_change([NoClock EXCEPT !.datable = datable], edge)

\* WM_TIMER: painted again, on the text before.
ClockTimer == ck' = paint_clock(ck) /\ UNCHANGED <<mail, edge>>

\* The system, at any time: mail comes, or is read.
MailChanges ==
    /\ \E n \in 0..MaxMail : n # mail /\ mail' = n
    /\ UNCHANGED <<edge, ck>>

-----------------------------------------------------------------------------
\* The clock fits: its window has the size of the text in it, which tells of
\* the mail there was if the date could be told, and it stands at the end of
\* the slit (clock.cpp:60-103, 110-130), wherever the slit has been moved to.
ClockFits ==
    /\ ck.size = Cardinality(ck.text) /\ ck.font
    /\ ck.text = Lines(ck.datable, ck.told)
    /\ ck.grav = IF edge \in Upright THEN "BOTTOM" ELSE "RIGHT"
=============================================================================
