------------------------------- MODULE Flasher -------------------------------
(***************************************************************************)
(* The flasher (flasher.cpp): a plugin's window with the icon of every     *)
(* window that asks for attention, until the user has been there or the    *)
(* window is gone.  The icons swing to and fro, and a click on one brings  *)
(* its window to the front.                                                *)
(*                                                                         *)
(* HSHELL messages are posted: one may come when its window is gone or in  *)
(* front already.  The handlers run one at a time, and each paints before  *)
(* it ends.  A place is a pair: the number of the icon, along the slit,    *)
(* and a pixel across it.                                                  *)
(***************************************************************************)
EXTENDS Integers, SequencesExt, Subsequences

CONSTANTS Apps,        \* windows of applications
          Nobody,      \* no window in front
          IconSize     \* ICON_SIZE, even

ASSUME FlasherAssumption ==
    Nobody \notin Apps /\ IconSize \in Nat \ {0} /\ IconSize % 2 = 0

VARIABLES
    alive, front,      \* the system: windows there are, the one in front
    fl                 \* the plugin: the list, its window, what is painted

Half == IconSize \div 2
Breadth == IconSize + Half                  \* FLASHER_WIDTH

NoFlasher == [apps |-> <<>>, size |-> 1, shown |-> TRUE, painted |-> <<>>]

-----------------------------------------------------------------------------
\* calc_item_rect: the pixels across the slit that icon e covers.
calc_item_rect(e) ==
    LET start == (Breadth - IconSize) \div 2
                 + (IF e.ticks < Half THEN 0 - e.ticks ELSE e.ticks - Half)
    IN  start .. (start + IconSize - 1)

\* paint_flasher: an icon is asked for once; a window that does not answer, or
\* is gone, gets the one of any application.
paint_flasher(s) ==
    LET Painted(e) == [e EXCEPT !.icon = IF @ # "none" THEN @
                                         ELSE IF e.app \in alive THEN "own"
                                         ELSE "any"]
        now == [i \in DOMAIN s.apps |-> Painted(s.apps[i])]
    IN  [s EXCEPT !.apps = now, !.painted = now]

recalc_size(s) ==
    IF s.apps = <<>> THEN [s EXCEPT !.size = 0, !.shown = FALSE]
    ELSE paint_flasher([s EXCEPT !.size = Len(s.apps), !.shown = TRUE])

Erase(s, i) == recalc_size([s EXCEPT !.apps = RemoveAt(@, i)])
Listed(s, w) == \E i \in DOMAIN s.apps : s.apps[i].app = w

\* initialize: created visible, then sized, which hides it.
FlasherStarted == recalc_size(NoFlasher)

-----------------------------------------------------------------------------
\* on_shell_message, HSHELL_FLASH.
Flash(w) ==
    /\ w # front /\ ~Listed(fl, w)
    /\ fl' = recalc_size([fl EXCEPT !.apps =
                            Append(@, [app |-> w, ticks |-> 0, icon |-> "none"])])
    /\ UNCHANGED <<alive, front>>

\* on_shell_message, HSHELL_REDRAW: the user is there.
Redraw(w) ==
    /\ w = front
    /\ \E i \in DOMAIN fl.apps : fl.apps[i].app = w /\ fl' = Erase(fl, i)
    /\ UNCHANGED <<alive, front>>

\* WM_TIMER: windows that are gone or in front leave, one after the other, and
\* then the others swing on.
Leaves(e) == e.app \notin alive \/ e.app = front
Swing(e) == [e EXCEPT !.ticks = IF @ = IconSize THEN 0 ELSE @ + 1]
FlasherTimer ==
    /\ \E kept \in Ascending({i \in DOMAIN fl.apps : ~Leaves(fl.apps[i])}) :
         LET stay  == [k \in DOMAIN kept |-> fl.apps[kept[k]]]
             left  == IF Len(stay) = Len(fl.apps) THEN fl
                      ELSE recalc_size([fl EXCEPT !.apps = stay])
             swung == [left EXCEPT !.apps = [i \in DOMAIN @ |-> Swing(@[i])]]
         IN  fl' = IF left.shown THEN paint_flasher(swung) ELSE swung
    /\ UNCHANGED <<alive, front>>

\* WM_LBUTTONUP on icon i as it is painted, y pixels across: the first icon
\* whose rectangle now has that place; SwitchToWindow brings its window in front.
Hit(i, y) == i \in DOMAIN fl.apps /\ y \in calc_item_rect(fl.apps[i])
FlasherClick(i, y) ==
    /\ fl.shown /\ i \in DOMAIN fl.painted
    /\ y \in calc_item_rect(fl.painted[i]) \cap 0..(Breadth - 1)
    /\ front' = IF Hit(i, y) /\ fl.apps[i].app \in alive THEN fl.apps[i].app ELSE front
    /\ UNCHANGED <<alive, fl>>

FlasherNext ==
    \/ \E w \in Apps : Flash(w) \/ Redraw(w)
    \/ FlasherTimer
    \/ \E i \in DOMAIN fl.painted, y \in 0..(Breadth - 1) : FlasherClick(i, y)

\* The system, at any time: another window comes to the front, or one goes.
WindowsChange ==
    /\ \/ \E w \in alive \ {front} : front' = w /\ UNCHANGED alive
       \/ \E w \in alive :
            alive' = alive \ {w} /\ front' = IF front = w THEN Nobody ELSE front
    /\ UNCHANGED fl

-----------------------------------------------------------------------------
FlasherType ==
    /\ alive \subseteq Apps /\ front \in alive \cup {Nobody}
    /\ \A i \in DOMAIN fl.apps :
         fl.apps[i] \in [app : Apps, ticks : 0..IconSize, icon : {"none", "own", "any"}]

\* The flasher shows what it does: every window is listed once, the window of
\* the flasher has room for all of them and is up just when there is one, and
\* what is painted is where a click looks for it (flasher.cpp:149-199, 260-276),
\* however timers, shell messages and windows that close follow each other.
FlasherIsWhole ==
    LET n == Len(fl.apps) IN
    /\ FlasherType
    /\ \A i, j \in 1..n : fl.apps[i].app = fl.apps[j].app => i = j
    /\ fl.shown <=> n > 0
    /\ fl.size = n
    /\ fl.shown => fl.painted = fl.apps
=============================================================================
