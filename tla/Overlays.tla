------------------------------ MODULE Overlays ------------------------------
(***************************************************************************)
(* The task switcher and the overview in one shell.  They meet in the      *)
(* notifications that core_send_notify hands to every plugin: Alt-Tab and  *)
(* every change of workspace close the overview, which runs message pumps  *)
(* in which the switcher's messages arrive; and a task chosen in either    *)
(* changes the workspace or the z-order that both read.                    *)
(***************************************************************************)
EXTENDS Switcher, Overview

(***************************************************************************)
(* "hasty": keys come before the shell has dealt with the hot key.         *)
(* "again": keys come before a choice is carried out.  "shiftfirst": Shift  *)
(* goes down before Alt.  "lost": the hook does not see Alt go up.         *)
(* "mash": the overview's hot key arrives in a pump of close_overview.     *)
(***************************************************************************)
ASSUME WorldAssumption == World \subseteq {"hasty", "again", "shiftfirst", "lost", "mash"}

vars == <<mainthread, keyboard, switch, overview>>

-----------------------------------------------------------------------------
(***************************************************************************)
(* Hot keys, and what is sent to both.                                     *)
(***************************************************************************)
ShowKey ==
    /\ Press
    /\ "mash" \in World \/ (queue = <<>> /\ ~Closing)
    /\ queue' = Append(queue, Message("show", NoMeaning))
    /\ UNCHANGED <<stack, desk, zorder, keyboard, switch, overview>>

\* set-current-workspace.
DeskKey ==
    /\ Press
    /\ "again" \in World \/ ~Choosing
    /\ \E d \in 1..NDesks : queue' = Append(queue, Message("goto", d))
    /\ UNCHANGED <<stack, desk, zorder, keyboard, switch, overview>>

OnDeskKey ==
    /\ Receives("goto")
    /\ queue' = Tail(queue)
    /\ stack' = SwitchDesktop(Head(queue).arg, stack)
    /\ UNCHANGED <<desk, zorder, keys, keyboard, switch, overview>>

\* core_send_notify of WZN_ALT_TAB_ACTIVATE: default.evdm loads the switcher
\* before the overview, and plugins are notified in the order of loading.
NotifyActivate(back) ==
    /\ queue' = Append(Tail(queue), Message("activate", back))
    /\ close_overview(NoWindow, stack)

\* WM_HOTKEY; nothing is sent while the switcher is shown.
OnHotkey ==
    /\ Receives("hotkey")
    /\ IF visible
       THEN queue' = Tail(queue) /\ UNCHANGED <<stack, overview>>
       ELSE NotifyActivate(Head(queue).arg)
    /\ UNCHANGED <<desk, zorder, keys, keyboard, switch>>


\* on_notify of the overview.
OnDesktopSwitched == close_overview(NoWindow, Tail(stack))

\* The end of core_switch_desktop.
SwitchEnds ==
    /\ Drained("switch_desktop", "pump")
    /\ desk' = Head(stack).arg
    /\ OnDesktopSwitched
    /\ UNCHANGED <<queue, zorder, keys, keyboard, switch>>

-----------------------------------------------------------------------------
Plugins ==
    \/ (OnSwitchMessage \/ Select \/ FinishSelect) /\ UNCHANGED overview
    \/ (show_overview \/ CloseSwitches \/ CloseWaits \/ CloseFrees \/ Painted)
         /\ UNCHANGED <<keyboard, switch>>

MainStep == Plugins \/ OnDeskKey \/ OnHotkey \/ SwitchEnds

ThreadStep == update_captures /\ UNCHANGED <<keyboard, switch>>

User ==
    \/ (KeyProc \/ ClickTask) /\ UNCHANGED overview
    \/ ClickItem /\ UNCHANGED <<keyboard, switch>>
    \/ ShowKey \/ DeskKey

Next == User \/ MainStep \/ ThreadStep \/ (OnTimer /\ UNCHANGED <<keyboard, switch>>)

Init == InitMainThread /\ InitSwitcher /\ InitOverview

\* The main thread and the capture threads run on; nobody has to press a key.
Fairness == WF_vars(MainStep) /\ WF_vars(ThreadStep)
Spec == Init /\ [][Next]_vars /\ Fairness

-----------------------------------------------------------------------------
(* Every variable has its type; the selected index is one of a list shown. *)
TypeOK ==
    /\ TypeOKSwitcher /\ TypeOKOverview
    /\ desk \in 1..NDesks /\ keys \in 0..MaxKeys
    /\ zorder \in Seq(Windows) /\ IsInjective(zorder)

(***************************************************************************)
(* When do_select comes to the window it switches to, the list holds that  *)
(* window, at the place where the keys (or the click) have led the user,   *)
(* and every window of the list is on the workspace that was shown - which *)
(* is the active one by then, unless another switch was under way.  And    *)
(* the index stays one of a list of its windows (TypeOK).                  *)
(***************************************************************************)
SelectsMeant ==
    /\ TypeOK
    /\ Running("do_select") /\ task_list # <<>> =>
          /\ Head(stack).arg = Head(stack).meant % Len(task_list)
          /\ \A i \in DOMAIN task_list : ts_desk + 1 \in HomeOf[task_list[i]]
          /\ desk = ts_desk + 1 \/ InStack("switch_desktop")

(* No capture thread goes on with a structure that was deleted, and no     *)
(* window of the overview is left that belongs to one.                     *)
CapturesLive ==
    /\ \A t \in threads : t.mon \notin freed
    /\ wnds \cap freed = {}

(* "As soon as it deactivates, all its resources are freed": without an    *)
(* overview there is no window, no thread and no structure left of one.    *)
ResourcesFreed ==
    stack = <<>> /\ monitors = 0 => wnds = {} /\ threads = {} /\ freed = 1..last

(* An overview that stays open shows the workspace that is active:         *)
(* changing the workspace closes it, also from the task switcher.          *)
OverviewIsCurrent == stack = <<>> /\ monitors # 0 => shown_desk = desk

(* The overview shows what there is, and what it shares with its threads   *)
(* is neither freed too soon nor left behind (close_overview and           *)
(* update_captures of overview.cpp).                                       *)
OverviewIsSound == CapturesLive /\ ResourcesFreed /\ OverviewIsCurrent

(* The switcher does not stick on the display: once KeyProc knows that Alt *)
(* is up, the window goes, or Alt is pressed again.                        *)
NotStuck == ~alttab /\ ~alt ~> ~visible \/ alt

(* The main thread comes back to its loop: close_overview waits for a      *)
(* thread that itself waits for the main thread to paint.                  *)
Returns == stack # <<>> ~> stack = <<>>
=============================================================================
