------------------------------ MODULE Workspaces ------------------------------
(***************************************************************************)
(* The workspace core of the shell (wezdesk.cpp): the table of windows it  *)
(* keeps, the switch from one workspace to another, and the message pump   *)
(* that feeds both.                                                        *)
(*                                                                         *)
(* A switch (core_switch_desktop) runs on the shell's only thread, in the  *)
(* phases "save", "minimize", "restore" and "pump"; application windows    *)
(* live in other processes and go on between any two of them.  The last    *)
(* phase is a message pump inside the switch: every handler of the shell   *)
(* can run there, with desktop_switching set and current_desktop not yet   *)
(* changed.                                                                *)
(*                                                                         *)
(* Abstractions: a desktop bit mask is the set of its workspaces; the      *)
(* z-order of a workspace is the set of its windows; every window is one   *)
(* that is_app_window accepts for as long as it is alive; a pass over the  *)
(* windows is one step.                                                    *)
(***************************************************************************)
EXTENDS Naturals, Sequences

CONSTANTS
    Windows,      \* handles of application windows
    NDesks,       \* workspaces the shell supports (32 in the code)
    MatchRule,    \* MATCH CREATE rules: the workspaces a new window is sent to
    Slow,         \* windows whose thread may serve ShowWindowAsync late
    Unruly,       \* what the world may do beyond the calm case, see below
    MaxQueue      \* bound: messages waiting for the shell's thread

Desks == 1..NDesks
Requests == 0..(NDesks + 1)   \* arguments of SwitchDesktop, the refused ones too

(***************************************************************************)
(* Unruly selects optional behaviour of the world: "veto" a plugin refuses *)
(* a switch, "wander" a window is minimised or restored whatever the shell *)
(* is doing, "birth" windows appear in the middle of a switch, "place" the *)
(* user moves windows between workspaces, "scan" a plugin asks for the     *)
(* workspaces of every window, "quit" the user asks the shell to end.      *)
(***************************************************************************)
UnrulyKinds == {"veto", "wander", "birth", "place", "scan", "quit"}

\* Where set-window-workspace can put a window: one workspace, or all ("*").
Places == {{d} : d \in Desks} \cup {Desks}

ASSUME DesksAssumption == NDesks \in Nat \ {0}
ASSUME RuleAssumption == MatchRule \in [Windows -> Places \cup {{}}]
ASSUME WorldAssumption == /\ Slow \subseteq Windows
                          /\ Unruly \subseteq UnrulyKinds
                          /\ MaxQueue \in Nat \ {0}

Messages ==
    [kind : {"created", "destroyed", "activated", "redraw"}, win : Windows]
        \cup [kind : {"workspace"}, win : Windows, desks : Places]
        \cup [kind : {"hotkey"}, desk : Requests]
        \cup [kind : {"timer", "scan", "quit"}]

VARIABLES
    \* The shell.
    current_desktop,
    phase,          \* "idle", or where core_switch_desktop is
    target,         \* the workspace being switched to
    pumped,         \* the nested pump has had the message it blocks for
    tracked,        \* the windows in per_window_hash
    desktop_bits, not_minimized,   \* of each window; empty when not tracked
    zorder,         \* for each workspace, the windows to bring back
    quit,           \* WM_QUIT is due
    running,
    \* The window system and its user.
    alive, iconic,
    pending,        \* windows with a ShowWindowAsync(SW_MINIMIZE) on its way
    stashed,        \* windows minimised by the shell and by nobody since
    queue,          \* messages posted to the shell's thread
    quiet           \* the user and the applications have stopped for good

shell == <<current_desktop, phase, target, pumped, tracked, desktop_bits,
           not_minimized, zorder, quit, running>>
world == <<alive, iconic, pending, stashed, quiet>>
vars == <<shell, world, queue>>

desktop_switching == phase # "idle"

-----------------------------------------------------------------------------
(***************************************************************************)
(* get_PerWindow for each window of ws, with this_desk = d.  A window not  *)
(* in the table is added, on d only, and not minimised there unless it is  *)
(* iconic.  The walk of a hash chain deletes the entries of dead windows   *)
(* it meets; which ones share the chain is open, so gone is any of them.   *)
(***************************************************************************)
Reapable(ws) == SUBSET ((tracked \ alive) \ ws)

TrackedAfter(ws, gone) == (tracked \ gone) \cup ws

BitsAfterAhead(ws, gone, d) ==        \* mutant: on the workspace to come
    [w \in Windows |-> IF w \in ws \ tracked
                       THEN {IF phase = "idle" THEN d ELSE target}
                       ELSE IF w \in gone THEN {} ELSE desktop_bits[w]]

BitsAfter(ws, gone, d) ==
    [w \in Windows |-> IF w \in ws \ tracked THEN {d}
                       ELSE IF w \in gone THEN {} ELSE desktop_bits[w]]

MinAfter(ws, gone, d) ==
    [w \in Windows |-> IF w \in ws \ tracked
                       THEN IF w \in iconic THEN {} ELSE {d}
                       ELSE IF w \in gone THEN {} ELSE not_minimized[w]]

ZorderAfter(gone) == [d \in Desks |-> zorder[d] \ gone]

get_PerWindow(ws, d) ==
    \E gone \in Reapable(ws) :
        /\ tracked' = TrackedAfter(ws, gone)
        /\ desktop_bits' = BitsAfter(ws, gone, d)
        /\ not_minimized' = MinAfter(ws, gone, d)
        /\ zorder' = ZorderAfter(gone)

delete_PerWindowOnly(w) ==            \* mutant: the z-orders are not purged
    /\ tracked' = tracked \ {w}
    /\ desktop_bits' = [desktop_bits EXCEPT ![w] = {}]
    /\ not_minimized' = [not_minimized EXCEPT ![w] = {}]
    /\ UNCHANGED zorder

delete_PerWindow(w) ==
    /\ tracked' = tracked \ {w}
    /\ desktop_bits' = [desktop_bits EXCEPT ![w] = {}]
    /\ not_minimized' = [not_minimized EXCEPT ![w] = {}]
    /\ zorder' = ZorderAfter({w})

table == <<tracked, desktop_bits, not_minimized, zorder>>
switch == <<current_desktop, phase, target>>

-----------------------------------------------------------------------------
(***************************************************************************)
(* core_switch_desktop.                                                    *)
(***************************************************************************)

CanSwitch(d) ==
    /\ d \in Desks
    /\ d # current_desktop
    /\ ~desktop_switching

\* WZN_DESKTOP_SWITCHING has been answered without a veto; the phases follow.
StartSwitch(d) ==
    /\ phase' = "save"
    /\ target' = d
    /\ UNCHANGED current_desktop

core_switch_desktop(d) ==
    \/ CanSwitch(d) /\ StartSwitch(d)
    \/ (CanSwitch(d) => "veto" \in Unruly) /\ UNCHANGED switch

RememberingNone(z, here) == z               \* mutant: push_back is missing
Remembering(z, here) == [z EXCEPT ![current_desktop] = here]

\* Pass 1: remember how each window stands on the workspace being left.
SavePass ==
    /\ phase = "save"
    /\ phase' = "minimize"
    /\ \E gone \in Reapable(alive) :
        LET bits == BitsAfter(alive, gone, current_desktop)
            mins == MinAfter(alive, gone, current_desktop)
            here == {w \in alive : current_desktop \in bits[w]}
        IN  /\ tracked' = TrackedAfter(alive, gone)
            /\ desktop_bits' = bits
            /\ not_minimized' =
                 [w \in Windows |->
                    IF w \notin here THEN mins[w]
                    ELSE IF w \in iconic THEN mins[w] \ {current_desktop}
                    ELSE mins[w] \cup {current_desktop}]
            /\ zorder' = Remembering(ZorderAfter(gone), here)
    /\ UNCHANGED <<current_desktop, target, pumped, quit, running, queue, world>>

WrongMaskUnwanted(bits, mins) == current_desktop \notin bits \cap mins   \* mutant

\* Not on the target, or minimised there.
Unwanted(bits, mins) == target \notin bits \cap mins

\* Pass 2 (minimize_if_not_on_desk): away with what the target does not show.
MinimizePass ==
    /\ phase = "minimize"
    /\ phase' = "restore"
    /\ get_PerWindow(alive, current_desktop)
    /\ pending' = pending \cup
         {w \in alive \ iconic : Unwanted(desktop_bits'[w], not_minimized'[w])}
    /\ UNCHANGED <<current_desktop, target, pumped, quit, running, queue,
                   alive, iconic, stashed, quiet>>

OpenThere(w) == target \in not_minimized[w]

Forgetting(z) == [z EXCEPT ![target] = {}]

\* Pass 3: bring back what the target remembers, and forget that memory.
RestorePass ==
    /\ phase = "restore"
    /\ phase' = "pump"
    /\ LET back == {w \in zorder[target] \cap alive : target \in desktop_bits[w]}
           up == {w \in back : OpenThere(w)}
       IN  /\ iconic' = iconic \ up
           /\ stashed' = stashed \ up
           /\ pending' = pending \cup ((back \ up) \ iconic)
    /\ \E gone \in Reapable({}) :
        /\ tracked' = TrackedAfter({}, gone)
        /\ desktop_bits' = BitsAfter({}, gone, target)
        /\ not_minimized' = MinAfter({}, gone, target)
        /\ zorder' = Forgetting(ZorderAfter(gone))
    /\ UNCHANGED <<current_desktop, target, pumped, quit, running, queue,
                   alive, quiet>>

\* The pump inside the switch has run dry; the switch takes effect.
FinishSwitch ==
    /\ pending \subseteq Slow      \* a prompt window has obeyed by now
    /\ phase' = "idle"
    /\ current_desktop' = target
    /\ UNCHANGED target

PumpDry ==
    /\ phase = "pump"
    /\ pumped
    /\ queue = <<>>
    /\ ~quit
    /\ FinishSwitch
    /\ UNCHANGED <<pumped, table, quit, running, queue, world>>

\* WM_QUIT is handed out once no message is left.  Here it only makes
\* GetMessage return 0, or is dispatched to nobody.
PumpTakesQuit ==
    /\ phase = "pump"
    /\ queue = <<>>
    /\ quit
    /\ quit' = FALSE
    /\ IF pumped THEN UNCHANGED switch ELSE FinishSwitch
    /\ UNCHANGED <<pumped, table, running, queue, world>>

-----------------------------------------------------------------------------
(***************************************************************************)
(* The handlers (shell_wnd_proc, do_set_workspace).                        *)
(***************************************************************************)
\* WM_WORKSPACE and do_set_workspace.  (this_desk is off by one there: a new
\* entry's bits are overwritten at once.)
SetWorkspace(w, desks) ==
    /\ \E gone \in Reapable({w}) :
        /\ tracked' = TrackedAfter({w}, gone)
        /\ desktop_bits' =
             [BitsAfter({w}, gone, current_desktop) EXCEPT ![w] = desks]
        /\ not_minimized' =
             [MinAfter({w}, gone, current_desktop) EXCEPT ![w] = desks]
        /\ zorder' = ZorderAfter(gone)
    /\ IF desks = Desks
       THEN UNCHANGED switch
       ELSE \E d \in desks : core_switch_desktop(d)

\* HSHELL_WINDOWCREATED: a new window gets an entry and its MATCH rules.
OnCreated(w) ==
    IF desktop_switching THEN UNCHANGED <<table, switch>>
    ELSE IF MatchRule[w] # {} THEN SetWorkspace(w, MatchRule[w])
    ELSE get_PerWindow({w}, current_desktop) /\ UNCHANGED switch

\* HSHELL_WINDOWACTIVATED, HSHELL_RUDEAPPACTIVATED: only the entry is made.
OnActivated(w) ==
    /\ IF desktop_switching THEN UNCHANGED table
       ELSE get_PerWindow({w}, current_desktop)
    /\ UNCHANGED switch

UnguardedRedraw(w) == w \notin iconic         \* mutant: the switch is not tested
RedrawCounts(w) == ~desktop_switching /\ w \notin iconic

\* HSHELL_REDRAW: a window seen open belongs to the current workspace.
OnRedraw(w) ==
    /\ IF ~RedrawCounts(w) THEN UNCHANGED table
       ELSE \E gone \in Reapable({w}) :
              /\ tracked' = TrackedAfter({w}, gone)
              /\ desktop_bits' = [BitsAfter({w}, gone, current_desktop)
                                    EXCEPT ![w] = @ \cup {current_desktop}]
              /\ not_minimized' = [MinAfter({w}, gone, current_desktop)
                                    EXCEPT ![w] = @ \cup {current_desktop}]
              /\ zorder' = ZorderAfter(gone)
    /\ UNCHANGED switch

Handle(m) ==
    \/ m.kind = "created" /\ OnCreated(m.win) /\ UNCHANGED quit
    \/ m.kind = "activated" /\ OnActivated(m.win) /\ UNCHANGED quit
    \/ m.kind = "redraw" /\ OnRedraw(m.win) /\ UNCHANGED quit
    \/ /\ m.kind = "destroyed"
       /\ delete_PerWindow(m.win)
       /\ UNCHANGED <<switch, quit>>
    \/ m.kind = "workspace" /\ SetWorkspace(m.win, m.desks) /\ UNCHANGED quit
    \/ m.kind = "hotkey" /\ core_switch_desktop(m.desk) /\ UNCHANGED <<table, quit>>
    \/ /\ m.kind = "scan"          \* ChangeDesktopBits(w, 0, 0) for each window
       /\ get_PerWindow(alive, current_desktop)
       /\ UNCHANGED <<switch, quit>>
    \/ m.kind = "timer" /\ UNCHANGED <<switch, table, quit>>
    \/ m.kind = "quit" /\ quit' = TRUE /\ UNCHANGED <<switch, table>>

\* One message through either pump.
Dispatch ==
    /\ running
    /\ phase \in {"idle", "pump"}
    /\ queue # <<>>
    /\ queue' = Tail(queue)
    /\ pumped' = desktop_switching
    /\ Handle(Head(queue))
    /\ UNCHANGED <<running, world>>

\* The main pump leaves its loop.
MainTakesQuit ==
    /\ running
    /\ phase = "idle"
    /\ queue = <<>>
    /\ quit
    /\ quit' = FALSE
    /\ running' = FALSE
    /\ UNCHANGED <<switch, pumped, table, queue, world>>

-----------------------------------------------------------------------------
(***************************************************************************)
(* The world: other processes, the user, the window system.                *)
(***************************************************************************)
Post(m) ==
    /\ Len(queue) < MaxQueue
    /\ queue' = Append(queue, m)

Busy == running /\ ~quiet

Named(w) == \E i \in DOMAIN queue :
                /\ queue[i].kind \in {"created", "destroyed", "activated",
                                       "redraw", "workspace"}
                /\ queue[i].win = w

\* A handle is not used again while the shell may still know it.
WindowCreated(w) ==
    /\ Busy
    /\ w \notin alive \cup tracked
    /\ ~Named(w)
    /\ desktop_switching => "birth" \in Unruly
    /\ alive' = alive \cup {w}
    /\ iconic' \in {iconic, iconic \cup {w}}
    /\ Post([kind |-> "created", win |-> w])
    /\ UNCHANGED <<shell, pending, stashed, quiet>>

WindowDestroyed(w) ==
    /\ Busy
    /\ w \in alive
    /\ alive' = alive \ {w}
    /\ iconic' = iconic \ {w}
    /\ pending' = pending \ {w}
    /\ stashed' = stashed \ {w}
    /\ Post([kind |-> "destroyed", win |-> w])
    /\ UNCHANGED <<shell, quiet>>

\* Activation, or a caption drawn anew: the shell is told.
WindowNoticed(w) ==
    /\ Busy
    /\ w \in alive
    /\ \E k \in {"activated", "redraw"} : Post([kind |-> k, win |-> w])
    /\ UNCHANGED <<shell, world>>

\* The user minimises or restores a window: calmly, one that is shown on the
\* current workspace while no switch is under way.
WindowToggled(w) ==
    /\ Busy
    /\ w \in alive
    /\ \/ "wander" \in Unruly
       \/ ~desktop_switching /\ (w \in tracked => current_desktop \in desktop_bits[w])
    /\ iconic' = IF w \in iconic THEN iconic \ {w} ELSE iconic \cup {w}
    /\ stashed' = stashed \ {w}
    /\ UNCHANGED <<shell, queue, alive, pending, quiet>>

\* The thread of w serves the ShowWindowAsync(w, SW_MINIMIZE) sent to it.
MinimizeServed(w) ==
    /\ w \in pending
    /\ pending' = pending \ {w}
    /\ iconic' = iconic \cup {w}
    /\ stashed' = IF w \in iconic THEN stashed ELSE stashed \cup {w}
    /\ UNCHANGED <<shell, queue, alive, quiet>>

UserSwitches == \E d \in Requests :
    Busy /\ Post([kind |-> "hotkey", desk |-> d]) /\ UNCHANGED <<shell, world>>

UserPlaces == \E w \in Windows, desks \in Places :
    /\ Busy /\ "place" \in Unruly
    /\ Post([kind |-> "workspace", win |-> w, desks |-> desks])
    /\ UNCHANGED <<shell, world>>

PluginScans ==
    /\ Busy /\ "scan" \in Unruly
    /\ Post([kind |-> "scan"])
    /\ UNCHANGED <<shell, world>>

UserQuits ==
    /\ Busy /\ "quit" \in Unruly
    /\ Post([kind |-> "quit"])
    /\ UNCHANGED <<shell, world>>

NoTimer == FALSE /\ UNCHANGED vars           \* mutant: the timer is not set

\* plugin_timer rings every two seconds: GetMessage never blocks for good.
PluginTimer ==
    /\ phase = "pump"
    /\ ~pumped
    /\ queue = <<>>
    /\ queue' = <<[kind |-> "timer"]>>
    /\ UNCHANGED <<shell, world>>

Settle ==
    /\ Busy
    /\ quiet' = TRUE
    /\ UNCHANGED <<shell, alive, iconic, pending, stashed, queue>>

-----------------------------------------------------------------------------
\* fixup_windows has entered the windows found at startup, on workspace 1.
Init ==
    /\ current_desktop = 1
    /\ phase = "idle"
    /\ target = 1
    /\ pumped = FALSE
    /\ alive \in SUBSET Windows
    /\ iconic \in SUBSET alive
    /\ tracked = alive
    /\ desktop_bits = [w \in Windows |-> IF w \in alive THEN {1} ELSE {}]
    /\ not_minimized = [w \in Windows |-> IF w \in alive \ iconic THEN {1} ELSE {}]
    /\ zorder = [d \in Desks |-> {}]
    /\ quit = FALSE
    /\ running = TRUE
    /\ pending = {}
    /\ stashed = {}
    /\ queue = <<>>
    /\ quiet = FALSE

ShellStep ==
    \/ SavePass \/ MinimizePass \/ RestorePass
    \/ PumpDry \/ PumpTakesQuit
    \/ Dispatch \/ MainTakesQuit

WorldStep ==
    \/ \E w \in Windows : \/ WindowCreated(w) \/ WindowDestroyed(w)
                          \/ WindowNoticed(w) \/ WindowToggled(w)
                          \/ MinimizeServed(w)
    \/ UserSwitches \/ UserPlaces \/ UserQuits
    \/ PluginScans \/ PluginTimer \/ Settle

Next == ShellStep \/ WorldStep

Fairness ==
    /\ WF_vars(ShellStep)
    /\ WF_vars(PluginTimer)
    /\ \A w \in Windows : WF_vars(MinimizeServed(w))

Spec == Init /\ [][Next]_vars /\ Fairness

-----------------------------------------------------------------------------
(***************************************************************************)
(* Properties.                                                             *)
(***************************************************************************)
TypeOK ==
    /\ current_desktop \in Desks
    /\ phase \in {"idle", "save", "minimize", "restore", "pump"}
    /\ target \in Desks
    /\ pumped \in BOOLEAN
    /\ tracked \subseteq Windows
    /\ desktop_bits \in [Windows -> SUBSET Desks]
    /\ not_minimized \in [Windows -> SUBSET Desks]
    /\ zorder \in [Desks -> SUBSET Windows]
    /\ quit \in BOOLEAN
    /\ running \in BOOLEAN
    /\ alive \subseteq Windows
    /\ iconic \subseteq alive
    /\ pending \subseteq alive
    /\ stashed \subseteq iconic
    /\ queue \in Seq(Messages)
    /\ quiet \in BOOLEAN

\* A z-order never names a window without an entry: pass 3 calls
\* get_PerWindow with the workspace switched to, and would record a window it
\* does not know as living only there.
SavedAreTracked == \A d \in Desks : zorder[d] \subseteq tracked

\* The workspace on the screen has no z-order left over from an earlier visit
\* (core_switch_desktop clears it twice): a stale one would be replayed by the
\* next visit, over whatever the user has done since.
NoStaleOrder == ~desktop_switching => zorder[current_desktop] = {}

\* Every entry puts its window on some workspace: a window with no bit set is
\* minimised by every switch and restored by none.
EveryWindowSomewhere == \A w \in tracked : desktop_bits[w] # {}

\* What the passes of a switch rely on: no z-order names a window that the reaping
\* of hash chains has dropped (pass 3 of core_switch_desktop would record it as
\* living on the new workspace only), none is left over from an earlier visit, and
\* no window is on no workspace, out of reach of every switch.
TableSound == TypeOK /\ SavedAreTracked /\ NoStaleOrder /\ EveryWindowSomewhere

\* The core implements the promise of WorkspaceView: a switch is two steps, its
\* announcement and its effect, and all a window's entry goes through between
\* them is what that module lists.
Going == IF desktop_switching THEN target ELSE 0
View == INSTANCE WorkspaceView WITH
            shown <- current_desktop,
            going <- Going,
            member <- desktop_bits
ImplementsView == View!Spec

\* Between switches, what the user sees is what is recorded: a window in the
\* table that is open on the screen is on the current workspace.
OnlyOwnWindowsOpen ==
    ~desktop_switching =>
        \A w \in (tracked \cap alive) \ (iconic \cup pending) :
            current_desktop \in desktop_bits[w]

\* Switching can show again every window the shell itself has minimised: it is
\* not left so on a workspace that remembers it open (pass 3 restores it, or pass
\* 2 never minimised it), and it is in the z-order of a workspace it is on, or on
\* the current one.
NoneStranded ==
    \A w \in stashed \ pending :
        current_desktop \notin desktop_bits[w] \cap not_minimized[w]
StashedCanReturn ==
    ~desktop_switching =>
        /\ NoneStranded
        /\ \A w \in stashed :
              \/ \E d \in desktop_bits[w] : w \in zorder[d]
              \/ current_desktop \in desktop_bits[w]

\* No window leaks: one that is in the table gains no workspace during a switch,
\* and none after it either while the shell is still minimising it (the
\* changelog's race "that would cause some windows to leak from the current
\* desktop to the target desktop").  Placing windows apart, that is.
NoLeak ==
    [][\A w \in tracked : w \in pending \/ desktop_switching =>
            desktop_bits'[w] \subseteq desktop_bits[w]]_vars

\* A switch ends once the traffic does: the pump inside it blocks for a
\* message, and the plugin timer always brings one.
SwitchEnds == quiet ~> (~desktop_switching /\ queue = <<>>)
=============================================================================
