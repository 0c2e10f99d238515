-------------------------------- MODULE Slit --------------------------------
(***************************************************************************)
(* The slits (slit.cpp): tool bars along the edges of the screen that hold *)
(* the windows of the plugins, reserve screen space for themselves, float  *)
(* above everything, or hide and come back when the mouse touches the      *)
(* strip they leave.  Their settings come from the registry and the        *)
(* configuration and are saved by the menu's commands.                     *)
(*                                                                         *)
(* Rectangles are kept per axis.  A slit lies along the edge WHERE; the    *)
(* distance OFF is its near coordinate for the left and top edge, and the  *)
(* distance of that coordinate from the far side for right and bottom.     *)
(* Its place along the edge (its own gravity) is left out, as are several  *)
(* monitors, painting and the z-order against full-screen windows.         *)
(***************************************************************************)
EXTENDS Integers, FiniteSets, FiniteSetsExt, Functions, TLC

CONSTANTS Slits, Kids,
          Named,       \* slits with a name, under which they are saved
          Edges,       \* the edges in use, a subset of AllEdges
          home,        \* plugin window -> its slit
          grav, pri,   \* its gravity, "hi" (top, left) or "lo", and its weight
          Sizes,       \* the [w, h] a plugin window may have
          Strip,       \* pixels a hidden slit leaves on the screen
          MaxCommands  \* bounds the settings, commands and changes of children

Near == {"LEFT", "TOP"}
AllEdges == Near \cup {"RIGHT", "BOTTOM"}
ASSUME SlitAssumption ==
    /\ IsFiniteSet(Slits) /\ IsFiniteSet(Kids)
    /\ Named \subseteq Slits /\ Edges \subseteq AllEdges
    /\ home \in [Kids -> Slits] /\ grav \in [Kids -> {"hi", "lo"}]
    /\ pri \in [Kids -> Nat]
    /\ Sizes \subseteq [w : Nat \ {0}, h : Nat \ {0}]
    /\ Strip \in Nat \ {0} /\ MaxCommands \in Nat

VARIABLES
    phase,      \* "config" while default.evdm is read, then "running"
    registry,   \* what save_slit_state wrote, <<>> when nothing
    info,       \* slit_info: align, floating, auto_hide, interval, hidden, left
    window,     \* the slit's window: its [w, h], the edge it is at and off
    kids, size, \* plugin windows there are; the size of each, now or when created
    pos,        \* their offset along the slit
    resized,    \* slits with a WM_SLIT_CHILD_RESIZED in the queue
    over,       \* slits the mouse is over and will report to leave
    workarea,   \* pixels reserved at each edge
    commands    \* how many commands there were

geometry == <<window, pos, workarea>>
children == <<kids, size, resized>>
slit_vars == <<phase, registry, info, geometry, children, over, commands>>
Command == commands < MaxCommands /\ commands' = commands + 1

Vertical(edge) == edge \in {"LEFT", "RIGHT"}
Along(edge, r)  == IF Vertical(edge) THEN r.h ELSE r.w
Across(edge, r) == IF Vertical(edge) THEN r.w ELSE r.h
MaxOf(S) == IF S = {} THEN 0 ELSE Max(S)
KidsOf(s) == {k \in kids : home[k] = s}

-----------------------------------------------------------------------------
(* recalc_slit_size: the size of the slit, the place of the slit, the      *)
(* places of its children, and the work area of all slits.                 *)

(* The length of some children: the pixels that each has along the edge.   *)
Pixels(edge, K) == UNION {{k} \X (1..Along(edge, size[k])) : k \in K}
Length(edge, K) == Cardinality(Pixels(edge, K))

(* add_client_to_metric: lengths add up, the widest decides the width.     *)
Metric(edge, K) ==
    LET along == Length(edge, K)
        across == MaxOf({Across(edge, size[k]) : k \in K})
    IN  IF Vertical(edge) THEN [w |-> across, h |-> along] ELSE [w |-> along, h |-> across]

(* A hidden slit is sized where it is; another is moved to its edge.       *)
Placed(i, old, m) ==
    IF i.interval /\ i.hidden
    THEN [r |-> m, where |-> old.where, off |-> old.off]
    ELSE [r |-> m, where |-> i.align,
          off |-> IF i.align \in Near THEN 0 ELSE Across(i.align, m)]

(* compare_layout_info: of one gravity the heavier first, ties at random.  *)
LayoutOrders(K) ==
    {o \in [K -> 1..Cardinality(K)] :
        /\ IsInjective(o)
        /\ \A k, l \in K : grav[k] = grav[l] /\ pri[k] > pri[l] => o[k] < o[l]}

(* Children of high gravity are stacked from the start of the slit, those  *)
(* of low gravity from its end.                                            *)
Offset(edge, K, o, k) ==
    LET ahead == {l \in K : grav[l] = grav[k] /\ o[l] < o[k]}
    IN  IF grav[k] = "hi" THEN Length(edge, ahead)
        ELSE Length(edge, K) - Length(edge, ahead \cup {k})
LaidOut(edge, K, o) == [k \in Kids |-> IF k \in K THEN Offset(edge, K, o, k) ELSE pos[k]]

(* What slit s, with settings i and window win, asks to be kept free.      *)
Reserve(i, win) == IF i.floating THEN 0
                   ELSE IF i.interval THEN i.auto_hide ELSE Across(i.align, win.r)
WorkArea(infos, windows) ==
    [e \in Edges |-> MaxOf({Reserve(infos[s], windows[s]) :
                              s \in {t \in Slits : infos[t].align = e}})]

(* Called with the new settings of the slit already in infos.              *)
RecalcThenMove(s, infos, K) ==
    \E o \in LayoutOrders(K) :
       /\ info' = infos
       /\ window' = [window EXCEPT ![s] = Placed(infos[s], @, Metric(infos[s].align, K))]
       /\ pos' = LaidOut(infos[s].align, K, o)
       /\ workarea' = WorkArea(infos, window)
recalc_slit_size(s, infos, K) ==
    \E o \in LayoutOrders(K) :
       /\ info' = infos
       /\ window' = [window EXCEPT ![s] = Placed(infos[s], @, Metric(infos[s].align, K))]
       /\ pos' = LaidOut(infos[s].align, K, o)
       /\ workarea' = WorkArea(infos, window')

-----------------------------------------------------------------------------
(* Auto-hiding rules out floating and needs a strip; the three places that *)
(* change the settings end with this and start the timer and the clock.    *)
AutoHiding(i) ==
    IF i.interval
    THEN [i EXCEPT !.auto_hide = IF @ = 0 THEN Strip ELSE @,
                   !.floating = FALSE, !.left = TRUE, !.hidden = FALSE]
    ELSE i
Settings(i) == [align |-> i.align, floating |-> i.floating,
                auto_hide |-> i.auto_hide, interval |-> i.interval]

(* save_slit_state: a named slit is written first and put right after.     *)
SaveState(s, i) ==
    IF s \in Named
    THEN /\ registry' = [registry EXCEPT ![s] = Settings(i)]
         /\ recalc_slit_size(s, [info EXCEPT ![s] = AutoHiding(i)], KidsOf(s))
    ELSE /\ UNCHANGED registry
         /\ recalc_slit_size(s, [info EXCEPT ![s] = i], KidsOf(s))

(* create_new_slit: memset, the SLIT line, and what the registry has.      *)
Blank(edge) == [align |-> edge, floating |-> FALSE, auto_hide |-> 0,
                interval |-> FALSE, hidden |-> FALSE, left |-> FALSE]
LoadedAsSaved(set) == [align |-> set.align, floating |-> set.floating,
                       auto_hide |-> set.auto_hide, interval |-> set.interval,
                       hidden |-> FALSE, left |-> FALSE]
Loaded(set) == AutoHiding([align |-> set.align, floating |-> set.floating,
                           auto_hide |-> set.auto_hide, interval |-> set.interval,
                           hidden |-> FALSE, left |-> FALSE])
create_new_slit(s, edge) ==
    IF registry[s] = <<>> THEN Blank(edge) ELSE Loaded(registry[s])
NoWindow(i) == [r |-> [w |-> 0, h |-> 0], where |-> i.align, off |-> 0]

(* slit_set_config, for the SET lines, which follow the SLIT line.         *)
slit_set_config(s) ==
    /\ Command
    /\ phase = "config" /\ KidsOf(s) = {}
    /\ \E value \in BOOLEAN :
         LET Now(i) == info' = [info EXCEPT ![s] = AutoHiding(i)] IN
         \/ Now([info[s] EXCEPT !.floating = value])
         \/ Now([info[s] EXCEPT !.interval = value])
         \/ Now([info[s] EXCEPT !.auto_hide = IF value THEN Strip ELSE 0])
    /\ UNCHANGED <<phase, registry, geometry, children, over>>

(* WM_PARENTNOTIFY of a new child: it is not visible yet, and only counted *)
(* when the slit has no other; its own WM_SIZE follows by the queue.       *)
KidCreated(k) ==
    LET s == home[k]
        K == IF KidsOf(s) = {} THEN {k} ELSE KidsOf(s)
    IN  /\ k \notin kids
        /\ IF phase = "running" THEN Command ELSE UNCHANGED commands
        /\ kids' = kids \cup {k}
        /\ resized' = resized \cup {s}
        /\ recalc_slit_size(s, info, K)
        /\ UNCHANGED <<phase, registry, size, over>>

(* The configuration has been read; every slit has been given a plugin.    *)
Run ==
    /\ phase = "config" /\ \A s \in Slits : KidsOf(s) # {}
    /\ phase' = "running"
    /\ UNCHANGED <<registry, info, geometry, children, over, commands>>

-----------------------------------------------------------------------------
(* The menu's commands.  They may come while the slit is hidden: it hides  *)
(* under the open menu.                                                    *)
AutohideStaysHidden(s, on) ==
    /\ Command
    /\ phase = "running"
    /\ LET i == [info[s] EXCEPT !.auto_hide = IF on THEN Strip ELSE 0,
                                !.interval = on,
                                !.floating = @ /\ ~on, !.left = @ \/ on]
       IN  SaveState(s, i)
    /\ UNCHANGED <<phase, children, over>>
do_slit_autohide(s, on) ==
    /\ Command
    /\ phase = "running"
    /\ LET i == [info[s] EXCEPT !.auto_hide = IF on THEN Strip ELSE 0,
                                !.interval = on, !.hidden = FALSE,
                                !.floating = @ /\ ~on, !.left = @ \/ on]
       IN  SaveState(s, i)
    /\ UNCHANGED <<phase, children, over>>

do_slit_float(s, on) ==
    /\ Command
    /\ phase = "running"
    /\ LET i == [info[s] EXCEPT !.floating = on, !.hidden = FALSE,
                                !.auto_hide = IF on THEN 0 ELSE @]
       IN  SaveState(s, i)
    /\ UNCHANGED <<phase, children, over>>

do_slit_align(s, edge) ==
    /\ Command
    /\ phase = "running"
    /\ SaveState(s, [info[s] EXCEPT !.align = edge])
    /\ UNCHANGED <<phase, children, over>>

-----------------------------------------------------------------------------
(* Hiding and showing.                                                     *)
do_hide_slit(s) ==
    LET i == info[s]
        depth == Across(i.align, window[s].r)
    IN  /\ window' = [window EXCEPT ![s].off =
              IF i.align \in Near THEN (@ + i.auto_hide) - depth
                                  ELSE @ - (depth - i.auto_hide)]
        /\ info' = [info EXCEPT ![s].hidden = TRUE]
        /\ UNCHANGED <<pos, workarea>>

do_show_slit(s, i) ==
    IF i.hidden
    THEN recalc_slit_size(s, [info EXCEPT ![s] = [i EXCEPT !.hidden = FALSE]], KidsOf(s))
    ELSE info' = [info EXCEPT ![s] = i] /\ UNCHANGED geometry

(* WM_TIMER, once the interval is over since the mouse left.               *)
TimerTick(s) ==
    /\ phase = "running" /\ info[s].interval
    /\ ~info[s].hidden /\ info[s].left
    /\ do_hide_slit(s)
    /\ UNCHANGED <<phase, registry, children, over, commands>>

(* The pixels of slit s that the mouse can touch.                          *)
OnScreen(s) ==
    LET win == window[s]
        depth == Across(win.where, win.r)
    IN  IF win.where \in Near THEN win.off + depth
        ELSE IF win.off < depth THEN win.off ELSE depth

(* WM_MOUSEMOVE over a plugin's window and over the slit itself.           *)
MouseOnKid(s) ==
    /\ phase = "running" /\ OnScreen(s) > 0
    /\ over' = over \cup {s}
    /\ IF info[s].hidden THEN do_show_slit(s, info[s])
       ELSE /\ info' = [info EXCEPT ![s].left = @ /\ ~info[s].interval]
            /\ UNCHANGED geometry
    /\ UNCHANGED <<phase, registry, children, commands>>

MouseOnSlit(s) ==
    /\ phase = "running" /\ OnScreen(s) > 0
    /\ over' = over \cup {s}
    /\ LET i == [info[s] EXCEPT !.left = FALSE] IN
       IF i.interval THEN do_show_slit(s, i)
       ELSE info' = [info EXCEPT ![s] = i] /\ UNCHANGED geometry
    /\ UNCHANGED <<phase, registry, children, commands>>

(* WM_MOUSELEAVE.                                                          *)
MouseLeavesSilently(s) ==
    /\ s \in over
    /\ over' = over \ {s}
    /\ UNCHANGED <<phase, registry, info, geometry, children, commands>>
MouseLeaves(s) ==
    /\ s \in over
    /\ over' = over \ {s}
    /\ info' = [info EXCEPT ![s].left = @ \/ info[s].interval]
    /\ UNCHANGED <<phase, registry, geometry, children, commands>>

(* WM_ACTIVATE and WM_ACTIVATEAPP, either way.                             *)
Deactivated(s) ==
    /\ phase = "running"
    /\ info' = [info EXCEPT ![s].left = TRUE]
    /\ UNCHANGED <<phase, registry, geometry, children, over, commands>>

Activated(s) ==
    /\ phase = "running"
    /\ do_show_slit(s, info[s])
    /\ UNCHANGED <<phase, registry, children, over, commands>>

(* WM_DISPLAYCHANGE and its like: shown, and laid out in any case.         *)
DisplayChange(s) ==
    /\ Command
    /\ phase = "running"
    /\ recalc_slit_size(s, [info EXCEPT ![s].hidden = FALSE], KidsOf(s))
    /\ UNCHANGED <<phase, registry, children, over>>

-----------------------------------------------------------------------------
(* The children.                                                           *)
KidResizes(k, sz) ==
    /\ Command
    /\ k \in kids /\ size[k] # sz
    /\ size' = [size EXCEPT ![k] = sz]
    /\ resized' = resized \cup {home[k]}
    /\ UNCHANGED <<phase, registry, info, geometry, kids, over>>

ChildResized(s) ==
    /\ phase = "running" /\ s \in resized
    /\ resized' = resized \ {s}
    /\ recalc_slit_size(s, info, KidsOf(s))
    /\ UNCHANGED <<phase, registry, kids, size, over, commands>>

(* WM_PARENTNOTIFY comes before the window is gone, which still counts.    *)
KidDestroyed(k) ==
    /\ Command
    /\ phase = "running" /\ k \in kids
    /\ recalc_slit_size(home[k], info, KidsOf(home[k]))
    /\ kids' = kids \ {k}
    /\ UNCHANGED <<phase, registry, size, resized, over>>

-----------------------------------------------------------------------------
(* The shell ends or crashes and starts again; the registry and the work   *)
(* area outlive it.                                                        *)
Fresh(edge) == [s \in Slits |-> create_new_slit(s, edge)]
Restart(edge) ==
    /\ Command
    /\ phase' = "config"
    /\ info' = Fresh(edge)
    /\ window' = [s \in Slits |-> NoWindow(Fresh(edge)[s])]
    /\ kids' = {} /\ resized' = {} /\ over' = {}
    /\ pos' = [k \in Kids |-> 0]
    /\ UNCHANGED <<registry, size, workarea>>

InitSlit ==
    /\ phase = "config"
    /\ registry = [s \in Slits |-> <<>>]
    /\ \E edge \in Edges : info = [s \in Slits |-> Blank(edge)]
    /\ window = [s \in Slits |-> NoWindow(info[s])]
    /\ kids = {} /\ resized = {} /\ over = {}
    /\ size \in [Kids -> Sizes] /\ pos = [k \in Kids |-> 0]
    /\ workarea = [e \in Edges |-> 0]
    /\ commands = 0

NextSlit ==
    \/ Run
    \/ \E edge \in Edges : phase = "running" /\ Restart(edge)
    \/ \E k \in Kids : KidCreated(k) \/ KidDestroyed(k) \/ \E sz \in Sizes : KidResizes(k, sz)
    \/ \E s \in Slits :
         \/ slit_set_config(s)
         \/ \E on \in BOOLEAN : do_slit_autohide(s, on) \/ do_slit_float(s, on)
         \/ \E edge \in Edges : do_slit_align(s, edge)
         \/ TimerTick(s) \/ MouseOnKid(s) \/ MouseOnSlit(s) \/ MouseLeaves(s)
         \/ Deactivated(s) \/ Activated(s) \/ DisplayChange(s) \/ ChildResized(s)

(* The timer of a hiding slit ticks for as long as it is set.              *)
SlitFairness == \A s \in Slits : WF_slit_vars(TimerTick(s))
SpecSlit == InitSlit /\ [][NextSlit]_slit_vars /\ SlitFairness
-----------------------------------------------------------------------------
(* Type invariant.                                                         *)
SettingsType == [align : Edges, floating : BOOLEAN, auto_hide : {0, Strip},
                 interval : BOOLEAN]
SlitTypes ==
    /\ phase \in {"config", "running"}
    /\ \A s \in Slits :
         /\ registry[s] \in SettingsType \cup {<<>>}
         /\ Settings(info[s]) \in SettingsType
         /\ info[s].hidden \in BOOLEAN /\ info[s].left \in BOOLEAN
         /\ window[s].where \in Edges /\ window[s].off \in Int
         /\ window[s].r.w \in Nat /\ window[s].r.h \in Nat
    /\ kids \subseteq Kids /\ size \in [Kids -> Sizes] /\ pos \in [Kids -> Nat]
    /\ resized \subseteq Slits /\ over \subseteq Slits
    /\ workarea \in [Edges -> Nat] /\ commands \in 0..MaxCommands

(* The work area keeps free what the slits need now, although only the     *)
(* slit that a message is for is measured, hiding recomputes nothing and   *)
(* a slit may change its edge, its size or its kind while it is hidden.    *)
WorkAreaFits == phase = "running" => workarea = WorkArea(info, window)

(* A hidden slit with children, at the right or bottom edge, can be        *)
(* touched by the mouse, whatever happened to them since it hid.  (At the  *)
(* left and top edge it loses its strip when a child shrinks; and an       *)
(* unnamed slit that was made to float while it hid keeps hiding, with no  *)
(* strip at all.)                                                          *)
HiddenInReach ==
    \A s \in Named :
       /\ info[s].hidden /\ window[s].where \notin Near
       /\ Across(window[s].where, window[s].r) > 0
       => OnScreen(s) > 0

(* Only a slit with a running timer is hidden; the mouse brings back no    *)
(* other.                                                                  *)
HiddenHasTimer == \A s \in Slits : info[s].hidden => info[s].interval

(* A hidden slit can be brought back: it has its strip and its timer       *)
(* (slit_wnd_proc, WM_TIMER, and size_slit of slit.cpp).                   *)
HiddenReturns == SlitTypes /\ HiddenInReach /\ HiddenHasTimer

(* A restart restores what a command saved, although the command saves     *)
(* before it corrects its own settings.                                    *)
SavedIsRestored ==
    [][\A s \in Named : registry'[s] # registry[s] =>
          Settings(Loaded(registry'[s])) = Settings(info'[s])]_slit_vars

(* With no resize waiting, the children of a slit lie inside it and do not *)
(* overlap, and of two with the same gravity the heavier is nearer to its  *)
(* end of the slit (docs.php:195).  Those not yet measured, created or     *)
(* destroyed while others were there, have such a message waiting.         *)
ChildrenApart ==
    \A s \in Slits : s \notin resized =>
       LET len(k) == Along(info[s].align, size[k])
           end(k) == pos[k] + len(k)
       IN  \A k \in KidsOf(s) :
             /\ end(k) <= Along(info[s].align, window[s].r)
             /\ \A l \in KidsOf(s) \ {k} :
                  /\ end(k) <= pos[l] \/ end(l) <= pos[k]
                  /\ grav[k] = grav[l] /\ pri[k] > pri[l]
                       => (pos[k] < pos[l] <=> grav[k] = "hi")

(* What the slits show fits together (recalc_slit_size, slit.cpp:277-591): *)
(* the work area they reserve, and the children within each of them.       *)
LayoutIsSound == WorkAreaFits /\ ChildrenApart

(* A slit that hides and that the mouse has left hides again.              *)
HidesAgain ==
    \A s \in Slits :
       (phase = "running" /\ info[s].interval /\ s \notin over)
         ~> (info[s].hidden \/ ~info[s].interval \/ s \in over \/ phase = "config")
=============================================================================
