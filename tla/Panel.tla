-------------------------------- MODULE Panel --------------------------------
(***************************************************************************)
(* The plugins of a slit: the notification area, the flasher, the quick    *)
(* launch bar and the clock, whichever default.evdm loads.  Each keeps a   *)
(* list, a window and what it has registered elsewhere in step, while      *)
(* applications, directory, mail and slit change.  The shell's one thread  *)
(* runs all their handlers, one at a time.                                 *)
(***************************************************************************)
EXTENDS Tray, Flasher, QuickLaunch, Clock

CONSTANT Loads         \* the sets of plugins that configurations load
Plugins == {"tray", "flasher", "quicklaunch", "clock"}
ASSUME PanelAssumption == Loads \subseteq SUBSET Plugins

VARIABLE loaded        \* the plugins that are loaded and not unloaded

bar == <<items, ni, plug>>
flasher == <<alive, front, fl>>
links == <<dir, ql>>
clock == <<mail, edge, ck>>
panel == <<bar, flasher, links, clock, loaded>>

\* load_plugin of each: the windows of a plugin that is not loaded do not matter.
PanelInit ==
    /\ loaded \in Loads /\ Init
    /\ alive = (IF "flasher" \in loaded THEN Apps ELSE {}) /\ front = Nobody
    /\ fl = FlasherStarted
    /\ dir \in (IF "quicklaunch" \in loaded THEN SUBSET DOMAIN Files ELSE {{}})
    /\ ql \in scan_dir(NoLinks)
    /\ mail = 0 /\ edge = "RIGHT"
    /\ ck \in {ClockStarted(d) : d \in IF "clock" \in loaded THEN BOOLEAN ELSE {TRUE}}

\* The slit's menu moves it to another edge, and every child window is told; only
\* the clock listens: the others keep the direction they started with.
SlitMoves ==
    /\ \E e \in {"LEFT", "RIGHT", "TOP", "BOTTOM"} \ {edge} :
          /\ edge' = e
          /\ ck' = handle_slit_layout_change(ck, e)
    /\ UNCHANGED mail

\* unload of each plugin, at the end or before a restart.
Unload(x) ==
    /\ x \in loaded /\ loaded' = loaded \ {x}
    /\ fl' = IF x = "flasher" THEN [fl EXCEPT !.shown = FALSE] ELSE fl
    /\ ql' = IF x = "quicklaunch" THEN LinksUnload ELSE ql
    /\ UNCHANGED <<bar, alive, front, dir, clock>>

TrayStep  == "tray" \in loaded /\ Next /\ UNCHANGED <<flasher, links, clock, loaded>>
FlashStep == /\ "flasher" \in loaded /\ (FlasherNext \/ WindowsChange)
             /\ UNCHANGED <<bar, links, clock, loaded>>
LinksStep == /\ "quicklaunch" \in loaded /\ (LinksNext \/ DirectoryChanges)
             /\ UNCHANGED <<bar, flasher, clock, loaded>>
ClockStep == /\ "clock" \in loaded /\ (ClockTimer \/ MailChanges \/ SlitMoves)
             /\ UNCHANGED <<bar, flasher, links, loaded>>

PanelNext == \/ TrayStep \/ FlashStep \/ LinksStep \/ ClockStep
             \/ \E x \in Plugins : Unload(x)
PanelSpec == PanelInit /\ [][PanelNext]_panel

-----------------------------------------------------------------------------
\* Each plugin that is loaded shows what it does: see the three properties.
PluginsAreWhole ==
    /\ "flasher" \in loaded => FlasherIsWhole
    /\ "quicklaunch" \in loaded => LinksAreWhole
    /\ "clock" \in loaded => ClockFits
=============================================================================
