-------------------------------- MODULE Dock --------------------------------
(***************************************************************************)
(* The dock (dock.cpp): a column of icons.  A RESIDENT icon stands for a   *)
(* shortcut in the dock's directory, a TASK icon only for the windows it   *)
(* shows; both collect running windows.  Three sources change it, all on   *)
(* the shell's one thread: a scan of the directory, a scan of the windows, *)
(* and the shell messages about a window that flashes or is redrawn.       *)
(*                                                                         *)
(* The windows, their desktops and the directory belong to the rest of the *)
(* system and change at any time, also between two callbacks of one        *)
(* EnumWindows.  MaxMoves bounds how often they do, and how often a menu   *)
(* is asked for, which runs a loop of its own while the rest goes on.  The *)
(* order of the windows of one icon, the icons' pictures, highlight and    *)
(* tips are left out.                                                      *)
(***************************************************************************)
EXTENDS Naturals, FiniteSets, SequencesExt, Subsequences

CONSTANTS Win, File, Module,
          App,        \* the windows IsAppWindow accepts
          NoFile,     \* exec of a task icon
          Unreadable, \* what GetWindowModulePath yields when it cannot tell
          moduleOf,   \* window -> its module, Unreadable when it is empty
          target,     \* shortcut -> the module it launches (get_module_name)
          MaxMoves

ASSUME DockAssumption ==
    /\ App \subseteq Win
    /\ NoFile \notin File /\ Unreadable \notin Module /\ IsFiniteSet(File)
    /\ moduleOf \in [Win -> Module \cup {Unreadable}]
    /\ target \in [File -> Module]
    /\ MaxMoves \in Nat

VARIABLES
    alive, visible,   \* windows that exist; those of them that are shown
    elsewhere,        \* those of App whose desktop bits lack the active desktop
    dir,              \* shortcuts in the directory that the scan accepts
    flashes,          \* HSHELL_FLASH messages posted and not yet handled
    moves,            \* how often the world changed
    armed, noticed,   \* ReadDirectoryChangesW issued; a change it will report
    missed,           \* history: a change before the first request, no scan since
    items, has_changed,
    is_vert, room,    \* along which side it lies; what the dock window is sized for
    menu,             \* the menu TrackPopupMenuEx shows in WM_CONTEXTMENU
    dir_change_time,  \* "off", "set", or "due" when the 1200 ms are over
    pc, todo, at      \* "idle", or inside scan_tasks: "enum" over todo, "dead" at items[at]

world == <<alive, visible, elsewhere, dir, flashes, moves>>
watch == <<armed, noticed, missed>>
icons == <<items, has_changed, room>>
shape == <<is_vert, menu>>
scan  == <<pc, todo, at>>
vars  == <<world, watch, icons, shape, dir_change_time, scan>>

Resident(it) == it.file # NoFile
Apps(it)     == DOMAIN it.apps           \* apps: listed window -> is it flashing
Listed       == UNION {Apps(items[i]) : i \in DOMAIN items}
Residents(s) == {s[i].file : i \in DOMAIN s} \ {NoFile}

Moves == moves < MaxMoves /\ moves' = moves + 1

NoApps == [w \in {} |-> FALSE]
With(apps, w, flashing) ==
    [v \in DOMAIN apps \cup {w} |-> IF v = w THEN flashing ELSE apps[v]]
Without(apps, w) == [v \in DOMAIN apps \ {w} |-> apps[v]]

-----------------------------------------------------------------------------
(* The program a shortcut launches, found through the shell link and, when *)
(* that names none, the file itself; and the program a window belongs to,  *)
(* found through its process, which may refuse to be opened.               *)
get_module_name(f) == target[f]
get_window_module_path(w) == moduleOf[w]

(* find_matching_item: the first icon that lists w, or that shows w's      *)
(* module.  The module is only read once a resident icon has been passed,  *)
(* so a task icon above every resident never matches by module.            *)
ByModule(w, i) ==
    /\ \E j \in 1..i : Resident(items[j])
    /\ get_window_module_path(w) # Unreadable
    /\ items[i].module = get_window_module_path(w)
Matches(w, i) == w \in Apps(items[i]) \/ ByModule(w, i)
find_matching_item(w) ==
    {i \in DOMAIN items : Matches(w, i) /\ \A j \in 1..(i - 1) : ~Matches(w, j)}
Exact(w) == \E i \in find_matching_item(w) : w \in Apps(items[i])

SetApps(i, apps) == items' = [items EXCEPT ![i].apps = apps]
TaskFor(w, flashing) ==
    [file |-> NoFile, module |-> get_window_module_path(w),
     apps |-> With(NoApps, w, flashing), held |-> FALSE]

(* apps.erase, and the icon with it when it was a task's last window.      *)
ForgetEmpty(i, w) ==                    \* mutant: a shortcut's icon goes too
    LET apps == Without(items[i].apps, w) IN
    IF apps = NoApps THEN items' = RemoveAt(items, i) ELSE SetApps(i, apps)
Forget(i, w) ==
    LET apps == Without(items[i].apps, w) IN
    IF apps = NoApps /\ ~Resident(items[i])
    THEN items' = RemoveAt(items, i)
    ELSE SetApps(i, apps)

(* The new window joins the icon of its module or gets a task icon.        *)
Adopt(w, flashing) ==
    \/ \E i \in find_matching_item(w) : SetApps(i, With(items[i].apps, w, flashing))
    \/ find_matching_item(w) = {} /\ items' = Append(items, TaskFor(w, flashing))

(* update_view: the dock window is made as long as its icons.              *)
update_view == has_changed' = FALSE /\ room' = [icons |-> Len(items'), vert |-> is_vert]

-----------------------------------------------------------------------------
(* scan_dir.  Icons whose shortcut is gone are demoted while they have     *)
(* windows and deleted otherwise; shortcuts without an icon get one, in    *)
(* the order FindNextFile lists them.                                      *)
Kept(it) == Resident(it) /\ it.file \notin dir => it.apps # NoApps
KeptWhileRunning(it) == it
Demoted(it) == IF Resident(it) /\ it.file \notin dir
               THEN [it EXCEPT !.file = NoFile] ELSE it
NewResident(f) == [file |-> f, module |-> get_module_name(f), apps |-> NoApps,
                   held |-> FALSE]

Orders(S) == {s \in [1..Cardinality(S) -> S] :
                \A j, k \in 1..Cardinality(S) : s[j] = s[k] => j = k}

scan_dir ==
    /\ \E old \in Ascending({i \in DOMAIN items : Kept(items[i])}),
          new \in Orders(dir \ Residents(items)) :
         /\ items' = [k \in DOMAIN old |-> Demoted(items[old[k]])]
                       \o [k \in DOMAIN new |-> NewResident(new[k])]
         /\ IF has_changed \/ Len(old) < Len(items) \/ new # <<>>
                THEN update_view
                ELSE UNCHANGED <<has_changed, room>>
    /\ dir_change_time' = "off"
    /\ missed' = FALSE

(* scan_tasks, first half: EnumWindows over the windows there are, of      *)
(* which the call-back ignores those that are no application windows.      *)
scan_tasks ==
    /\ pc' = "enum"
    /\ todo' = alive \cap App
    /\ UNCHANGED at

(* A listed window of another desktop leaves the dock unless it flashes.   *)
LeavesAnyway(i, w) == w \in elsewhere
Leaves(i, w) == w \in elsewhere /\ ~items[i].apps[w]

do_task_scan(w) ==
    /\ pc = "enum" /\ w \in todo
    /\ todo' = todo \ {w}
    /\ IF w \notin visible
       THEN UNCHANGED icons
       ELSE /\ UNCHANGED room
            /\ \/ /\ Exact(w)
                  /\ \E i \in find_matching_item(w) :
                       IF Leaves(i, w)
                       THEN /\ Forget(i, w)
                            /\ has_changed' = (has_changed \/ Len(items') < Len(items))
                       ELSE UNCHANGED <<items, has_changed>>
               \/ /\ ~Exact(w) /\ w \in elsewhere
                  /\ UNCHANGED <<items, has_changed>>
               \/ /\ ~Exact(w) /\ w \notin elsewhere
                  /\ Adopt(w, FALSE)
                  /\ has_changed' = TRUE
    /\ UNCHANGED <<world, watch, dir_change_time, pc, at, shape>>

EnumDone ==
    /\ pc = "enum" /\ todo = {}
    /\ pc' = "dead" /\ at' = 1
    /\ UNCHANGED <<world, watch, icons, dir_change_time, todo, shape>>

(* scan_tasks, second half: one dead window of each icon is dropped; when  *)
(* that removes an icon the search starts again from the top.              *)
DeadButHidden(i) == Apps(items[i]) \ alive
Dead(i) == Apps(items[i]) \ (alive \cap visible)
DropDead ==
    /\ pc = "dead" /\ at <= Len(items)
    /\ IF Dead(at) = {}
       THEN UNCHANGED <<items, has_changed>> /\ at' = at + 1
       ELSE /\ \E w \in Dead(at) : Forget(at, w)
            /\ has_changed' = TRUE
            /\ at' = IF Len(items') < Len(items) THEN 1 ELSE at + 1
    /\ UNCHANGED <<world, watch, room, dir_change_time, pc, todo, shape>>
ScanDone ==
    /\ pc = "dead" /\ at > Len(items)
    /\ pc' = "idle" /\ at' = 1
    /\ UNCHANGED items
    /\ IF has_changed THEN update_view ELSE UNCHANGED <<has_changed, room>>
    /\ UNCHANGED <<world, watch, dir_change_time, todo, shape>>

-----------------------------------------------------------------------------
(* The messages of the dock, each handled from beginning to end before the *)
(* next; those that scan the windows leave the steps above to be taken.    *)

(* WM_TIMER: the directory when its delay is over, then the windows when   *)
(* the interval is (1200 ms also), on ticks 50 ms apart.                    *)
Timer(interval_over) ==
    /\ pc = "idle"
    /\ dir_change_time = "due" \/ interval_over
    /\ IF dir_change_time = "due" THEN scan_dir
                                  ELSE UNCHANGED <<icons, dir_change_time, missed>>
    /\ IF interval_over THEN scan_tasks ELSE UNCHANGED scan
    /\ UNCHANGED <<world, armed, noticed, shape>>

(* HSHELL_WINDOWCREATED, also late: it scans at once.                      *)
WindowCreated ==
    /\ pc = "idle"
    /\ scan_tasks
    /\ UNCHANGED <<world, watch, icons, dir_change_time, shape>>

(* The delay of 1200 ms after a change passes.                             *)
DelayOver ==
    /\ dir_change_time = "set"
    /\ dir_change_time' = "due"
    /\ UNCHANGED <<world, watch, icons, scan, shape>>

(* A click beside the icons scans the directory.                           *)
ClickBeside ==
    /\ pc = "idle" /\ ~menu.shown
    /\ scan_dir
    /\ UNCHANGED <<world, armed, noticed, scan, shape>>

Calms(i, w) ==
    /\ w \in Apps(items[i]) /\ items[i].apps[w]
    /\ SetApps(i, With(items[i].apps, w, FALSE))

(* A click on an icon goes to a flashing window of it and calms it.        *)
ClickIcon(i) ==
    /\ pc = "idle" /\ ~menu.shown
    /\ \E w \in Win : Calms(i, w)
    /\ UNCHANGED <<world, watch, has_changed, room, dir_change_time, scan, shape>>

(* HSHELL_REDRAW of the window in the foreground calms it.                 *)
Redraw(w) ==
    /\ pc = "idle" /\ w \in alive
    /\ \E i \in find_matching_item(w) : Calms(i, w)
    /\ update_view
    /\ UNCHANGED <<world, watch, dir_change_time, scan, shape>>

(* HSHELL_FLASH.  The message was posted: the window may be gone by now.   *)
Flash(w) ==
    /\ pc = "idle" /\ w \in flashes
    /\ flashes' = flashes \ {w}
    /\ \/ UNCHANGED icons                  \* it is the foreground window
       \/ /\ \/ /\ Exact(w)
                /\ \E i \in find_matching_item(w) : SetApps(i, With(items[i].apps, w, TRUE))
             \/ ~Exact(w) /\ Adopt(w, TRUE)
          /\ update_view
    /\ UNCHANGED <<alive, visible, elsewhere, dir, moves, watch, dir_change_time, scan, shape>>

(* dir_changed, an APC: it starts the delay anew and asks for more.  The   *)
(* loop of a menu does not wait alertably: it runs when the menu is gone.  *)
dir_changed ==
    /\ pc = "idle" /\ noticed /\ ~menu.shown
    /\ noticed' = FALSE
    /\ dir_change_time' = "set"
    /\ UNCHANGED <<world, armed, missed, icons, scan, shape>>

(* The first monitor_dir, after the scan_dir of initialize.                *)
monitor_dir ==
    /\ ~armed
    /\ armed' = TRUE
    /\ UNCHANGED <<world, noticed, missed, icons, dir_change_time, scan, shape>>

(* WM_CONTEXTMENU: the entries are the windows of the icon and, for a      *)
(* resident one, launch and properties, which carry a pointer to the icon. *)
(* TrackPopupMenuEx then runs a message loop.  removed is for a property:  *)
(* the shortcut was not in the directory for a time.                       *)
Closed == [shown |-> FALSE, launches |-> NoFile, removed |-> FALSE]
Hold(i) == [items EXCEPT ![i].held = Resident(items[i])]
ContextMenu(i) ==
    /\ Moves
    /\ pc = "idle" /\ ~menu.shown
    /\ menu' = [shown |-> TRUE, launches |-> items[i].file,
                removed |-> Resident(items[i]) /\ items[i].file \notin dir]
    /\ items' = Hold(i)
    /\ UNCHANGED <<alive, visible, elsewhere, dir, flashes, watch, has_changed,
                   room, is_vert, dir_change_time, scan>>

(* An entry is chosen, whose WM_MENUCOMMAND is taken at once, or none: the *)
(* command switches to the window or executes what the icon stands for.    *)
MenuEnds ==
    /\ pc = "idle" /\ menu.shown
    /\ menu' = Closed
    /\ items' = [i \in DOMAIN items |-> [items[i] EXCEPT !.held = FALSE]]
    /\ UNCHANGED <<world, watch, has_changed, room, is_vert, dir_change_time, scan>>

-----------------------------------------------------------------------------
(* The rest of the system.                                                 *)
(* A window is created, shown or hidden.                                   *)
WindowChanges(w) ==
    /\ Moves
    /\ \/ /\ w \notin alive
          /\ alive' = alive \cup {w} /\ visible' = visible \cup {w}
       \/ /\ w \in alive /\ UNCHANGED alive
          /\ visible' = IF w \in visible THEN visible \ {w} ELSE visible \cup {w}
    /\ UNCHANGED <<elsewhere, dir, flashes, watch, icons, dir_change_time, scan, shape>>

WindowDies(w) ==
    /\ Moves
    /\ w \in alive
    /\ alive' = alive \ {w} /\ visible' = visible \ {w}
    /\ UNCHANGED <<elsewhere, dir, flashes, watch, icons, dir_change_time, scan, shape>>

WindowFlashes(w) ==
    /\ Moves
    /\ w \in alive
    /\ flashes' = flashes \cup {w}
    /\ UNCHANGED <<alive, visible, elsewhere, dir, watch, icons, dir_change_time, scan, shape>>

(* ChangeDesktopBits moves a window; only the shell's thread calls it.     *)
WindowMoves(w) ==
    /\ Moves
    /\ pc = "idle" /\ w \in App
    /\ elsewhere' = IF w \in elsewhere THEN elsewhere \ {w} ELSE elsewhere \cup {w}
    /\ UNCHANGED <<alive, visible, dir, flashes, watch, icons, dir_change_time, scan, shape>>

(* WZN_DESKTOP_SWITCHED: other windows are on the desktop; the dock scans. *)
DesktopSwitched ==
    /\ Moves
    /\ pc = "idle"
    /\ elsewhere' \in SUBSET App
    /\ scan_tasks
    /\ UNCHANGED <<alive, visible, dir, flashes, watch, icons, dir_change_time, shape>>

(* The slit is moved to another side, and tells its children as it is.     *)
(* handle_slit_layout_change lays the icons out again.                     *)
handle_slit_layout_change ==
    /\ Moves
    /\ pc = "idle"
    /\ is_vert' = ~is_vert
    /\ has_changed' = FALSE /\ room' = [room EXCEPT !.vert = ~@]
    /\ UNCHANGED <<alive, visible, elsewhere, dir, flashes, watch, items, menu,
                   dir_change_time, scan>>

(* A shortcut appears or goes; the request under way will report it.       *)
DirectoryChanges(f) ==
    /\ Moves
    /\ dir' = IF f \in dir THEN dir \ {f} ELSE dir \cup {f}
    /\ menu' = [menu EXCEPT !.removed = @ \/ f = menu.launches]
    /\ noticed' = (noticed \/ armed)
    /\ missed' = (missed \/ ~armed)
    /\ UNCHANGED <<alive, visible, elsewhere, flashes, armed, icons, is_vert,
                   dir_change_time, scan>>

-----------------------------------------------------------------------------
(* initialize: scan_dir on an empty dock.                                  *)
Init ==
    /\ alive \in SUBSET Win /\ visible = alive
    /\ elsewhere \in SUBSET App /\ dir \in SUBSET File
    /\ flashes = {} /\ moves = 0
    /\ armed = FALSE /\ noticed = FALSE /\ missed = FALSE
    /\ \E new \in Orders(dir) : items = [k \in DOMAIN new |-> NewResident(new[k])]
    /\ has_changed = FALSE /\ is_vert \in BOOLEAN /\ room = [icons |-> Len(items), vert |-> is_vert]
    /\ menu = Closed
    /\ dir_change_time = "off"
    /\ pc = "idle" /\ todo = {} /\ at = 1

Steps == (\E w \in Win : do_task_scan(w)) \/ EnumDone \/ DropDead \/ ScanDone
Deliver == \E w \in Win : Flash(w)

Next ==
    \/ Steps \/ Deliver
    \/ \E interval_over \in BOOLEAN : Timer(interval_over)
    \/ WindowCreated
    \/ DelayOver \/ ClickBeside \/ dir_changed \/ monitor_dir
    \/ \E i \in DOMAIN items : ClickIcon(i) \/ ContextMenu(i)
    \/ MenuEnds \/ handle_slit_layout_change
    \/ \E w \in Win : Redraw(w)
    \/ \E w \in Win : WindowChanges(w) \/ WindowDies(w) \/ WindowFlashes(w) \/ WindowMoves(w)
    \/ DesktopSwitched
    \/ \E f \in File : DirectoryChanges(f)

(* A scan once begun runs to its end and the delay passes.  The thread is  *)
(* idle only between messages, hence strong fairness: posted messages and  *)
(* APCs are served before the timer, and the timer, which looks at both    *)
(* deadlines on every tick, as windows are not created without end.        *)
Fairness ==
        /\ WF_vars(Steps) /\ WF_vars(DelayOver) /\ WF_vars(monitor_dir)
        /\ SF_vars(Timer(TRUE)) /\ SF_vars(Deliver) /\ SF_vars(dir_changed)
Spec == Init /\ [][Next]_vars /\ Fairness
-----------------------------------------------------------------------------
(* Type invariant of the dock, its scans and the world around it.          *)
TypeOK ==
    /\ alive \subseteq Win /\ visible \subseteq alive /\ elsewhere \subseteq App
    /\ dir \subseteq File /\ flashes \subseteq Win /\ moves \in 0..MaxMoves
    /\ armed \in BOOLEAN /\ noticed \in BOOLEAN /\ missed \in BOOLEAN
    /\ \A i \in DOMAIN items :
         /\ items[i].file \in File \cup {NoFile}
         /\ items[i].module \in Module \cup {Unreadable}
         /\ Apps(items[i]) \subseteq Win
         /\ \A w \in Apps(items[i]) : items[i].apps[w] \in BOOLEAN
         /\ items[i].held \in BOOLEAN
    /\ has_changed \in BOOLEAN /\ is_vert \in BOOLEAN
    /\ room \in [icons : Nat, vert : BOOLEAN]
    /\ menu \in [shown : BOOLEAN, launches : File \cup {NoFile}, removed : BOOLEAN]
    /\ dir_change_time \in {"off", "set", "due"}
    /\ pc \in {"idle", "enum", "dead"} /\ todo \subseteq Win
    /\ at \in 1..(Len(items) + 1)

(* A window is shown by at most one icon, although shortcuts to one        *)
(* program share its module, icons are demoted and deleted and the module  *)
(* of a window is only compared below the first resident icon.             *)
OneIconPerWindow ==
    \A i, j \in DOMAIN items : i # j => Apps(items[i]) \cap Apps(items[j]) = {}

(* A task icon shows a window: nothing would ever take an empty one away,  *)
(* since scan_tasks deletes an icon only as it drops its last window.      *)
NoHollowTask == \A i \in DOMAIN items : Resident(items[i]) \/ items[i].apps # NoApps

(* Between two messages the dock window is as long as its icons need,      *)
(* along its slit: whoever adds or removes one has set has_changed and     *)
(* updated the view.                                                       *)
DockFits == pc = "idle" => room = [icons |-> Len(items), vert |-> is_vert] /\ ~has_changed

(* The icon a shown menu would launch is there for its command, whatever   *)
(* scans delete in the menu's loop: it only goes when its shortcut was     *)
(* taken from the directory (with which the pointer does dangle).          *)
MenuIconLives ==
    menu.launches # NoFile /\ ~menu.removed
        => \E i \in DOMAIN items : items[i].held /\ items[i].file = menu.launches

(* The list of icons is sound at every step of a scan, between its         *)
(* call-backs too (do_task_scan, scan_tasks, scan_dir of dock.cpp).        *)
IconsAreSound == TypeOK /\ OneIconPerWindow /\ NoHollowTask /\ DockFits /\ MenuIconLives

(* With no change of the directory reported or waited for, the resident    *)
(* icons are its shortcuts, each once; except that a change made between   *)
(* the scan of initialize and the first monitor_dir is not reported.       *)
DirectoryShown ==
    /\ \A i, j \in DOMAIN items :
         Resident(items[i]) /\ items[i].file = items[j].file => i = j
    /\ armed /\ ~noticed /\ ~missed /\ dir_change_time = "off"
         => Residents(items) = dir

(* A window that flashes stays in the dock, on whatever desktop it is,     *)
(* until it is gone or hidden: the user is to find it there.               *)
Flashing == UNION {{w \in Apps(items[i]) : items[i].apps[w]} : i \in DOMAIN items}
FlashKept == [][\A w \in Flashing : w \in Listed' \/ w \notin alive \cap visible]_vars

(* When the world comes to rest the dock comes to show it: the windows of  *)
(* the desktop, none that is gone (scan_tasks may need several rounds, as  *)
(* it drops one per icon), none of another desktop unless it flashes, and  *)
(* the directory.                                                          *)
WindowsShown ==
    /\ (App \cap visible) \ elsewhere \subseteq Listed
    /\ Listed \subseteq visible
    /\ Listed \cap elsewhere \cap App \subseteq Flashing
SettlesRight == <>[](WindowsShown /\ (missed \/ menu.shown \/ Residents(items) = dir))
=============================================================================
