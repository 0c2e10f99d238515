------------------------------ MODULE Overview ------------------------------
(***************************************************************************)
(* The overview plugin (overview.cpp): a window over each monitor with     *)
(* pictures of the windows on it, and a thread that takes the pictures.    *)
(*                                                                         *)
(* One structure stands for those of all monitors; it is made by           *)
(* show_overview and gets the next number each time, so that a structure   *)
(* that has been deleted can be told from the one made after it.           *)
(* close_overview runs two pumps, waits for the thread and only then       *)
(* deletes.                                                                *)
(***************************************************************************)
EXTENDS MainThread, FiniteSets

CONSTANT MaxThreads   \* bound: capture threads of a session

VARIABLES
    monitors,        \* the structure in use, 0 if the list is empty
    last,            \* structures made so far
    items,           \* the windows that it lists
    shown_desk,      \* the workspace it was made for
    wnds,            \* structures that have a window on the screen
    freed,           \* structures that were deleted
    update_thread,   \* the thread whose handle is kept, or 0
    threads,         \* those that run
    made             \* threads made so far

overview == <<monitors, last, items, shown_desk, wnds, freed, update_thread,
              threads, made>>

Thread(id, phase, mon, left) == [id |-> id, phase |-> phase, mon |-> mon, left |-> left]
Runs(id) == \E t \in threads : t.id = id
Closing == InStack("close_overview")

CreateThread(ts) ==
    /\ made' = made + 1
    /\ update_thread' = made'
    /\ threads' = ts \cup {Thread(made', "start", 0, 0)}

\* for_each_monitor and add_to_task_list, over all monitors.
Listed == {w \in ToSet(zorder) : desk \in HomeOf[w]}

-----------------------------------------------------------------------------
(***************************************************************************)
(* close_overview.                                                         *)
(***************************************************************************)
\* Its window done, or destroyed while the thread waits for it to be painted.
NextItem(t) ==
    IF t.left > 1 THEN {[t EXCEPT !.phase = "capture", !.left = t.left - 1]} ELSE {}

KeepWindows == UNCHANGED <<wnds, threads>>     \* mutant

\* DestroyWindow of each monitor's window, and WM_DESTROY.
DestroyWindows ==
    /\ wnds' = wnds \ {monitors}
    /\ LET waits == {t \in threads : t.phase = "update" /\ t.mon = monitors}
       IN  threads' = (threads \ waits) \cup UNION {NextItem(t) : t \in waits}

\* pump, when it has taken all messages there are.
pump(at) == Drained("close_overview", at)

close_overview(to, s) ==
    /\ DestroyWindows
    /\ stack' = <<Frame("close_overview", "pump", to, NoMeaning)>> \o s
    /\ UNCHANGED <<monitors, last, items, shown_desk, freed, update_thread, made>>

CloseSwitches ==
    /\ pump("pump")
    /\ zorder' = Raised(Head(stack).arg)
    /\ stack' = [stack EXCEPT ![1].at = "pump again"]
    /\ UNCHANGED <<overview, queue, desk, keys>>

CloseWaits ==
    /\ pump("pump again")
    /\ stack' = [stack EXCEPT ![1].at = "wait"]
    /\ UNCHANGED <<overview, queue, desk, zorder, keys>>

ThreadEndedAnyway == TRUE                      \* mutant
ThreadEnded == ~Runs(update_thread)

Deleted == {monitors} \ {0}

CloseFrees ==
    /\ Running("close_overview") /\ Head(stack).at = "wait"
    /\ ThreadEnded
    /\ freed' = freed \cup Deleted
    /\ monitors' = 0 /\ items' = {} /\ update_thread' = 0
    /\ stack' = Tail(stack)
    /\ UNCHANGED <<last, shown_desk, wnds, threads, made, queue, desk, zorder, keys>>

-----------------------------------------------------------------------------
(***************************************************************************)
(* show_overview, which also closes, and what the windows receive.         *)
(***************************************************************************)
show_overview ==
    /\ Receives("show")
    /\ queue' = Tail(queue)
    /\ IF monitors # 0 THEN close_overview(NoWindow, stack)
       ELSE /\ ~Runs(update_thread)
            /\ last' = last + 1 /\ monitors' = last'
            /\ items' = Listed /\ shown_desk' = desk
            /\ wnds' = wnds \cup {last'}
            /\ CreateThread(threads)
            /\ UNCHANGED <<freed, stack>>
    /\ UNCHANGED <<desk, zorder, keys>>

\* WM_LBUTTONUP, on an item or beside all.
ClickItem ==
    /\ monitors \in wnds /\ Press /\ queue = <<>>
    /\ \E w \in items \cup {NoWindow} : close_overview(w, stack)
    /\ UNCHANGED <<queue, desk, zorder>>

\* WM_TIMER: start_update_thread.
OnTimer ==
    /\ Pumping /\ queue = <<>>
    /\ monitors \in wnds
    /\ ~Runs(update_thread) /\ made < MaxThreads
    /\ CreateThread(threads)
    /\ UNCHANGED <<monitors, last, items, shown_desk, wnds, freed, mainthread>>

\* UpdateWindow of the thread is a message sent to the main one.
Painted ==
    /\ Pumping
    /\ \E t \in threads :
         /\ t.phase = "update"
         /\ threads' = (threads \ {t}) \cup NextItem(t)
    /\ UNCHANGED <<monitors, last, items, shown_desk, wnds, freed, update_thread,
                   made, mainthread>>

-----------------------------------------------------------------------------
(***************************************************************************)
(* update_captures.                                                        *)
(***************************************************************************)
\* It ends at once if it finds no window; a minimised window has no picture taken.
CollectItems ==
    \E t \in threads, n \in 0..Cardinality(items) :
        /\ t.phase = "start"
        /\ threads' = (threads \ {t}) \cup
             IF monitors \in wnds /\ n > 0 THEN {Thread(t.id, "capture", monitors, n)} ELSE {}

\* The picture of one window; then the overview's window is to show it.
Capture ==
    \E t \in threads :
        /\ t.phase = "capture"
        /\ threads' = (threads \ {t}) \cup
             IF t.mon \in wnds THEN {[t EXCEPT !.phase = "update"]} ELSE NextItem(t)

update_captures ==
    /\ CollectItems \/ Capture
    /\ UNCHANGED <<monitors, last, items, shown_desk, wnds, freed, update_thread,
                   made, mainthread>>

InitOverview ==
    /\ monitors = 0 /\ last = 0 /\ items = {} /\ shown_desk = 0 /\ wnds = {}
    /\ freed = {} /\ update_thread = 0 /\ threads = {} /\ made = 0

TypeOKOverview ==
    /\ monitors \in 0..last /\ last \in 0..MaxKeys
    /\ items \subseteq Windows /\ shown_desk \in 0..NDesks
    /\ wnds \subseteq 1..last /\ freed \subseteq 1..last
    /\ update_thread \in 0..made
    /\ \A t \in threads : t.id \in 1..made /\ t.mon \in 0..last
=============================================================================
