------------------------------- MODULE Shell -------------------------------
(***************************************************************************)
(* The life of the shell's process (wezdesk.cpp): the command line, the    *)
(* single instance, the plugins the configuration loads, the start-up      *)
(* items of a logon, the call-backs of the plugins, quit and restart, and  *)
(* the long way out with its drains of the message queue.                  *)
(*                                                                         *)
(* Everything is one thread, but a message box runs a message loop of its  *)
(* own, so a handler can be entered while another one, or the reading of   *)
(* the configuration, waits for its box.  An action is what a handler does *)
(* up to its box; the box is put on BOXES, and only the last can be ended. *)
(* A process that calls into a library already freed, or through the NULL  *)
(* that the shell leaves for its plugin, has crashed.                      *)
(***************************************************************************)
EXTENDS Naturals, FiniteSets, SequencesExt, Subsequences

CONSTANTS Plugins,   \* the plugins there are
          Broken,    \* those of another version: a box, and no plugin
          Config,    \* default.evdm: LOAD and HOTKEY lines, [op, arg]
          Sources,   \* what is in each Run key and start-up folder, in its order
          Links,     \* the items that are shortcuts
          Vetoes,    \* plugin -> the items its veto_startup_item answers 0 for
          SaferExec, \* the SaferExec lines: the items each one matches
          Wrap,      \* GetTickCount() counts modulo this
          Delays,    \* the times a call-back may be asked for
          MaxBoxes, MaxCalls, MaxLives,  \* bound boxes, call-backs, processes
          MaxLate    \* bounds the messages and ticks outside the plain pump

SourceNames == {"HKLM/Run", "HKLM/RunOnce", "HKCU/Run",
                "Common/Startup", "My/Startup", "HKCU/RunOnce"}
Offered == Sources["HKLM/Run"] \o Sources["HKLM/RunOnce"] \o Sources["HKCU/Run"]
             \o Sources["Common/Startup"] \o Sources["My/Startup"] \o Sources["HKCU/RunOnce"]
Keys == {"quit", "restart", "switch", "func"}
ASSUME ShellAssumption ==
    /\ Broken \subseteq Plugins
    /\ \A n \in SourceNames : Sources[n] \in Seq(Range(Sources[n]))
    /\ Config \in Seq(Range(Config)) /\ SaferExec \in Seq(SUBSET Range(Offered))
    /\ \A l \in 1..Len(Config) : \/ Config[l].op = "LOAD" /\ Config[l].arg \in Plugins
                                 \/ Config[l].op = "HOTKEY" /\ Config[l].arg \in Keys
    /\ \A m, n \in 1..Len(Config) : Config[m] = Config[n] => m = n
    /\ Vetoes \in [Plugins -> SUBSET Range(Offered)]
    /\ Wrap \in Nat \ {0} /\ Delays \subseteq 1..(Wrap - 1)
    /\ {MaxBoxes, MaxCalls, MaxLate} \subseteq Nat /\ MaxLives \in Nat \ {0}

VARIABLES
    phase,     \* where WinMain is
    registry,  \* what winlogon reads: Shell and DesktopProcess of the user, and
               \* whether system.ini's boot section is mapped to the user
    services,  \* service_objects: "unloaded", "started" or "stopped"
    lives,     \* processes started
    run_startup,   \* the process has /runstartup
    mutex,     \* single_instance_mtx: "" or the process that holds it
    line,      \* lines of the configuration read
    plugins,   \* the vector, in the order of loading
    mapped,    \* those whose plugin and module are not NULL
    hotkeys,   \* functions with a registered hot key
    items,     \* startup_items
    accepted,  \* (history) all items that were queued
    handled,   \* (history) [item, how] of every item taken off the queue
    calls,     \* plugin -> its callbacks, [due, left, wrapped]
    now,       \* GetTickCount()
    timer,     \* a WM_TIMER of the plugin timer is due
    early,     \* (history) a call-back was called before its time
    posted,    \* messages of the root window: hot keys, and "shell"
    boxes,     \* the message boxes open, the last on top
    late,      \* messages and ticks so far outside the plain pump
    quit, need_to_respawn_shell

startup == <<items, accepted, handled>>
clock == <<calls, now, timer, early>>
loaded == <<line, plugins, mapped, hotkeys>>
input == <<posted, boxes, late>>
ending == <<quit, need_to_respawn_shell>>
process == <<lives, run_startup, mutex>>
system == <<registry, services>>
vars == <<phase, system, process, startup, clock, loaded, input, ending>>

Draining == {"drain", "stopped", "unloaded", "unhooked", "keyless"}
RootWindow == {"config", "pump"} \cup Draining

(* A message loop runs: the pump's, a drain's or a box's.                  *)
Pumping == phase \in {"pump"} \cup Draining \/ boxes # <<>>
Box(kind) == Len(boxes) < MaxBoxes /\ boxes' = Append(boxes, kind)

(* What a fault leaves: crash_dumper, and the end of the process.          *)
Crash(why) == /\ phase' = why
              /\ mutex' = ""
              /\ boxes' = <<>>
              /\ UNCHANGED <<system, lives, run_startup, startup, clock, loaded, posted, late, ending>>
Faults == {"called freed code", "called through NULL"}

-----------------------------------------------------------------------------
(* WinMain down to the pump.                                               *)

(* init_shell: the window class, the root window, the shell hook and the   *)
(* common controls; when one of them fails WinMain goes to the way out.    *)
InitShell == {"config", "drain"}

(* install_shell and sys_install: what a write that is refused leaves.     *)
install_shell(shell, desktop) ==
    {registry, [registry EXCEPT !.shell = shell],
     [registry EXCEPT !.shell = shell, !.desktop = desktop]}
sys_install(mapping) == {registry, [registry EXCEPT !.mapping = mapping]}

(* handle_command_line with an argument that changes the registry: says so *)
(* whatever came of it, and ends.                                          *)
Install == /\ phase = "off"
           /\ registry' \in install_shell("evil", 1) \cup install_shell("explorer", 0)
                             \cup sys_install("USR") \cup sys_install("SYS")
           /\ UNCHANGED <<phase, services, process, startup, clock, loaded, input, ending>>

(* handle_command_line with /runstartup, which winlogon passes when it is  *)
(* told to run the shell, or with nothing, when a user starts it.          *)
Logon == registry.mapping = "USR" /\ registry.shell = "evil"
handle_command_line == {FALSE} \cup (IF Logon THEN {TRUE} ELSE {})

(* WinMain: GDI+ may fail, and a second copy of the shell says so and      *)
(* ends; then init_shell.                                                  *)
Start == /\ phase = "off" /\ mutex = ""
         /\ lives' = 1
         /\ run_startup' \in handle_command_line
         /\ \/ phase' \in InitShell /\ mutex' = "shell"
            \/ phase' = "gone" /\ UNCHANGED mutex
         /\ UNCHANGED <<system, startup, clock, loaded, input, ending>>

CALL == [due : 1..(Wrap - 1), left : 0..(Wrap - 1), wrapped : BOOLEAN]

(* core_schedule_callback: the sum wraps, and one that comes out as 0 is   *)
(* taken for a finished one: schedule_plugin_callbacks erases it at once.  *)
Schedule(cs, t, ms) ==
    LET due == (t + ms) % Wrap
    IN  IF due = 0 THEN cs
        ELSE Append(cs, [due |-> due, left |-> ms, wrapped |-> t + ms >= Wrap])
ScheduleAny(cs, t) == {cs} \cup {Schedule(cs, t, ms) : ms \in Delays}

(* One line of init_context_menu: LOAD through core_load_plugin (a missing *)
(* library or an initialize that fails leaves nothing), HOTKEY through     *)
(* register_hotkey.                                                        *)
ReadLoad ==
    /\ phase = "config" /\ boxes = <<>> /\ line < Len(Config)
    /\ Config[line + 1].op = "LOAD"
    /\ line' = line + 1
    /\ LET p == Config[line + 1].arg IN
       \/ /\ p \in Broken /\ Box("version")
          /\ UNCHANGED <<plugins, mapped, calls>>
       \/ /\ p \notin Broken
          /\ plugins' = Append(plugins, p) /\ mapped' = mapped \cup {p}
          /\ \E cs \in ScheduleAny(<<>>, now) : \E ds \in ScheduleAny(cs, now) :
                Len(ds) <= MaxCalls /\ calls' = [calls EXCEPT ![p] = ds]
          /\ UNCHANGED boxes
       \/ UNCHANGED <<plugins, mapped, calls, boxes>>
    /\ UNCHANGED <<phase, system, process, startup, now, timer, early, hotkeys, posted, late, ending>>
ReadHotkey ==
    /\ phase = "config" /\ boxes = <<>> /\ line < Len(Config)
    /\ Config[line + 1].op = "HOTKEY"
    /\ line' = line + 1
    /\ hotkeys' = hotkeys \cup {Config[line + 1].arg}
    /\ UNCHANGED <<phase, system, process, startup, clock, plugins, mapped, input, ending>>

(* queue_run: any plugin can veto; a higher answer is noted and not used.  *)
Vetoed(i) == \E p \in Range(plugins) : i \in Vetoes[p]
StartupEachTime == lives > 0   \* mutant: every process runs the items
StartupWanted == run_startup

(* The rest of WinMain down to the pump: the timer of the plugins, the     *)
(* hooks, the service objects of the system, and for the logon's process   *)
(* run_startup_items, which goes through the six sources (run_from_reg,    *)
(* run_from_csidl).                                                        *)
load_shell_service_objects == services' = "started"
EnterPump ==
    /\ phase = "config" /\ boxes = <<>> /\ line = Len(Config)
    /\ phase' = "pump" /\ load_shell_service_objects
    /\ IF StartupWanted
       THEN /\ \E kept \in Ascending({n \in 1..Len(Offered) : ~Vetoed(Offered[n])}) :
                 items' = [k \in DOMAIN kept |-> Offered[kept[k]]]
            /\ accepted' = items'
            /\ UNCHANGED handled
       ELSE UNCHANGED startup
    /\ UNCHANGED <<registry, process, clock, loaded, input, ending>>

-----------------------------------------------------------------------------
(* The handlers of the root window.                                        *)

(* run: for a shortcut core_execute looks for the first rule that matches, *)
(* otherwise only the first rule is looked at.                             *)
Restricted(i) == IF i \in Links THEN \E r \in 1..Len(SaferExec) : i \in SaferExec[r]
                 ELSE Len(SaferExec) > 0 /\ i \in SaferExec[1]

(* WM_TIMER 1: one start-up item is taken off the queue and then run.  A   *)
(* token that cannot be made, and a shortcut that cannot be started, show  *)
(* a box; another item that does not start is only logged.  The timer is   *)
(* killed with the queue empty, and does nothing from then on.             *)
TimerKilledEarly == Len(items) > 1   \* mutant: KillTimer with one item left
TimerRuns == items # <<>>
StartupItem ==
    /\ phase \in RootWindow /\ Pumping /\ TimerRuns
    /\ LET i == Head(items) IN
       /\ items' = Tail(items)
       /\ \/ /\ Restricted(i) /\ Box("token")
             /\ handled' = Append(handled, [item |-> i, how |-> "not"])
          \/ /\ handled' = Append(handled,
                    [item |-> i, how |-> IF Restricted(i) THEN "safer" ELSE "user"])
             /\ UNCHANGED boxes
          \/ /\ handled' = Append(handled, [item |-> i, how |-> "not"])
             /\ IF i \in Links THEN Box("execute") ELSE UNCHANGED boxes
    /\ UNCHANGED <<phase, system, process, accepted, clock, loaded, posted, late, ending>>

(* WM_TIMER 2: in each plugin the first call-back whose time has come.  It *)
(* may ask for another call; the ones that are done are erased.            *)
Ready(cs) == {n \in 1..Len(cs) : cs[n].due <= now}
First(S) == CHOOSE n \in S : \A m \in S : n <= m
Called == {p \in Range(plugins) : Ready(calls[p]) # {}}
PluginTimer ==
    /\ phase \in RootWindow /\ Pumping /\ timer
    /\ \/ /\ Called \ mapped # {}
          /\ Crash("called freed code")
       \/ /\ Called \subseteq mapped
          /\ timer' = FALSE
          /\ \E again \in [Called -> Delays \cup {0}] :
             /\ calls' = [p \in Plugins |->
                  IF p \notin Called THEN calls[p]
                  ELSE LET cs == RemoveAt(calls[p], First(Ready(calls[p]))) IN
                       IF again[p] = 0 THEN cs ELSE Schedule(cs, now, again[p])]
          /\ early' = (early \/ \E p \in Called :
                LET c == calls[p][First(Ready(calls[p]))] IN c.left > 0 /\ ~c.wrapped)
          /\ UNCHANGED <<phase, system, process, startup, now, loaded, input, ending>>

(* A shell message: every plugin that is still there is told.              *)
ToldAll == Range(plugins)   \* mutant: without the check of p->plugin
Told == {p \in Range(plugins) : p \in mapped}
ShellMessage ==
    /\ phase \in RootWindow /\ Pumping /\ "shell" \in posted
    /\ IF Told \subseteq mapped
       THEN /\ posted' = posted \ {"shell"}
            /\ UNCHANGED <<phase, system, process, startup, clock, loaded, boxes, late, ending>>
       ELSE Crash("called through NULL")

(* WM_HOTKEY: quit and restart ask first, a switch tells the plugins with  *)
(* core_send_notify, which looks for no NULL, and func is a function that  *)
(* a plugin has registered.                                                *)
HotkeyAsks(k) ==
    /\ k \in {"quit", "restart"} /\ Box(k)
    /\ posted' = posted \ {k}
    /\ UNCHANGED <<phase, system, process, startup, clock, loaded, late, ending>>
HotkeyCalls(k) ==
    /\ k \in {"switch", "func"}
    /\ IF Range(plugins) \subseteq mapped
       THEN /\ posted' = posted \ {k}
            /\ UNCHANGED <<phase, system, process, startup, clock, loaded, boxes, late, ending>>
       ELSE Crash(IF k = "switch" THEN "called through NULL" ELSE "called freed code")
Hotkey == /\ phase \in RootWindow /\ Pumping
          /\ \E k \in posted \ {"shell"} : HotkeyAsks(k) \/ HotkeyCalls(k)

(* The top box ends: the user answers, or it sees WM_QUIT and passes it    *)
(* on, with an answer that is not IDNO.  do_quit and do_restart_shell go   *)
(* ahead unless the answer is IDNO.                                        *)
BoxEnds(yes) ==
    /\ boxes # <<>>
    /\ boxes' = Front(boxes)
    /\ LET go == Last(boxes) \in {"quit", "restart"} /\ yes IN
       /\ quit' = (quit \/ go)
       /\ need_to_respawn_shell' = (need_to_respawn_shell \/ (go /\ Last(boxes) = "restart"))
    /\ UNCHANGED <<phase, system, process, startup, clock, loaded, posted, late>>
Answer == (\E yes \in BOOLEAN : ~quit /\ BoxEnds(yes)) \/ (quit /\ BoxEnds(TRUE))

-----------------------------------------------------------------------------
(* WM_QUIT, and the way out.  A drain ends when there is no message left.  *)
Leave(from, to) == phase = from /\ boxes = <<>> /\ phase' = to
Drained == posted = {} /\ ~timer

Quit == /\ Leave("pump", "drain") /\ quit
        /\ quit' = FALSE
        /\ UNCHANGED <<system, process, startup, clock, loaded, input, need_to_respawn_shell>>

(* The service objects are told to stop and released.                      *)
StopServices == /\ Leave("drain", "stopped") /\ Drained
                /\ services' = IF services = "started" THEN "stopped" ELSE services
                /\ UNCHANGED <<registry, process, startup, clock, loaded, input, ending>>

(* Every plugin's unload, its plugin set to NULL, its library freed.  Its  *)
(* call-backs and its functions stay in the lists.                         *)
Unload == /\ Leave("stopped", "unloaded") /\ Drained
          /\ mapped' = {}
          /\ UNCHANGED <<system, process, startup, clock, line, plugins, hotkeys, input, ending>>

(* DeregisterShellHookWindow, the clean-up of all windows, fini_tray.      *)
Unhook == /\ Leave("unloaded", "unhooked") /\ Drained
          /\ UNCHANGED <<system, process, startup, clock, loaded, input, ending>>

(* unregister_hotkeys and destroy_slits.                                   *)
Unkey == /\ Leave("unhooked", "keyless") /\ Drained
         /\ hotkeys' = {}
         /\ UNCHANGED <<system, process, startup, clock, line, plugins, mapped, input, ending>>

(* DestroyWindow(root_window), which takes its timers and messages with    *)
(* it, contextmenu_shutdown, destroy_per_window, CloseHandle.              *)
StillHeld(m) == m   \* mutant: the respawn comes before CloseHandle
Released(m) == ""
CloseMutex == /\ Leave("keyless", "closed") /\ Drained
              /\ mutex' = Released(mutex)
              /\ items' = <<>>
              /\ UNCHANGED <<system, lives, run_startup, accepted, handled, clock, loaded, input, ending>>

(* A copy that the user has started in the two seconds before the respawn. *)
OtherCopy == /\ phase = "closed" /\ mutex = "" /\ mutex' = "other"
             /\ UNCHANGED <<phase, system, lives, run_startup, startup, clock, loaded, input, ending>>

(* do_respawn_shell, with no arguments.  The new process takes the mutex,  *)
(* or finds it held and ends.  The old one frees its plugins' records.     *)
Respawn == /\ phase = "closed" /\ need_to_respawn_shell
           /\ IF mutex = "" THEN phase' = "config" /\ mutex' = "shell"
              ELSE phase' = "refused" /\ UNCHANGED mutex
           /\ lives' = lives + 1 /\ run_startup' = FALSE
           /\ line' = 0 /\ plugins' = <<>> /\ mapped' = {} /\ hotkeys' = {}
           /\ calls' = [p \in Plugins |-> <<>>] /\ late' = 0
           /\ need_to_respawn_shell' = FALSE /\ services' = "unloaded"
           /\ UNCHANGED <<registry, startup, now, timer, early, posted, boxes, quit>>
Exit == /\ phase = "closed" /\ ~need_to_respawn_shell
        /\ phase' = "gone"
        /\ UNCHANGED <<system, process, startup, clock, loaded, input, ending>>

-----------------------------------------------------------------------------
(* The rest of the machine: messages come while there is somewhere to send *)
(* them; the clock ticks, slowly enough for the plugin timer to keep up.   *)
(* Outside the plain pump there is a bound: nobody presses keys for ever   *)
(* to keep a shell from starting or ending.                                *)
Budget == IF phase = "pump" /\ ~quit THEN UNCHANGED late ELSE late < MaxLate /\ late' = late + 1
Arrive == /\ phase \in RootWindow /\ Budget
          /\ \/ \E k \in hotkeys \ posted : /\ k = "restart" => lives < MaxLives
                                            /\ posted' = posted \cup {k}
             \/ /\ phase \notin {"unhooked", "keyless"} /\ "shell" \notin posted
                /\ posted' = posted \cup {"shell"}
          /\ UNCHANGED <<phase, system, process, startup, clock, loaded, boxes, ending>>
Tick == /\ phase \in RootWindow \ {"config"} /\ Budget
        /\ ~timer /\ timer' = TRUE
        /\ now' = (now + 1) % Wrap
        /\ calls' = [p \in Plugins |-> [n \in 1..Len(calls[p]) |->
               [calls[p][n] EXCEPT !.left = IF @ = 0 THEN 0 ELSE @ - 1]]]
        /\ UNCHANGED <<phase, system, process, startup, early, loaded, posted, boxes, ending>>

Fresh == [mapping |-> "SYS", shell |-> "explorer", desktop |-> 0]
Init == /\ registry = Fresh /\ services = "unloaded" /\ phase = "off" /\ lives = 0 /\ run_startup = FALSE /\ mutex = "" /\ line = 0
        /\ plugins = <<>> /\ mapped = {} /\ hotkeys = {}
        /\ items = <<>> /\ accepted = <<>> /\ handled = <<>>
        /\ calls = [p \in Plugins |-> <<>>]
        /\ now \in 0..(Wrap - 1) /\ timer = FALSE /\ early = FALSE
        /\ posted = {} /\ boxes = <<>> /\ late = 0
        /\ quit = FALSE /\ need_to_respawn_shell = FALSE

Ended == phase \in {"gone", "refused"} \cup Faults /\ UNCHANGED vars

Next == \/ Install \/ Start \/ ReadLoad \/ ReadHotkey \/ EnterPump
        \/ StartupItem \/ PluginTimer \/ ShellMessage \/ Hotkey \/ Answer
        \/ Quit \/ StopServices \/ Unload \/ Unhook \/ Unkey \/ CloseMutex \/ OtherCopy \/ Respawn \/ Exit
        \/ Arrive \/ Tick \/ Ended

(* One thread that is never blocked for good, a user who answers boxes.    *)
Fairness ==
    /\ WF_vars(ReadLoad) /\ WF_vars(ReadHotkey) /\ WF_vars(EnterPump)
    /\ WF_vars(StartupItem) /\ WF_vars(PluginTimer) /\ WF_vars(ShellMessage)
    /\ WF_vars(Hotkey) /\ WF_vars(Answer) /\ WF_vars(Tick)
    /\ WF_vars(Quit) /\ WF_vars(StopServices) /\ WF_vars(Unload) /\ WF_vars(Unhook) /\ WF_vars(Unkey)
    /\ WF_vars(CloseMutex) /\ WF_vars(Respawn)
Spec == Init /\ [][Next]_vars /\ Fairness
-----------------------------------------------------------------------------
TypeOK ==
    /\ phase \in {"off", "closed", "gone", "refused"} \cup RootWindow \cup Faults
    /\ registry \in [mapping : {"SYS", "USR"}, shell : {"explorer", "evil"}, desktop : 0..1]
    /\ services \in {"unloaded", "started", "stopped"}
    /\ lives \in 0..MaxLives /\ run_startup \in BOOLEAN /\ mutex \in {"", "shell", "other"}
    /\ line \in 0..Len(Config) /\ plugins \in Seq(Plugins)
    /\ mapped \in SUBSET Range(plugins) /\ hotkeys \in SUBSET Keys
    /\ {items, accepted} \subseteq Seq(Range(Offered))
    /\ handled \in Seq([item : Range(Offered), how : {"user", "safer", "not"}])
    /\ calls \in [Plugins -> Seq(CALL)] /\ \A p \in Plugins : Len(calls[p]) <= MaxCalls
    /\ now \in 0..(Wrap - 1) /\ late \in 0..MaxLate
    /\ {timer, early, quit, need_to_respawn_shell} \subseteq BOOLEAN
    /\ posted \in SUBSET (Keys \cup {"shell"})
    /\ boxes \in Seq({"version", "token", "execute", "quit", "restart"}) /\ Len(boxes) <= MaxBoxes

(* Boxes that start-up items show let the timer start further items inside *)
(* them, and the user can restart the shell at any time: still no item of  *)
(* a logon is started twice or out of the order of the queue, none that a  *)
(* plugin vetoed is queued, and none that the first SaferExec line matches *)
(* gets the user's own token (queue_run, run, WM_TIMER 1).  The service    *)
(* objects run before the first item and stop before plugins are unloaded. *)
HandledItems == [n \in 1..Len(handled) |-> handled[n].item]
StartsInOrder ==
    /\ TypeOK
    /\ IsPrefix(HandledItems \o items, accepted)
    /\ services = "started" => phase \in {"pump", "drain"} \cup Faults
    /\ phase = "pump" => services = "started"
    /\ phase = "pump" => \A p \in mapped : Vetoes[p] \cap Range(items) = {}
    /\ \A h \in Range(handled) :
          h.how = "user" => Len(SaferExec) = 0 \/ h.item \notin SaferExec[1]

(* A call-back is early only when its time wrapped past 2^32 ms; and the   *)
(* code of a plugin is entered after its unload only for a call-back that  *)
(* was still in the list, or a hot key pressed during the drains: shell    *)
(* messages never reach it (the check of p->plugin in shell_wnd_proc).     *)
CallsInTime ==
    /\ ~early
    /\ phase \in Faults => /\ mapped = {}
                           /\ {"switch", "func"} \cap posted # {} \/ Called # {}

(* The start-up items of a logon are all taken off the queue, boxes and    *)
(* nested boxes notwithstanding, unless the shell is told to leave.        *)
ItemsAreStarted == (phase = "pump" /\ items # <<>>) ~> (items = <<>> \/ phase # "pump")

(* Restart gives the user a shell again: the new process does not find the *)
(* mutex of the old one (CloseHandle comes before do_respawn_shell).  What *)
(* can prevent it is a fault in the drains.                                *)
RestartComesBack ==
    need_to_respawn_shell ~> \/ ~need_to_respawn_shell /\ (phase = "pump" \/ mutex = "other")
                             \/ phase \in Faults
=============================================================================
