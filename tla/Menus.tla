------------------------------- MODULE Menus -------------------------------
(***************************************************************************)
(* Context menus (contextmenu.cpp) and hot keys (hotkey.cpp): how a menu   *)
(* is built from the definitions into a pool of items, shown in a modal    *)
(* loop, filled while the user opens its sub-menus, and freed by a message *)
(* the shell posts to itself; and which window the functions for "the      *)
(* window of the context" act on.                                          *)
(*                                                                         *)
(* All of it runs on one thread.  What waits in a message loop is a frame  *)
(* of STACK: a menu, a box, the start of a program (which waits for DDE),  *)
(* a workspace switch.  The frame on top dispatches the messages of QUEUE  *)
(* in their order.  An item of a menu is named by its path in it.          *)
(***************************************************************************)
EXTENDS Naturals, FiniteSets, SequencesExt

CONSTANTS Windows,
          None, Root,  \* no app window, and the window of the shell itself
          Defs,        \* menu_defs: name -> its items, [kind, arg]
          PluginMenus, \* name -> the saved sessions its call-back adds an item for
          Files,       \* the names of the files in a merged directory
          HotkeyLines, \* the HOTKEY lines in order, [key, kind, arg]
          Matching,    \* windows that a MATCH CREATE rule places on a workspace
          MaxEvents    \* bounds what happens outside, and so the menus

Functions == {"place", "ask", "exec", "show"}
ASSUME MenusAssumption ==
    /\ None \notin Windows /\ Root \notin Windows \cup {None}
    /\ \A n \in DOMAIN Defs : \A i \in DOMAIN Defs[n] :
          Defs[n][i].kind \in Functions \cup {"dir", "sub"}
    /\ \A l \in DOMAIN HotkeyLines : HotkeyLines[l].kind \in Functions
    /\ DOMAIN Defs \cap DOMAIN PluginMenus = {}
    /\ Matching \subseteq Windows /\ MaxEvents \in Nat

VARIABLES
    pools,      \* the ResourcePools: the menu's name, the sub-menus filled
    freed,      \* those that were deleted
    stack, queue,
    active_workspace_context_window,
    foreground, alive,
    asked,      \* (history) pool -> the context its menu was opened in
    unsure,     \* (history) pools that saw another hot key or rule begin or end
    wrong,      \* (history) a command acted on a window it was not meant for
    aborted,    \* ResourcePool::add met the same destructor twice
    events      \* how many things happened
vars == <<pools, freed, stack, queue, active_workspace_context_window, foreground,
          alive, asked, unsure, wrong, aborted, events>>

-----------------------------------------------------------------------------
(* Building a menu.  realize_menu_by_name clones the definition, build_menu *)
(* its items; a sub-menu by name is realized in turn, a plugin's and that  *)
(* of a directory start empty.  A menu that contains itself would be built *)
(* without end: there is none here.                                        *)
Depth == 2
SubName(n, i) == IF n \in DOMAIN Defs /\ i \in DOMAIN Defs[n] /\ Defs[n][i].kind = "sub"
                 THEN Defs[n][i].arg ELSE "none"
MenuAt(name, path) == FoldLeft(SubName, name, path)
Paths == UNION {[1..d -> UNION {DOMAIN Defs[n] : n \in DOMAIN Defs}] : d \in 1..Depth}
Realized == [name \in DOMAIN Defs |->
               {path \in Paths : LET n == MenuAt(name, Front(path)) IN
                                    n \in DOMAIN Defs /\ Last(path) \in DOMAIN Defs[n]}]
Item == [name \in DOMAIN Defs |-> [path \in Realized[name] |->
           Defs[MenuAt(name, Front(path))][Last(path)]]]

(* A second plugin's menu in the same menu would register NULL twice, too. *)
IsPluginMenu(item) == item.kind = "sub" /\ item.arg \in DOMAIN PluginMenus
ASSUME OnePluginMenu ==
    \A name \in DOMAIN Defs : \A p, q \in Realized[name] :
        IsPluginMenu(Item[name][p]) /\ IsPluginMenu(Item[name][q]) => p = q

(* Every clone is deleted with the pool: the menus' and the items'.        *)
Clones(name) == {<<"delete item", path>> : path \in Realized[name]} \cup
                {<<"delete menu", path>> : path \in {q \in Realized[name] :
                    /\ Item[name][q].kind = "sub"
                    /\ Item[name][q].arg \in DOMAIN Defs \cup DOMAIN PluginMenus}} \cup
                {<<"delete menu", <<>>>>}

(* WM_MENUSELECT on an item with a sub-menu: one that is empty is filled,  *)
(* from the directories (fill_menu_from_dir) or by the call-back of the    *)
(* plugin, whose items come with a destructor for their argument           *)
(* (slit_add_callback_menu_item).  The argument NULL is always the same.   *)
DirItems(path) ==
    UNION {{<<"delete item", path, file>>, <<"free path", path, file>>,
            <<"free args", path, file>>} : file \in Files}
Sessions(name) == {"NULL"} \cup PluginMenus[name]    \* do_popup: New Session first
PluginItems(name, path) ==
    {<<"delete item", path, arg>> : arg \in Sessions(name)} \cup
    {IF arg = "NULL" THEN <<"free argument", arg>> ELSE <<"free argument", path, arg>> :
        arg \in Sessions(name)}
FilledBy(item, path) ==
    IF item.kind = "dir" THEN DirItems(path)
    ELSE IF IsPluginMenu(item)
         THEN PluginItems(item.arg, path) ELSE {}
ToKill(m) == Clones(m.name) \cup UNION {FilledBy(Item[m.name][path], path) : path \in m.filled}
Empty(filled, path) == path \notin filled
Select ==
    /\ stack # <<>> /\ Last(stack).at = "menu"
    /\ LET p == Last(stack).pool  m == pools[p] IN
       \E path \in Realized[m.name] :
          /\ FilledBy(Item[m.name][path], path) # {} /\ Empty(m.filled, path)
          /\ pools' = [pools EXCEPT ![p].filled = @ \cup {path}]
          /\ aborted' = (aborted \/ ToKill(m) \cap FilledBy(Item[m.name][path], path) # {})
    /\ UNCHANGED <<freed, stack, queue, active_workspace_context_window, foreground,
                   alive, asked, unsure, wrong, events>>

(* The commands the user can pick; files and plugin items start programs.  *)
Pickable(m) ==
    {Item[m.name][q] : q \in {r \in Realized[m.name] : Item[m.name][r].kind \in Functions}}
    \cup {[kind |-> "exec", arg |-> "none"] : q \in m.filled}

-----------------------------------------------------------------------------
(* Functions.  FRAME says on whose behalf one runs: the pool of the item   *)
(* (0 for none), the window a hot key gives the focus back to ("no" for    *)
(* none) and whether a rule has set the context for the call.              *)
Frame(pool, back, rule) == [pool |-> pool, back |-> back, rule |-> rule]
MenuOpen == \E n \in DOMAIN stack : stack[n].at = "menu"
Wait(at, f, fg, context) ==
    /\ stack' = Append(stack, [at |-> at, pool |-> f.pool, back |-> f.back,
                               rule |-> f.rule])
    /\ foreground' = fg /\ active_workspace_context_window' = context
ForgetContext(f, context) == None   \* mutant: handle_hotkey resets it
KeepContext(f, context) == IF f.rule THEN None ELSE context
Return(f, fg, context, rest) ==
    /\ stack' = rest
    /\ foreground' = IF f.back \in alive /\ fg = Root THEN f.back ELSE fg
    /\ active_workspace_context_window' = KeepContext(f, context)

(* popup_context_menu: TrackPopupMenuEx fails while another menu is open;  *)
(* either way the pool is freed by a message, posted after the menu.       *)
TrackFails == MenuOpen
NotFreed(p) == <<>>   \* mutant: a menu that is not shown returns early
FreeLater(p) == <<[m |-> "free", pool |-> p]>>
Popup(name, f, fg, context, q) ==
    IF name \notin DOMAIN Defs
    THEN /\ Return(f, fg, context, stack) /\ queue' = q
         /\ UNCHANGED <<pools, asked>>
    ELSE LET p == Len(pools) + 1 IN
         /\ pools' = Append(pools, [name |-> name, filled |-> {}])
         /\ asked' = Append(asked, context)
         /\ IF TrackFails
            THEN Return(f, fg, context, stack) /\ queue' = q \o FreeLater(p)
            ELSE Wait("menu", [f EXCEPT !.pool = p], fg, context) /\ queue' = q

(* run_func_by_name and SlitAction::Execute.                               *)
Run(kind, arg, f, fg, context, q) ==
    /\ \/ /\ kind = "place"
          /\ IF context = None THEN Return(f, fg, context, stack)
             ELSE Wait("switch", f, fg, context)
          /\ wrong' = (wrong \/ (f.pool \notin unsure \cup {0} /\ context # asked[f.pool]))
       \/ kind = "ask" /\ Wait("box", f, fg, context) /\ UNCHANGED wrong
       \/ kind = "exec" /\ Wait("exec", f, fg, context) /\ UNCHANGED wrong
       \/ kind = "show" /\ Popup(arg, f, fg, context, q) /\ UNCHANGED wrong
    /\ kind # "show" => queue' = q /\ UNCHANGED <<pools, asked>>

-----------------------------------------------------------------------------
(* The messages.                                                           *)
Live == DOMAIN pools \ freed

(* register_hotkey: a second line for a key takes the first one's place.   *)
Hotkeys == {HotkeyLines[l].key : l \in DOMAIN HotkeyLines}
resolve_hotkey(k) == HotkeyLines[CHOOSE l \in DOMAIN HotkeyLines : HotkeyLines[l].key = k
                       /\ \A j \in DOMAIN HotkeyLines : HotkeyLines[j].key = k => j <= l]

(* handle_hotkey: the context is the window the user is in.                *)
HandleHotkey(k, q) ==
    LET h == resolve_hotkey(k)
        context == IF foreground \in Windows THEN foreground ELSE None
    IN  /\ Run(h.kind, h.arg, Frame(0, foreground, FALSE), Root, context, q)
        /\ unsure' = unsure \cup Live

(* WM_CONTEXTMENU: the root window takes the focus, a slit does not; the   *)
(* context stays what it was.                                              *)
ContextMenu(m, q) ==
    /\ Run("show", "root", Frame(0, "no", FALSE),
           IF m.slit THEN foreground ELSE Root, active_workspace_context_window, q)
    /\ UNCHANGED unsure

(* WM_MENUCOMMAND: item->Execute.                                          *)
MenuCommand(m, q) ==
    /\ Run(m.kind, m.arg, Frame(m.pool, "no", FALSE), foreground,
           active_workspace_context_window, q)
    /\ UNCHANGED unsure

(* HSHELL_WINDOWCREATED: apply_window_match runs the function of a rule    *)
(* with the window as context, and resets the context.                     *)
WindowCreated(m, q) ==
    IF m.w \in Matching
    THEN /\ Run("place", "none", Frame(0, "no", TRUE), foreground, m.w, q)
         /\ unsure' = unsure \cup Live
    ELSE /\ queue' = q
         /\ UNCHANGED <<stack, foreground, active_workspace_context_window, pools, asked,
                        wrong, unsure>>

(* WZDM_FREE_MENU.                                                         *)
FreeMenu(m, q) ==
    /\ freed' = freed \cup {m.pool}
    /\ pools' = [pools EXCEPT ![m.pool].filled = {}]
    /\ asked' = [asked EXCEPT ![m.pool] = None] /\ unsure' = unsure \ {m.pool}
    /\ queue' = q
    /\ UNCHANGED <<stack, foreground, active_workspace_context_window, wrong>>

Dispatch ==
    /\ queue # <<>>
    /\ LET m == Head(queue)  q == Tail(queue) IN
       \/ m.m = "hotkey" /\ HandleHotkey(m.key, q) /\ UNCHANGED freed
       \/ m.m = "context" /\ ContextMenu(m, q) /\ UNCHANGED freed
       \/ m.m = "command" /\ MenuCommand(m, q) /\ UNCHANGED freed
       \/ m.m = "created" /\ WindowCreated(m, q) /\ UNCHANGED freed
       \/ m.m = "free" /\ FreeMenu(m, q)
    /\ UNCHANGED <<alive, aborted, events>>

(* The frame on top comes to its end: the user picks an item or leaves the *)
(* menu, a box is answered, the program is started, the switch is done.    *)
(* The command of the item is posted, and then the message that frees it.  *)
Commands(p) == {<<>>} \cup {<<[m |-> "command", pool |-> p, kind |-> c.kind,
                               arg |-> c.arg]>> : c \in Pickable(pools[p])}
FreeFirst(command, p) == FreeLater(p) \o command   \* mutant: freed before the command
FreeLast(command, p) == command \o FreeLater(p)
MenuEnds ==
    /\ stack # <<>> /\ Last(stack).at = "menu"
    /\ LET f == Last(stack) IN
       /\ Return(f, foreground, active_workspace_context_window, Front(stack))
       /\ \E c \in Commands(f.pool) : queue' = queue \o FreeLast(c, f.pool)
    /\ UNCHANGED <<pools, freed, alive, asked, unsure, wrong, aborted, events>>
FrameEnds ==
    /\ stack # <<>> /\ Last(stack).at # "menu"
    /\ Return(Last(stack), foreground, active_workspace_context_window, Front(stack))
    /\ unsure' = IF Last(stack).rule THEN unsure \cup Live ELSE unsure
    /\ UNCHANGED <<pools, freed, queue, alive, asked, wrong, aborted, events>>

-----------------------------------------------------------------------------
(* What happens outside: keys, clicks, windows.                            *)
Happens == events < MaxEvents /\ events' = events + 1
Post(m) == /\ queue' = Append(queue, m)
           /\ UNCHANGED <<pools, freed, stack, active_workspace_context_window, asked,
                          unsure, wrong, aborted>>
PressHotkey(k) == Post([m |-> "hotkey", key |-> k]) /\ UNCHANGED <<foreground, alive>>
(* WZDM_DESKTOP_MOUSE: as if the hot key of the root menu had been pressed,*)
(* if there is one.                                                        *)
RootKeys == {k \in Hotkeys : resolve_hotkey(k).kind = "show" /\ resolve_hotkey(k).arg = "root"}
RightClick ==
    /\ \/ RootKeys # {} /\ \E k \in RootKeys : Post([m |-> "hotkey", key |-> k])
       \/ RootKeys = {} /\ Post([m |-> "context", slit |-> FALSE])
       \/ Post([m |-> "context", slit |-> TRUE])
    /\ UNCHANGED <<foreground, alive>>
Create(w) == /\ w \notin alive /\ alive' = alive \cup {w}
             /\ Post([m |-> "created", w |-> w]) /\ UNCHANGED foreground
Close(w) == /\ w \in alive /\ alive' = alive \ {w}
            /\ foreground' = IF foreground = w THEN None ELSE foreground
            /\ UNCHANGED <<pools, freed, stack, queue, active_workspace_context_window, asked,
                           unsure, wrong, aborted>>
Activate(w) == /\ w \in alive /\ foreground' = w
               /\ UNCHANGED <<pools, freed, stack, queue, active_workspace_context_window,
                              alive, asked, unsure, wrong, aborted>>
Outside == Happens /\ \/ \E k \in Hotkeys : PressHotkey(k)
                      \/ RightClick
                      \/ \E w \in Windows : Create(w) \/ Close(w) \/ Activate(w)

Init == /\ pools = <<>> /\ freed = {} /\ stack = <<>> /\ queue = <<>>
        /\ active_workspace_context_window = None
        /\ alive \in SUBSET Windows /\ foreground \in alive \cup {None}
        /\ asked = <<>> /\ unsure = {} /\ wrong = FALSE /\ aborted = FALSE
        /\ events = 0
Idle == events = MaxEvents /\ queue = <<>> /\ stack = <<>> /\ UNCHANGED vars
Next == Select \/ Dispatch \/ MenuEnds \/ FrameEnds \/ Outside \/ Idle

(* The thread goes on, boxes are answered and programs start; a menu may   *)
(* stay open.                                                              *)
Fairness == WF_vars(Dispatch) /\ WF_vars(FrameEnds)
Spec == Init /\ [][Next]_vars /\ Fairness
-----------------------------------------------------------------------------
TypeOK ==
    /\ Len(asked) = Len(pools)
    /\ \A p \in DOMAIN pools : /\ pools[p].name \in DOMAIN Defs
                               /\ pools[p].filled \subseteq Realized[pools[p].name]
                               /\ asked[p] \in Windows \cup {None}
    /\ freed \cup unsure \subseteq DOMAIN pools
    /\ \A n \in DOMAIN stack : /\ stack[n].at \in {"menu", "box", "exec", "switch"}
                               /\ stack[n].pool \in {0} \cup DOMAIN pools
    /\ \A n \in DOMAIN queue : queue[n].m \in {"hotkey", "context", "command", "created", "free"}
    /\ active_workspace_context_window \in Windows \cup {None}
    /\ foreground \in Windows \cup {None, Root} /\ alive \in SUBSET Windows
    /\ wrong \in BOOLEAN /\ aborted \in BOOLEAN /\ events \in 0..MaxEvents

(* A menu on the screen, and every command that is still in the queue, has *)
(* its items: the message that frees them comes after the command, though  *)
(* any loop inside another handler may dispatch it.  No pool is to be      *)
(* freed twice, none registers the same destructor twice (which would end  *)
(* the shell), and at most one menu is open.                               *)
ItemsAlive ==
    /\ TypeOK
    /\ \A n \in DOMAIN stack : stack[n].at = "menu" => stack[n].pool \notin freed
    /\ \A n \in DOMAIN queue : queue[n].m \in {"command", "free"} => queue[n].pool \notin freed
    /\ \A j, k \in DOMAIN queue :
          queue[j].m = "free" /\ queue[k].m \in {"command", "free"}
             /\ queue[j].pool = queue[k].pool => k <= j
    /\ Cardinality({n \in DOMAIN stack : stack[n].at = "menu"}) <= 1
    /\ ~aborted

(* A command of a menu acts on the window the menu was asked for, unless   *)
(* another hot key or rule ran in between (the comment in handle_hotkey on *)
(* why the context is not reset).                                          *)
MeantWindow == ~wrong

(* Every menu that is no longer open is freed, also one that could not be  *)
(* shown (popup_context_menu, WZDM_FREE_MENU).                             *)
PoolsAreFreed ==
    \A p \in 1..MaxEvents :
        (p \in DOMAIN pools /\ \A n \in DOMAIN stack : stack[n].at = "menu" => stack[n].pool # p)
           ~> p \in freed
=============================================================================
