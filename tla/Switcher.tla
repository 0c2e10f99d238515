------------------------------ MODULE Switcher ------------------------------
(***************************************************************************)
(* The Alt-Tab task switcher (taskswitch.cpp): a low-level keyboard hook   *)
(* that follows the keys and notifies, a hot key that lets the switcher    *)
(* take the focus, and a window that shows the tasks of a workspace.  The  *)
(* hook runs on the main thread, whenever that takes messages; what it     *)
(* notifies comes back to the window as posted messages.                   *)
(*                                                                         *)
(* walk is no state of the code: it counts, from the keys alone, how far   *)
(* the user has gone through the list since it was last made.              *)
(***************************************************************************)
EXTENDS MainThread

VARIABLES
    alt, held,          \* the keys Alt and Shift
    alttab, shift,      \* KeyProc's idea of them
    visible,            \* switch_wnd is on the screen
    task_list, task_index, ts_desk,
    walk

keyboard == <<alt, held, alttab, shift, walk>>
switch == <<visible, task_list, task_index, ts_desk>>

-----------------------------------------------------------------------------
(***************************************************************************)
(* KeyProc.                                                                *)
(*                                                                         *)
(* Unless "hasty" is in World the shell has dealt with the hot key before  *)
(* the next key comes; unless "again" is, no key comes before a choice is  *)
(* carried out.                                                            *)
(***************************************************************************)
Choosing == Waiting("select") \/ InStack("do_select")

Heard ==
    /\ Pumping
    /\ "hasty" \in World \/ ~(Waiting("hotkey") \/ Waiting("activate"))
    /\ "again" \in World \/ ~Choosing

\* The switcher_ functions: each posts a message to the switcher's window.
Post(q, kind, arg) == Append(q, Message(kind, arg))

\* on_notify posts it, whoever sent the notification.
Notify(kind) == queue' = Post(queue, kind, NoMeaning)

AltDown ==
    /\ Heard /\ ~alt
    /\ alt' = TRUE
    /\ UNCHANGED <<held, alttab, shift, walk, mainthread>>

\* With Alt up this is WM_KEYDOWN, which KeyProc does not look at.
ShiftDown ==
    /\ Heard /\ ~held
    /\ alt \/ "shiftfirst" \in World
    /\ held' = TRUE
    /\ shift' = (shift \/ alt)
    /\ UNCHANGED <<alt, alttab, walk, mainthread>>

Step(back) == IF back THEN -1 ELSE 1

\* The first Tab goes on to the system, which makes it WM_HOTKEY.
TabDown ==
    /\ Heard /\ alt /\ Press
    /\ IF alttab
       THEN /\ Notify(IF shift THEN "backward" ELSE "forward")
            /\ walk' = walk + Step(held)
       ELSE /\ queue' = Append(queue, Message("hotkey", IF held THEN 1 ELSE 0))
            /\ walk' = Step(held)
    /\ alttab' = TRUE
    /\ UNCHANGED <<alt, held, shift, stack, desk, zorder>>

EscapeDown ==
    /\ Heard /\ alt /\ alttab /\ Press
    /\ Notify("cancel")
    /\ alttab' = FALSE
    /\ UNCHANGED <<alt, held, shift, walk, stack, desk, zorder>>

\* mutant: no notification
UnstuckSilently(q) == alttab' = (alttab /\ alt) /\ queue' = q

\* The end of every key-up but that of Alt: "ensure that we don't stick".
Unstuck(q) ==
    IF alttab /\ ~alt
    THEN alttab' = FALSE /\ queue' = Post(q, "cancel", NoMeaning)
    ELSE alttab' = alttab /\ queue' = q

EnterUp ==
    /\ Heard /\ alttab /\ Press
    /\ Unstuck(Post(queue, "desk", NoMeaning))
    /\ walk' = 0
    /\ UNCHANGED <<alt, held, shift, stack, desk, zorder>>

ShiftUp ==
    /\ Heard /\ held
    /\ held' = FALSE /\ shift' = FALSE
    /\ Unstuck(queue)
    /\ UNCHANGED <<alt, walk, stack, desk, zorder, keys>>

OtherUp ==
    /\ Heard /\ alttab /\ ~alt
    /\ Unstuck(queue)
    /\ UNCHANGED <<alt, held, shift, walk, stack, desk, zorder, keys>>

AltUp ==
    /\ Heard /\ alt
    /\ alt' = FALSE /\ alttab' = FALSE
    /\ queue' = IF alttab THEN Post(queue, "select", walk) ELSE queue
    /\ UNCHANGED <<held, shift, walk, stack, desk, zorder, keys>>

\* The desktop was another one, or the hook was too slow: KeyProc is not called.
AltUpLost ==
    /\ "lost" \in World /\ Heard /\ alt
    /\ alt' = FALSE
    /\ UNCHANGED <<held, alttab, shift, walk, mainthread>>

KeyProc ==
    /\ AltDown \/ ShiftDown \/ TabDown \/ EscapeDown \/ EnterUp \/ ShiftUp
         \/ OtherUp \/ AltUp \/ AltUpLost
    /\ UNCHANGED switch

-----------------------------------------------------------------------------
(***************************************************************************)
(* switch_proc.  Each operator takes the queue without its message.        *)
(***************************************************************************)
FirstIndex(back, list) == IF Len(list) < 2 THEN 0 ELSE IF back THEN Len(list) - 1 ELSE 1

\* build_task_list, for the active workspace or for the next one.
Activate(back) ==
    /\ ts_desk' = desk - 1
    /\ task_list' \in WindowsOf(desk)
    /\ task_index' = FirstIndex(back, task_list')
    /\ visible' = TRUE

\* mutant: the index of the workspace before
NextDeskKeepsIndex ==
    /\ ts_desk' = IF ts_desk + 1 = MaximumWorkspaces THEN 0 ELSE ts_desk + 1
    /\ task_list' \in WindowsOf(ts_desk' + 1)
    /\ visible' = TRUE /\ task_index' = task_index

NextDesk ==
    /\ ts_desk' = IF ts_desk + 1 = MaximumWorkspaces THEN 0 ELSE ts_desk + 1
    /\ task_list' \in WindowsOf(ts_desk' + 1)
    /\ task_index' = 0
    /\ visible' = TRUE

Forward ==
    /\ task_index' = IF task_index + 1 >= Len(task_list) THEN 0 ELSE task_index + 1
    /\ UNCHANGED <<visible, task_list, ts_desk>>

Backward ==
    /\ task_index' = IF task_index <= 0 THEN Len(task_list) - 1 ELSE task_index - 1
    /\ UNCHANGED <<visible, task_list, ts_desk>>

Cancel == visible' = FALSE /\ UNCHANGED <<task_list, task_index, ts_desk>>

Moves(m) ==
    CASE m.kind = "activate" -> Activate(m.arg = 1)
      [] m.kind = "forward"  -> Forward
      [] m.kind = "backward" -> Backward
      [] m.kind = "desk"     -> NextDesk
      [] m.kind = "cancel"   -> Cancel

OnSwitchMessage ==
    /\ \E kind \in {"activate", "forward", "backward", "desk", "cancel"} : Receives(kind)
    /\ queue' = Tail(queue)
    /\ Moves(Head(queue))
    /\ UNCHANGED <<keyboard, stack, desk, zorder, keys>>

\* do_select up to SwitchDesktop, which may come back much later.
do_select(i, meant) ==
    /\ visible' = FALSE
    /\ LET s == <<Frame("do_select", "switched", i, meant)>> \o stack
       IN  stack' = IF ts_desk # desk - 1 THEN SwitchDesktop(ts_desk + 1, s) ELSE s
    /\ UNCHANGED <<task_list, task_index, ts_desk, desk, zorder, keyboard>>

Select ==
    /\ Receives("select")
    /\ queue' = Tail(queue)
    /\ do_select(task_index, Head(queue).arg)
    /\ UNCHANGED keys

\* Input comes after posted messages.
ClickTask ==
    /\ visible /\ Press /\ queue = <<>>
    /\ "again" \in World \/ ~Choosing
    /\ \E i \in DOMAIN task_list : do_select(i - 1, i - 1)
    /\ UNCHANGED queue

\* What lies beyond the end of the list is anything.
Chosen(i) == IF i + 1 \in DOMAIN task_list THEN {task_list[i + 1]} ELSE Windows \cup {NoWindow}

FinishSelect ==
    /\ Running("do_select")
    /\ stack' = Tail(stack)
    /\ IF task_list = <<>> THEN UNCHANGED zorder
       ELSE \E w \in Chosen(Head(stack).arg) : zorder' = Raised(w)
    /\ task_list' = <<>>
    /\ ts_desk' = -1
    /\ UNCHANGED <<visible, task_index, keyboard, queue, desk, keys>>

InitSwitcher ==
    /\ alt = FALSE /\ held = FALSE /\ alttab = FALSE /\ shift = FALSE
    /\ visible = FALSE /\ task_list = <<>> /\ task_index = -1 /\ ts_desk = -1
    /\ walk = 0

TypeOKSwitcher ==
    /\ {alt, held, alttab, shift, visible} \subseteq BOOLEAN
    /\ task_list \in Seq(Windows) /\ IsInjective(task_list)
    /\ task_list # <<>> => task_index \in 0..(Len(task_list) - 1)
    /\ ts_desk \in -1..(NDesks + MaxKeys)
    /\ walk \in -MaxKeys..MaxKeys
=============================================================================
