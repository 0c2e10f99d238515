--------------------------- MODULE WorkspacesProofs ---------------------------
(***************************************************************************)
(* Proofs about Workspaces, for any windows, workspaces, rules and bounds. *)
(*                                                                         *)
(* SavedAreTracked and NoStaleOrder are not inductive as they stand: the   *)
(* switch must be known not to change its target on the way, to target a   *)
(* workspace other than the current one, and to have emptied the target's  *)
(* z-order by the time the pump runs.  IInv says so.                       *)
(*                                                                         *)
(* The second half is about a calm world (Calm, below), where what the     *)
(* user sees agrees with the table.  CInv follows a window through the     *)
(* phases of a switch: one that is open and one that the shell has put     *)
(* away, what its entry and the z-orders say of it before each pass.       *)
(***************************************************************************)
EXTENDS Workspaces, TLAPS

TargetCleared == phase = "pump" => zorder[target] = {}
TargetIsOther == desktop_switching => target # current_desktop
KnownIffTracked == \A w \in Windows : w \in tracked <=> desktop_bits[w] # {}

IInv ==
    /\ TypeOK
    /\ SavedAreTracked
    /\ NoStaleOrder
    /\ TargetCleared
    /\ TargetIsOther
    /\ KnownIffTracked

-----------------------------------------------------------------------------
(* The messages and what they carry. *)

LEMMA MessageFields ==
    ASSUME NEW m \in Messages
    PROVE  /\ m.kind \in {"created", "activated", "redraw", "destroyed", "workspace"}
                => m.win \in Windows
           /\ m.kind = "workspace" => m.desks \in Places
           /\ m.kind = "hotkey" => m.desk \in Requests
  BY DEF Messages

LEMMA PlacesAreDesks ==
    /\ \A p \in Places : p \in SUBSET Desks /\ p # {}
    /\ 1 \in Desks
  BY DesksAssumption DEF Places, Desks

LEMMA HeadTail ==
    ASSUME TypeOK, queue # <<>>
    PROVE  Head(queue) \in Messages /\ Tail(queue) \in Seq(Messages)
  BY DEF TypeOK

LEMMA PostKeepsType ==
    ASSUME TypeOK, NEW m \in Messages, Post(m)
    PROVE  queue' \in Seq(Messages)
  BY DEF TypeOK, Post

-----------------------------------------------------------------------------
(* What holds of the table: the part of IInv that the handlers can disturb. *)

TableOK ==
    /\ tracked \subseteq Windows
    /\ desktop_bits \in [Windows -> SUBSET Desks]
    /\ not_minimized \in [Windows -> SUBSET Desks]
    /\ zorder \in [Desks -> SUBSET Windows]
    /\ SavedAreTracked
    /\ KnownIffTracked

\* No handler adds to a z-order.
OrdersShrink == \A d \in Desks : zorder'[d] \subseteq zorder[d]

LEMMA IInvTable ==
    ASSUME IInv
    PROVE  TableOK
  BY DEF IInv, TypeOK, TableOK

\* get_PerWindow keeps the table sound, whatever chain it walks.
LEMMA GetKeepsTable ==
    ASSUME TableOK, NEW ws \in SUBSET Windows, NEW d \in Desks, get_PerWindow(ws, d)
    PROVE  TableOK' /\ OrdersShrink
<1>1. PICK gone \in Reapable(ws) :
        /\ tracked' = TrackedAfter(ws, gone)
        /\ desktop_bits' = BitsAfter(ws, gone, d)
        /\ not_minimized' = MinAfter(ws, gone, d)
        /\ zorder' = ZorderAfter(gone)
  BY DEF get_PerWindow
<1>2. gone \subseteq tracked /\ gone \cap ws = {}
  BY DEF Reapable
<1>3. tracked' \subseteq Windows
  BY <1>1 DEF TrackedAfter, TableOK
<1>4. /\ desktop_bits' \in [Windows -> SUBSET Desks]
      /\ not_minimized' \in [Windows -> SUBSET Desks]
  BY <1>1 DEF BitsAfter, MinAfter, TableOK
<1>5. zorder' \in [Desks -> SUBSET Windows] /\ OrdersShrink
  BY <1>1 DEF ZorderAfter, TableOK, OrdersShrink
<1>6. SavedAreTracked'
  BY <1>1 DEF ZorderAfter, TrackedAfter, TableOK, SavedAreTracked
<1>7. KnownIffTracked'
  BY <1>1, <1>2 DEF BitsAfter, TrackedAfter, TableOK, KnownIffTracked
<1>. QED
  BY <1>3, <1>4, <1>5, <1>6, <1>7 DEF TableOK

\* A call that then sets the bits of the window to some non-empty set does too.
LEMMA GetAndSetKeepsTable ==
    ASSUME TableOK, NEW w \in Windows, NEW gone \in Reapable({w}), NEW d \in Desks,
           NEW b, NEW m, b \in SUBSET Desks, m \in SUBSET Desks, b # {},
           tracked' = TrackedAfter({w}, gone),
           desktop_bits' = [BitsAfter({w}, gone, d) EXCEPT ![w] = b],
           not_minimized' = [MinAfter({w}, gone, d) EXCEPT ![w] = m],
           zorder' = ZorderAfter(gone)
    PROVE  TableOK' /\ OrdersShrink
<1>1. gone \subseteq tracked /\ w \notin gone
  BY DEF Reapable
<1>2. tracked' \subseteq Windows
  BY DEF TrackedAfter, TableOK
<1>3. /\ desktop_bits' \in [Windows -> SUBSET Desks]
      /\ not_minimized' \in [Windows -> SUBSET Desks]
  BY DEF BitsAfter, MinAfter, TableOK
<1>4. zorder' \in [Desks -> SUBSET Windows] /\ OrdersShrink
  BY DEF ZorderAfter, TableOK, OrdersShrink
<1>5. SavedAreTracked'
  BY DEF ZorderAfter, TrackedAfter, TableOK, SavedAreTracked
<1>6. KnownIffTracked'
  BY <1>1 DEF BitsAfter, TrackedAfter, TableOK, KnownIffTracked
<1>. QED
  BY <1>2, <1>3, <1>4, <1>5, <1>6 DEF TableOK

LEMMA DeleteKeepsTable ==
    ASSUME TableOK, NEW w \in Windows, delete_PerWindow(w)
    PROVE  TableOK' /\ OrdersShrink
<1>1. /\ tracked' \subseteq Windows
      /\ desktop_bits' \in [Windows -> SUBSET Desks]
      /\ not_minimized' \in [Windows -> SUBSET Desks]
  BY DEF delete_PerWindow, TableOK
<1>2. zorder' \in [Desks -> SUBSET Windows] /\ OrdersShrink
  BY DEF delete_PerWindow, ZorderAfter, TableOK, OrdersShrink
<1>3. SavedAreTracked'
  BY DEF delete_PerWindow, ZorderAfter, TableOK, SavedAreTracked
<1>4. KnownIffTracked'
  BY DEF delete_PerWindow, TableOK, KnownIffTracked
<1>. QED
  BY <1>1, <1>2, <1>3, <1>4 DEF TableOK

LEMMA SameKeepsTable ==
    ASSUME TableOK, UNCHANGED table
    PROVE  TableOK' /\ OrdersShrink
  BY DEF table, TableOK, SavedAreTracked, KnownIffTracked, OrdersShrink

-----------------------------------------------------------------------------
(* The handlers. *)

\* What a message may do to the switch: nothing, or start one.
SwitchStartsOrStays ==
    UNCHANGED switch \/ \E d \in Desks : CanSwitch(d) /\ StartSwitch(d)

LEMMA SwitchCall ==
    ASSUME NEW d, core_switch_desktop(d)
    PROVE  SwitchStartsOrStays
  BY DEF core_switch_desktop, SwitchStartsOrStays, CanSwitch

LEMMA SetWorkspaceKeepsTable ==
    ASSUME TableOK, current_desktop \in Desks,
           NEW w \in Windows, NEW p \in Places, SetWorkspace(w, p)
    PROVE  TableOK' /\ OrdersShrink /\ SwitchStartsOrStays
<1>1. PICK gone \in Reapable({w}) :
        /\ tracked' = TrackedAfter({w}, gone)
        /\ desktop_bits' = [BitsAfter({w}, gone, current_desktop) EXCEPT ![w] = p]
        /\ not_minimized' = [MinAfter({w}, gone, current_desktop) EXCEPT ![w] = p]
        /\ zorder' = ZorderAfter(gone)
  BY DEF SetWorkspace
<1>2. p \in SUBSET Desks /\ p # {}
  BY PlacesAreDesks
<1>3. TableOK' /\ OrdersShrink
  BY <1>1, <1>2, GetAndSetKeepsTable
<1>4. SwitchStartsOrStays
  BY SwitchCall DEF SetWorkspace, SwitchStartsOrStays
<1>. QED
  BY <1>3, <1>4

LEMMA OnCreatedKeepsTable ==
    ASSUME TableOK, current_desktop \in Desks, NEW w \in Windows, OnCreated(w)
    PROVE  TableOK' /\ OrdersShrink /\ SwitchStartsOrStays
<1>1. CASE desktop_switching
  BY <1>1, SameKeepsTable DEF OnCreated, SwitchStartsOrStays
<1>2. CASE ~desktop_switching /\ MatchRule[w] # {}
  <2>1. MatchRule[w] \in Places
    BY <1>2, RuleAssumption
  <2>. QED
    BY <1>2, <2>1, SetWorkspaceKeepsTable DEF OnCreated
<1>3. CASE ~desktop_switching /\ MatchRule[w] = {}
  BY <1>3, GetKeepsTable DEF OnCreated, SwitchStartsOrStays
<1>. QED
  BY <1>1, <1>2, <1>3

LEMMA OnActivatedKeepsTable ==
    ASSUME TableOK, current_desktop \in Desks, NEW w \in Windows, OnActivated(w)
    PROVE  TableOK' /\ OrdersShrink /\ SwitchStartsOrStays
  BY GetKeepsTable, SameKeepsTable DEF OnActivated, SwitchStartsOrStays

LEMMA OnRedrawKeepsTable ==
    ASSUME TableOK, current_desktop \in Desks, NEW w \in Windows, OnRedraw(w)
    PROVE  TableOK' /\ OrdersShrink /\ SwitchStartsOrStays
<1>1. SwitchStartsOrStays
  BY DEF OnRedraw, SwitchStartsOrStays
<1>2. CASE ~RedrawCounts(w)
  BY <1>1, <1>2, SameKeepsTable DEF OnRedraw
<1>3. CASE RedrawCounts(w)
  <2> DEFINE bits(gone) == BitsAfter({w}, gone, current_desktop)
             mins(gone) == MinAfter({w}, gone, current_desktop)
  <2>1. PICK gone \in Reapable({w}) :
          /\ tracked' = TrackedAfter({w}, gone)
          /\ desktop_bits' =
               [bits(gone) EXCEPT ![w] = bits(gone)[w] \cup {current_desktop}]
          /\ not_minimized' =
               [mins(gone) EXCEPT ![w] = mins(gone)[w] \cup {current_desktop}]
          /\ zorder' = ZorderAfter(gone)
    BY <1>3 DEF OnRedraw
  <2>2. /\ bits(gone)[w] \cup {current_desktop} \in SUBSET Desks
        /\ mins(gone)[w] \cup {current_desktop} \in SUBSET Desks
    BY DEF BitsAfter, MinAfter, TableOK
  <2>3. TableOK' /\ OrdersShrink
    BY <2>1, <2>2, GetAndSetKeepsTable
  <2>. QED
    BY <1>1, <2>3
<1>. QED
  BY <1>2, <1>3

\* Every message leaves the table sound and at most starts a switch.
LEMMA HandleKeepsTable ==
    ASSUME TableOK, TypeOK, NEW m \in Messages, Handle(m)
    PROVE  /\ TableOK' /\ OrdersShrink /\ SwitchStartsOrStays
           /\ quit' \in BOOLEAN
<1>0. current_desktop \in Desks /\ quit \in BOOLEAN /\ alive \in SUBSET Windows
  BY DEF TypeOK
<1>1. CASE m.kind = "created" /\ OnCreated(m.win) /\ UNCHANGED quit
  BY <1>0, <1>1, MessageFields, OnCreatedKeepsTable
<1>2. CASE m.kind = "activated" /\ OnActivated(m.win) /\ UNCHANGED quit
  BY <1>0, <1>2, MessageFields, OnActivatedKeepsTable
<1>3. CASE m.kind = "redraw" /\ OnRedraw(m.win) /\ UNCHANGED quit
  BY <1>0, <1>3, MessageFields, OnRedrawKeepsTable
<1>4. CASE m.kind = "destroyed" /\ delete_PerWindow(m.win) /\ UNCHANGED <<switch, quit>>
  BY <1>0, <1>4, MessageFields, DeleteKeepsTable DEF SwitchStartsOrStays
<1>5. CASE m.kind = "workspace" /\ SetWorkspace(m.win, m.desks) /\ UNCHANGED quit
  BY <1>0, <1>5, MessageFields, SetWorkspaceKeepsTable
<1>6. CASE m.kind = "hotkey" /\ core_switch_desktop(m.desk) /\ UNCHANGED <<table, quit>>
  BY <1>0, <1>6, SwitchCall, SameKeepsTable
<1>7. CASE /\ m.kind = "scan"
           /\ get_PerWindow(alive, current_desktop)
           /\ UNCHANGED <<switch, quit>>
  BY <1>0, <1>7, GetKeepsTable DEF SwitchStartsOrStays
<1>8. CASE m.kind = "timer" /\ UNCHANGED <<switch, table, quit>>
  BY <1>0, <1>8, SameKeepsTable DEF SwitchStartsOrStays
<1>9. CASE m.kind = "quit" /\ quit' = TRUE /\ UNCHANGED <<switch, table>>
  BY <1>9, SameKeepsTable DEF SwitchStartsOrStays
<1>. QED
  BY <1>1, <1>2, <1>3, <1>4, <1>5, <1>6, <1>7, <1>8, <1>9 DEF Handle

\* Starting or not starting a switch keeps the rest of IInv.
LEMMA SwitchPart ==
    ASSUME IInv, phase \in {"idle", "pump"}, OrdersShrink, SwitchStartsOrStays
    PROVE  /\ current_desktop' \in Desks
           /\ target' \in Desks
           /\ phase' \in {"idle", "save", "minimize", "restore", "pump"}
           /\ (NoStaleOrder /\ TargetCleared /\ TargetIsOther)'
<1>1. CASE UNCHANGED switch
  BY <1>1 DEF switch, IInv, TypeOK, OrdersShrink, NoStaleOrder, TargetCleared,
              TargetIsOther, desktop_switching
<1>2. CASE \E d \in Desks : CanSwitch(d) /\ StartSwitch(d)
  BY <1>2 DEF StartSwitch, CanSwitch, IInv, TypeOK, NoStaleOrder, TargetCleared,
              TargetIsOther, desktop_switching
<1>. QED
  BY <1>1, <1>2 DEF SwitchStartsOrStays

-----------------------------------------------------------------------------
(* Init, and one lemma per kind of step. *)

LEMMA InitIInv == Init => IInv
<1>. SUFFICES ASSUME Init PROVE IInv
  OBVIOUS
<1>1. 1 \in Desks
  BY PlacesAreDesks
<1>2. TypeOK
  <2>1. queue \in Seq(Messages)
    BY DEF Init
  <2>. QED
    BY <1>1, <2>1 DEF Init, TypeOK
<1>3. SavedAreTracked /\ NoStaleOrder /\ TargetCleared /\ TargetIsOther
  BY <1>1 DEF Init, SavedAreTracked, NoStaleOrder, TargetCleared, TargetIsOther,
              desktop_switching
<1>4. KnownIffTracked
  BY <1>1 DEF Init, KnownIffTracked
<1>. QED
  BY <1>2, <1>3, <1>4 DEF IInv

LEMMA SavePassIInv ==
    ASSUME IInv, SavePass
    PROVE  IInv'
<1> DEFINE bits(gone) == BitsAfter(alive, gone, current_desktop)
           mins(gone) == MinAfter(alive, gone, current_desktop)
           here(gone) == {w \in alive : current_desktop \in bits(gone)[w]}
<1>1. PICK gone \in Reapable(alive) :
        /\ tracked' = TrackedAfter(alive, gone)
        /\ desktop_bits' = bits(gone)
        /\ not_minimized' =
             [w \in Windows |->
                IF w \notin here(gone) THEN mins(gone)[w]
                ELSE IF w \in iconic THEN mins(gone)[w] \ {current_desktop}
                ELSE mins(gone)[w] \cup {current_desktop}]
        /\ zorder' = Remembering(ZorderAfter(gone), here(gone))
  BY DEF SavePass
<1>2. gone \subseteq tracked /\ gone \cap alive = {}
  BY DEF Reapable
<1>3. /\ alive \subseteq Windows /\ current_desktop \in Desks /\ tracked \subseteq Windows
      /\ desktop_bits \in [Windows -> SUBSET Desks]
      /\ not_minimized \in [Windows -> SUBSET Desks]
      /\ zorder \in [Desks -> SUBSET Windows]
  BY DEF IInv, TypeOK
<1>4. tracked' \subseteq Windows /\ here(gone) \subseteq tracked' /\ here(gone) \subseteq Windows
  BY <1>1, <1>3 DEF TrackedAfter
<1>5. desktop_bits' \in [Windows -> SUBSET Desks]
  BY <1>1, <1>3 DEF BitsAfter
<1>6. mins(gone) \in [Windows -> SUBSET Desks]
  BY <1>3 DEF MinAfter
<1>7. not_minimized' \in [Windows -> SUBSET Desks]
  <2> HIDE DEF mins, here
  <2>. QED
    BY <1>1, <1>3, <1>6
<1>8. zorder' \in [Desks -> SUBSET Windows]
  BY <1>1, <1>3, <1>4 DEF Remembering, ZorderAfter
<1>9. SavedAreTracked'
  <2>1. SavedAreTracked
    BY DEF IInv
  <2> HIDE DEF here
  <2>. QED
    BY <1>1, <1>3, <1>4, <2>1 DEF Remembering, ZorderAfter, TrackedAfter, SavedAreTracked
<1>10. KnownIffTracked'
  <2>1. KnownIffTracked
    BY DEF IInv
  <2>. QED
    BY <1>1, <1>2, <1>3, <2>1 DEF BitsAfter, TrackedAfter, KnownIffTracked
<1>11. /\ phase = "save" /\ phase' = "minimize"
       /\ UNCHANGED <<current_desktop, target, pumped, quit, running, queue,
                      alive, iconic, pending, stashed, quiet>>
  BY DEF SavePass, world
<1>12. TypeOK'
  BY <1>4, <1>5, <1>7, <1>8, <1>11 DEF IInv, TypeOK
<1>13. (NoStaleOrder /\ TargetCleared /\ TargetIsOther)'
  BY <1>11 DEF IInv, NoStaleOrder, TargetCleared, TargetIsOther, desktop_switching
<1>. QED
  BY <1>9, <1>10, <1>12, <1>13 DEF IInv

LEMMA MinimizePassIInv ==
    ASSUME IInv, MinimizePass
    PROVE  IInv'
<1>1. /\ TableOK /\ alive \in SUBSET Windows /\ current_desktop \in Desks
      /\ get_PerWindow(alive, current_desktop)
  BY IInvTable DEF IInv, TypeOK, MinimizePass
<1>2. TableOK'
  BY <1>1, GetKeepsTable
<1>3. pending' \subseteq alive
  BY DEF MinimizePass, IInv, TypeOK
<1>4. /\ phase = "minimize" /\ phase' = "restore"
      /\ UNCHANGED <<current_desktop, target, pumped, quit, running, queue,
                     alive, iconic, stashed, quiet>>
  BY DEF MinimizePass
<1>5. TypeOK'
  BY <1>2, <1>3, <1>4 DEF IInv, TypeOK, TableOK
<1>6. (NoStaleOrder /\ TargetCleared /\ TargetIsOther)'
  BY <1>4 DEF IInv, NoStaleOrder, TargetCleared, TargetIsOther, desktop_switching
<1>. QED
  BY <1>2, <1>5, <1>6 DEF IInv, TableOK

LEMMA RestorePassIInv ==
    ASSUME IInv, RestorePass
    PROVE  IInv'
<1>1. PICK gone \in Reapable({}) :
        /\ tracked' = TrackedAfter({}, gone)
        /\ desktop_bits' = BitsAfter({}, gone, target)
        /\ not_minimized' = MinAfter({}, gone, target)
        /\ zorder' = Forgetting(ZorderAfter(gone))
  BY DEF RestorePass
<1>2. TableOK /\ target \in Desks
  BY IInvTable DEF IInv, TypeOK
<1>3. /\ tracked' \subseteq Windows
      /\ desktop_bits' \in [Windows -> SUBSET Desks]
      /\ not_minimized' \in [Windows -> SUBSET Desks]
  BY <1>1, <1>2 DEF TrackedAfter, BitsAfter, MinAfter, TableOK
<1>4. zorder' \in [Desks -> SUBSET Windows] /\ zorder'[target] = {}
  BY <1>1, <1>2 DEF Forgetting, ZorderAfter, TableOK
<1>5. SavedAreTracked'
  BY <1>1, <1>2 DEF Forgetting, ZorderAfter, TrackedAfter, TableOK, SavedAreTracked
<1>6. KnownIffTracked'
  <2>1. gone \subseteq tracked
    BY DEF Reapable
  <2>. QED
    BY <1>1, <1>2, <2>1 DEF BitsAfter, TrackedAfter, TableOK, KnownIffTracked
<1>7. /\ iconic' \subseteq alive /\ stashed' \subseteq iconic' /\ pending' \subseteq alive
      /\ phase = "restore" /\ phase' = "pump"
      /\ UNCHANGED <<current_desktop, target, pumped, quit, running, queue, alive, quiet>>
  BY DEF RestorePass, IInv, TypeOK
<1>8. TypeOK'
  BY <1>3, <1>4, <1>7 DEF IInv, TypeOK
<1>9. (NoStaleOrder /\ TargetCleared /\ TargetIsOther)'
  BY <1>4, <1>7 DEF IInv, NoStaleOrder, TargetCleared, TargetIsOther, desktop_switching
<1>. QED
  BY <1>5, <1>6, <1>8, <1>9 DEF IInv

LEMMA PumpEndIInv ==
    ASSUME IInv, PumpDry \/ PumpTakesQuit
    PROVE  IInv'
<1>1. UNCHANGED switch \/ FinishSwitch
  BY DEF PumpDry, PumpTakesQuit
<1>2. /\ phase = "pump" /\ quit' \in BOOLEAN
      /\ UNCHANGED <<pumped, running, queue, tracked, desktop_bits, not_minimized, zorder,
                     alive, iconic, pending, stashed, quiet>>
  BY DEF PumpDry, PumpTakesQuit, IInv, TypeOK, table, world
<1>3. TypeOK'
  BY <1>1, <1>2 DEF FinishSwitch, switch, IInv, TypeOK
<1>4. SavedAreTracked' /\ KnownIffTracked'
  BY <1>2 DEF IInv, SavedAreTracked, KnownIffTracked
<1>5. (NoStaleOrder /\ TargetCleared /\ TargetIsOther)'
  BY <1>1, <1>2 DEF FinishSwitch, switch, IInv, NoStaleOrder, TargetCleared, TargetIsOther,
                    desktop_switching
<1>. QED
  BY <1>3, <1>4, <1>5 DEF IInv

LEMMA DispatchIInv ==
    ASSUME IInv, Dispatch
    PROVE  IInv'
<1>1. /\ TypeOK /\ TableOK /\ queue # <<>> /\ phase \in {"idle", "pump"}
      /\ Handle(Head(queue))
      /\ queue' = Tail(queue) /\ pumped' = desktop_switching
      /\ UNCHANGED <<running, alive, iconic, pending, stashed, quiet>>
  BY IInvTable DEF IInv, Dispatch, world
<1>2. Head(queue) \in Messages /\ queue' \in Seq(Messages)
  BY <1>1, HeadTail
<1>3. TableOK' /\ OrdersShrink /\ SwitchStartsOrStays /\ quit' \in BOOLEAN
  BY <1>1, <1>2, HandleKeepsTable
<1>4. /\ current_desktop' \in Desks
      /\ target' \in Desks
      /\ phase' \in {"idle", "save", "minimize", "restore", "pump"}
      /\ (NoStaleOrder /\ TargetCleared /\ TargetIsOther)'
  BY <1>1, <1>3, SwitchPart
<1>5. pumped' \in BOOLEAN
  BY <1>1 DEF desktop_switching
<1>6. TypeOK'
  BY <1>1, <1>2, <1>3, <1>4, <1>5 DEF TypeOK, TableOK
<1>. QED
  BY <1>3, <1>4, <1>6 DEF IInv, TableOK

LEMMA MainTakesQuitIInv ==
    ASSUME IInv, MainTakesQuit
    PROVE  IInv'
  BY DEF MainTakesQuit, switch, table, world, IInv, TypeOK, SavedAreTracked, NoStaleOrder,
         TargetCleared, TargetIsOther, KnownIffTracked, desktop_switching

\* The world touches nothing of the shell's but the queue.
LEMMA ShellUntouched ==
    ASSUME IInv, UNCHANGED shell, queue' \in Seq(Messages), quiet' \in BOOLEAN,
           alive' \subseteq Windows, iconic' \subseteq alive', pending' \subseteq alive',
           stashed' \subseteq iconic'
    PROVE  IInv'
<1>1. TypeOK'
  BY DEF IInv, TypeOK, shell
<1>2. (SavedAreTracked /\ NoStaleOrder /\ TargetCleared /\ TargetIsOther /\ KnownIffTracked)'
  BY DEF IInv, shell, SavedAreTracked, NoStaleOrder, TargetCleared, TargetIsOther,
         KnownIffTracked, desktop_switching
<1>. QED
  BY <1>1, <1>2 DEF IInv

LEMMA WindowStepIInv ==
    ASSUME IInv, NEW w \in Windows,
           \/ WindowCreated(w) \/ WindowDestroyed(w) \/ WindowNoticed(w)
           \/ WindowToggled(w) \/ MinimizeServed(w)
    PROVE  IInv'
<1>0. TypeOK
  BY DEF IInv
<1>1. CASE WindowCreated(w)
  <2>1. [kind |-> "created", win |-> w] \in Messages
    BY DEF Messages
  <2>2. queue' \in Seq(Messages)
    BY <1>0, <1>1, <2>1, PostKeepsType DEF WindowCreated
  <2>. QED
    BY <1>0, <1>1, <2>2, ShellUntouched DEF WindowCreated, TypeOK
<1>2. CASE WindowDestroyed(w)
  <2>1. [kind |-> "destroyed", win |-> w] \in Messages
    BY DEF Messages
  <2>2. queue' \in Seq(Messages)
    BY <1>0, <1>2, <2>1, PostKeepsType DEF WindowDestroyed
  <2>. QED
    BY <1>0, <1>2, <2>2, ShellUntouched DEF WindowDestroyed, TypeOK
<1>3. CASE WindowNoticed(w)
  <2>1. \A k \in {"activated", "redraw"} : [kind |-> k, win |-> w] \in Messages
    BY DEF Messages
  <2>2. queue' \in Seq(Messages)
    BY <1>0, <1>3, <2>1, PostKeepsType DEF WindowNoticed
  <2>. QED
    BY <1>0, <1>3, <2>2, ShellUntouched DEF WindowNoticed, TypeOK, world
<1>4. CASE WindowToggled(w)
  BY <1>0, <1>4, ShellUntouched DEF WindowToggled, TypeOK
<1>5. CASE MinimizeServed(w)
  BY <1>0, <1>5, ShellUntouched DEF MinimizeServed, TypeOK
<1>. QED
  BY <1>1, <1>2, <1>3, <1>4, <1>5

LEMMA OtherWorldStepIInv ==
    ASSUME IInv,
           \/ UserSwitches \/ UserPlaces \/ UserQuits
           \/ PluginScans \/ PluginTimer \/ Settle
    PROVE  IInv'
<1>0. TypeOK
  BY DEF IInv
<1>1. UNCHANGED <<shell, alive, iconic, pending, stashed>> /\ quiet' \in BOOLEAN
  BY <1>0 DEF UserSwitches, UserPlaces, UserQuits, PluginScans, PluginTimer, Settle,
              world, TypeOK
<1>2. /\ \A d \in Requests : [kind |-> "hotkey", desk |-> d] \in Messages
      /\ \A w \in Windows, p \in Places :
            [kind |-> "workspace", win |-> w, desks |-> p] \in Messages
      /\ \A k \in {"timer", "scan", "quit"} : [kind |-> k] \in Messages
  BY DEF Messages
<1>3. queue' \in Seq(Messages)
  <2>1. CASE UserSwitches
    BY <1>0, <1>2, <2>1, PostKeepsType DEF UserSwitches
  <2>2. CASE UserPlaces
    BY <1>0, <1>2, <2>2, PostKeepsType DEF UserPlaces
  <2>3. CASE UserQuits
    BY <1>0, <1>2, <2>3, PostKeepsType DEF UserQuits
  <2>4. CASE PluginScans
    BY <1>0, <1>2, <2>4, PostKeepsType DEF PluginScans
  <2>5. CASE PluginTimer
    BY <1>2, <2>5 DEF PluginTimer
  <2>6. CASE Settle
    BY <1>0, <2>6 DEF Settle, TypeOK
  <2>. QED
    BY <2>1, <2>2, <2>3, <2>4, <2>5, <2>6
<1>. QED
  BY <1>0, <1>1, <1>3, ShellUntouched DEF TypeOK

LEMMA StepIInv == IInv /\ [Next]_vars => IInv'
<1>. SUFFICES ASSUME IInv, [Next]_vars PROVE IInv'
  OBVIOUS
<1>1. CASE ShellStep
  BY <1>1, SavePassIInv, MinimizePassIInv, RestorePassIInv, PumpEndIInv, DispatchIInv,
     MainTakesQuitIInv DEF ShellStep
<1>2. CASE WorldStep
  BY <1>2, WindowStepIInv, OtherWorldStepIInv DEF WorldStep
<1>3. CASE UNCHANGED vars
  BY <1>3, ShellUntouched DEF vars, world, IInv, TypeOK
<1>. QED
  BY <1>1, <1>2, <1>3 DEF Next

\* IInv holds in every reachable state.
THEOREM Invariance == Spec => []IInv
  BY InitIInv, StepIInv, PTL DEF Spec

\* Every variable keeps its type.
THEOREM TypeCorrect == Spec => []TypeOK
<1>1. IInv => TypeOK
  BY DEF IInv
<1>. QED
  BY <1>1, Invariance, PTL

\* Pass 3 never meets a window without an entry, so it never records one as
\* living on the workspace being switched to only.
THEOREM SavedTracked == Spec => []SavedAreTracked
<1>1. IInv => SavedAreTracked
  BY DEF IInv
<1>. QED
  BY <1>1, Invariance, PTL

\* No z-order of an earlier visit is left when a switch has ended.
THEOREM NoReplay == Spec => []NoStaleOrder
<1>1. IInv => NoStaleOrder
  BY DEF IInv
<1>. QED
  BY <1>1, Invariance, PTL

\* Every entry of the table is on some workspace.
THEOREM NobodyNowhere == Spec => []EveryWindowSomewhere
<1>1. IInv => EveryWindowSomewhere
  BY DEF IInv, TypeOK, KnownIffTracked, EveryWindowSomewhere
<1>. QED
  BY <1>1, Invariance, PTL

\* All of it: what the passes of core_switch_desktop rely on.
THEOREM TableIsSound == Spec => []TableSound
<1>1. TypeOK /\ SavedAreTracked /\ NoStaleOrder /\ EveryWindowSomewhere => TableSound
  BY DEF TableSound
<1>. QED
  BY <1>1, TypeCorrect, SavedTracked, NoReplay, NobodyNowhere, PTL

-----------------------------------------------------------------------------
(* Workspaces implements WorkspaceView. *)

LEMMA ViewDesks == View!Desks = Desks /\ View!Places = Places
  BY DEF View!Desks, View!Places, Desks, Places

\* What get_PerWindow does to the bits is housekeeping, for anyone that calls
\* it with the current workspace.
LEMMA GetIsHousekeeping ==
    ASSUME TableOK, NEW ws \in SUBSET Windows, NEW gone \in Reapable(ws), NEW v \in Windows
    PROVE  LET b == BitsAfter(ws, gone, current_desktop)[v]
           IN  b = desktop_bits[v] \/ b = {}
                \/ (desktop_bits[v] = {} /\ b = {current_desktop})
  BY DEF BitsAfter, TableOK, KnownIffTracked

LEMMA GetHousekeeping ==
    ASSUME TableOK, NEW ws \in SUBSET Windows, get_PerWindow(ws, current_desktop)
    PROVE  View!Housekeeping
<1>1. PICK gone \in Reapable(ws) :
        desktop_bits' = BitsAfter(ws, gone, current_desktop)
  BY DEF get_PerWindow
<1>. QED
  BY <1>1, GetIsHousekeeping
     DEF View!Housekeeping, View!Kept, View!Forgotten, View!Met

\* A call that then sets the bits of its window leaves the others to that.
LEMMA GetAndSetOthers ==
    ASSUME TableOK, NEW w \in Windows, NEW gone \in Reapable({w}), NEW b,
           desktop_bits' = [BitsAfter({w}, gone, current_desktop) EXCEPT ![w] = b]
    PROVE  View!Others(w) /\ desktop_bits'[w] = b
<1>1. desktop_bits'[w] = b
  BY DEF BitsAfter
<1>2. \A v \in Windows \ {w} :
        desktop_bits'[v] = BitsAfter({w}, gone, current_desktop)[v]
  BY DEF BitsAfter
<1>3. ASSUME NEW v \in Windows \ {w}
      PROVE  View!Kept(v) \/ View!Forgotten(v) \/ View!Met(v)
  <2>. DEFINE x == BitsAfter({w}, gone, current_desktop)[v]
  <2>1. desktop_bits'[v] = x
    BY <1>2
  <2>2. \/ x = desktop_bits[v]
        \/ x = {}
        \/ desktop_bits[v] = {} /\ x = {current_desktop}
    BY {w} \in SUBSET Windows, GetIsHousekeeping
  <2>. QED
    BY <2>1, <2>2 DEF View!Kept, View!Forgotten, View!Met
<1>. QED
  BY <1>1, <1>3 DEF View!Others

LEMMA SetWorkspacePlaces ==
    ASSUME TableOK, NEW w \in Windows, NEW p \in Places, SetWorkspace(w, p)
    PROVE  View!Placed(w)
<1>1. PICK gone \in Reapable({w}) :
        desktop_bits' = [BitsAfter({w}, gone, current_desktop) EXCEPT ![w] = p]
  BY DEF SetWorkspace
<1>2. View!Others(w) /\ desktop_bits'[w] = p
  BY <1>1, GetAndSetOthers
<1>3. p \in View!Places
  BY ViewDesks
<1>. QED
  BY <1>2, <1>3 DEF View!Placed

LEMMA SameIsHousekeeping ==
    ASSUME UNCHANGED desktop_bits
    PROVE  View!Housekeeping
  BY DEF View!Housekeeping, View!Kept

LEMMA DeleteIsHousekeeping ==
    ASSUME TableOK, NEW w \in Windows, delete_PerWindow(w)
    PROVE  View!Housekeeping
  BY DEF delete_PerWindow, TableOK, View!Housekeeping, View!Kept, View!Forgotten

\* A redraw that counts happens between switches, and joins its window to the
\* workspace shown.
LEMMA RedrawJoins ==
    ASSUME TableOK, NEW w \in Windows, OnRedraw(w)
    PROVE  View!Housekeeping \/ (View!Placed(w) \/ View!Joined(w))
<1>1. CASE ~RedrawCounts(w)
  BY <1>1, SameIsHousekeeping DEF OnRedraw, table
<1>2. CASE RedrawCounts(w)
  <2> DEFINE bits(gone) == BitsAfter({w}, gone, current_desktop)
  <2>1. PICK gone \in Reapable({w}) :
          desktop_bits' = [bits(gone) EXCEPT ![w] = bits(gone)[w] \cup {current_desktop}]
    BY <1>2 DEF OnRedraw
  <2>2. View!Others(w) /\ desktop_bits'[w] = bits(gone)[w] \cup {current_desktop}
    BY <2>1, GetAndSetOthers
  <2>3. bits(gone)[w] \cup {current_desktop} = desktop_bits[w] \cup {current_desktop}
    BY DEF BitsAfter, Reapable, TableOK, KnownIffTracked
  <2>4. Going = 0
    BY <1>2 DEF RedrawCounts, Going
  <2>. QED
    BY <2>2, <2>3, <2>4 DEF View!Joined
<1>. QED
  BY <1>1, <1>2

\* What one message does to the bits: housekeeping or a placement; a join
\* only when it does not start a switch.
LEMMA HandleView ==
    ASSUME TableOK, TypeOK, NEW m \in Messages, Handle(m)
    PROVE  \/ View!Housekeeping
           \/ \E w \in Windows : View!Placed(w)
           \/ UNCHANGED switch /\ \E w \in Windows : View!Joined(w)
<1>0. current_desktop \in Desks /\ alive \in SUBSET Windows
  BY DEF TypeOK
<1>1. CASE m.kind = "created" /\ OnCreated(m.win)
  <2>1. CASE desktop_switching
    BY <1>1, <2>1, SameIsHousekeeping DEF OnCreated, table
  <2>2. CASE ~desktop_switching /\ MatchRule[m.win] # {}
    <3>1. m.win \in Windows /\ MatchRule[m.win] \in Places
      BY <1>1, <2>2, MessageFields, RuleAssumption
    <3>. QED
      BY <1>1, <2>2, <3>1, SetWorkspacePlaces DEF OnCreated
  <2>3. CASE ~desktop_switching /\ MatchRule[m.win] = {}
    BY <1>1, <2>3, MessageFields, GetHousekeeping DEF OnCreated
  <2>. QED
    BY <2>1, <2>2, <2>3
<1>2. CASE m.kind = "activated" /\ OnActivated(m.win)
  BY <1>2, MessageFields, GetHousekeeping, SameIsHousekeeping DEF OnActivated, table
<1>3. CASE m.kind = "redraw" /\ OnRedraw(m.win)
  <2>1. m.win \in Windows /\ UNCHANGED switch
    BY <1>3, MessageFields DEF OnRedraw
  <2>. QED
    BY <1>3, <2>1, RedrawJoins
<1>4. CASE m.kind = "destroyed" /\ delete_PerWindow(m.win)
  BY <1>4, MessageFields, DeleteIsHousekeeping
<1>5. CASE m.kind = "workspace" /\ SetWorkspace(m.win, m.desks)
  BY <1>5, MessageFields, SetWorkspacePlaces
<1>6. CASE m.kind = "scan" /\ get_PerWindow(alive, current_desktop)
  BY <1>0, <1>6, GetHousekeeping
<1>7. CASE UNCHANGED table
  BY <1>7, SameIsHousekeeping DEF table
<1>. QED
  BY <1>1, <1>2, <1>3, <1>4, <1>5, <1>6, <1>7 DEF Handle

LEMMA DispatchView ==
    ASSUME IInv, Dispatch
    PROVE  View!Next
<1>1. /\ TypeOK /\ TableOK /\ phase \in {"idle", "pump"}
      /\ Head(queue) \in Messages /\ Handle(Head(queue))
  BY IInvTable, HeadTail DEF IInv, Dispatch
<1>2. SwitchStartsOrStays /\ desktop_bits' \in [Windows -> SUBSET View!Desks]
  BY <1>1, HandleKeepsTable, ViewDesks DEF TableOK
<1>3. \/ View!Housekeeping
      \/ \E w \in Windows : View!Placed(w)
      \/ UNCHANGED switch /\ \E w \in Windows : View!Joined(w)
  BY <1>1, HandleView
<1>4. CASE UNCHANGED switch
  <2>1. UNCHANGED <<current_desktop, Going>>
    BY <1>4 DEF switch, Going, desktop_switching
  <2>. QED
    BY <1>2, <1>3, <2>1 DEF View!Next, View!Live, View!Members
<1>5. ASSUME NEW d \in Desks, CanSwitch(d), StartSwitch(d)
      PROVE  View!Next
  <2>1. Going = 0 /\ Going' = d /\ d # current_desktop /\ UNCHANGED current_desktop
    BY <1>5 DEF CanSwitch, StartSwitch, Going, desktop_switching
  <2>2. CASE UNCHANGED switch
    BY <1>2, <1>3, <2>1, <2>2, <1>4
  <2>3. CASE View!Housekeeping \/ \E w \in Windows : View!Placed(w)
    <3>1. View!Leave(d)
      BY <1>2, <2>1, <2>3 DEF View!Leave
    <3>. QED
      BY <3>1, ViewDesks DEF View!Next
  <2>. QED
    BY <1>3, <2>2, <2>3
<1>. QED
  BY <1>2, <1>4, <1>5 DEF SwitchStartsOrStays

\* The passes only keep house: what they save and restore is not membership.
LEMMA PassView ==
    ASSUME IInv, SavePass \/ MinimizePass \/ RestorePass
    PROVE  View!Next
<1>1. IInv'
  BY SavePassIInv, MinimizePassIInv, RestorePassIInv
<1>2. desktop_bits' \in [Windows -> SUBSET View!Desks]
  BY <1>1, ViewDesks DEF IInv, TypeOK
<1>3. UNCHANGED <<current_desktop, Going>>
  BY DEF SavePass, MinimizePass, RestorePass, Going, desktop_switching
<1>4. TableOK /\ alive \in SUBSET Windows
  BY IInvTable DEF IInv, TypeOK
<1>5. View!Housekeeping
  <2>1. CASE SavePass
    <3>1. PICK gone \in Reapable(alive) :
            desktop_bits' = BitsAfter(alive, gone, current_desktop)
      BY <2>1 DEF SavePass
    <3>. QED
      BY <1>4, <3>1, GetIsHousekeeping
         DEF View!Housekeeping, View!Kept, View!Forgotten, View!Met
  <2>2. CASE MinimizePass
    BY <1>4, <2>2, GetHousekeeping DEF MinimizePass
  <2>3. CASE RestorePass
    BY <1>4, <2>3 DEF RestorePass, BitsAfter, View!Housekeeping, View!Kept, View!Forgotten
  <2>. QED
    BY <2>1, <2>2, <2>3
<1>. QED
  BY <1>2, <1>3, <1>5 DEF View!Next, View!Live, View!Members

LEMMA PumpEndView ==
    ASSUME IInv, PumpDry \/ PumpTakesQuit
    PROVE  View!Next \/ UNCHANGED View!vars
<1>1. UNCHANGED desktop_bits /\ phase = "pump" /\ target \in Desks
  BY DEF PumpDry, PumpTakesQuit, table, IInv, TypeOK
<1>2. CASE UNCHANGED switch
  BY <1>1, <1>2 DEF switch, View!vars, Going, desktop_switching
<1>3. CASE FinishSwitch
  <2>1. Going = target /\ Going' = 0 /\ current_desktop' = target /\ target # 0
    BY <1>1, <1>3 DEF FinishSwitch, Going, desktop_switching, Desks
  <2>. QED
    BY <1>1, <2>1 DEF View!Next, View!Arrive
<1>. QED
  BY <1>2, <1>3 DEF PumpDry, PumpTakesQuit

LEMMA OutsideView ==
    ASSUME \/ MainTakesQuit \/ WorldStep \/ UNCHANGED vars
    PROVE  UNCHANGED View!vars
<1>1. UNCHANGED <<current_desktop, phase, target, desktop_bits>>
  BY DEF MainTakesQuit, WorldStep, WindowCreated, WindowDestroyed, WindowNoticed,
         WindowToggled, MinimizeServed, UserSwitches, UserPlaces, UserQuits, PluginScans,
         PluginTimer, Settle, shell, switch, table, vars
<1>. QED
  BY <1>1 DEF View!vars, Going, desktop_switching

\* The switch of the code, phases, nested pump and all, is the two-step switch
\* of WorkspaceView, and membership changes only as that module allows.
THEOREM Implementation == Spec => ImplementsView
<1>1. Init => View!Init
  BY DEF Init, View!Init, Going, desktop_switching
<1>2. IInv /\ [Next]_vars => [View!Next]_View!vars
  BY DispatchView, PassView, PumpEndView, OutsideView DEF Next, ShellStep
<1>. QED
  BY <1>1, <1>2, Invariance, PTL DEF Spec, ImplementsView, View!Spec

-----------------------------------------------------------------------------
(***************************************************************************)
(* The calm world of run Calm: windows obey in time, and nothing is        *)
(* refused, moved, restored behind the shell's back or born in the middle  *)
(* of a switch.  No rule sends a window to all workspaces either: such a   *)
(* window, minimised by the user on one of them, is minimised by a return  *)
(* there, and then stays so on a workspace that has no z-order yet.        *)
(***************************************************************************)
Calm == /\ Slow = {} /\ Unruly \subseteq {"scan", "quit"}
        /\ \A w \in Windows : \A d, e \in MatchRule[w] : d = e

\* Nobody places windows, dead ones are named as such, and a window that the
\* shell minimised is not announced as new.
Deliverable(m) == /\ m.kind # "workspace"
                  /\ m.kind = "destroyed" => m.win \notin alive
                  /\ m.kind = "created" /\ phase = "idle" => m.win \notin stashed
Mail == \A i \in 1..Len(queue) : Deliverable(queue[i])

\* Windows are sent away by a switch and have obeyed when it ends.
Prompt == /\ phase \notin {"restore", "pump"} => pending = {}
          /\ pending \cap iconic = {} /\ stashed \cup pending \subseteq tracked
          /\ phase \in {"minimize", "restore", "pump"} => alive \subseteq tracked

Singles == \A w \in tracked \cap alive : \A d, e \in desktop_bits[w] : d = e

\* A window that is open and not about to be minimised.
OpenThen(w) ==
    LET away == target \in desktop_bits[w] \cap not_minimized[w]
        home == current_desktop \in desktop_bits[w]
    IN  /\ phase = "idle" => home
        /\ phase = "save" => home \/ away
        /\ phase = "minimize" => (home /\ w \in zorder[current_desktop]) \/ away
        /\ phase = "restore" => away
        /\ phase = "pump" => target \in desktop_bits[w]
Opened == \A w \in (tracked \cap alive) \ (iconic \cup pending) : OpenThen(w)

\* One that the shell minimised or is about to: every workspace but the one that
\* is shown, or will be next, remembers it, and there it is not to be open.
HiddenThen(w) ==
    LET Remembered(next) == \A d \in desktop_bits[w] :
            IF d = next THEN d \notin not_minimized[w] ELSE w \in zorder[d]
    IN  /\ phase \in {"idle", "save"} => Remembered(current_desktop)
        /\ phase \in {"minimize", "restore"} => \A d \in desktop_bits[w] : w \in zorder[d]
        /\ phase = "pump" => Remembered(target)
        /\ phase = "restore" /\ w \in pending =>
              target \notin desktop_bits[w] \cap not_minimized[w]
Hidden == \A w \in stashed \cup pending : HiddenThen(w)

CInv == IInv /\ Mail /\ Prompt /\ Singles /\ Opened /\ Hidden

-----------------------------------------------------------------------------
(* What calls of the table do to a living window.                          *)

KeepsLive(w) ==
    /\ desktop_bits'[w] = desktop_bits[w] /\ not_minimized'[w] = not_minimized[w]
    /\ w \in tracked' <=> w \in tracked
    /\ \A d \in Desks : w \in zorder'[d] <=> w \in zorder[d]
EntersLive(w, d) == w \notin tracked /\ w \in tracked' /\ desktop_bits'[w] = {d}

ReapsOnlyDead(w, ws, gone, d) ==
    /\ w \in TrackedAfter(ws, gone) <=> w \in tracked \cup ws
    /\ w \in ws \ tracked => BitsAfter(ws, gone, d)[w] = {d}
    /\ w \notin ws \ tracked => /\ BitsAfter(ws, gone, d)[w] = desktop_bits[w]
                               /\ MinAfter(ws, gone, d)[w] = not_minimized[w]
    /\ \A e \in Desks : w \in ZorderAfter(gone)[e] <=> w \in zorder[e]

LEMMA ReapsDead ==
    ASSUME IInv, NEW ws \in SUBSET Windows, NEW gone \in Reapable(ws), NEW d, NEW w \in alive
    PROVE  ReapsOnlyDead(w, ws, gone, d)
<1>1. w \notin gone /\ w \in Windows
  BY DEF Reapable, IInv, TypeOK
<1> QED BY <1>1 DEF ReapsOnlyDead, TrackedAfter, BitsAfter, MinAfter, ZorderAfter

LEMMA GetLive ==
    ASSUME IInv, NEW ws \in SUBSET Windows, NEW d \in Desks, get_PerWindow(ws, d)
    PROVE  \A w \in alive : IF w \in ws \ tracked THEN EntersLive(w, d) ELSE KeepsLive(w)
<1> SUFFICES ASSUME NEW w \in alive
             PROVE  IF w \in ws \ tracked THEN EntersLive(w, d) ELSE KeepsLive(w)
  OBVIOUS
<1>1. PICK gone \in Reapable(ws) :
        /\ tracked' = TrackedAfter(ws, gone)
        /\ desktop_bits' = BitsAfter(ws, gone, d)
        /\ not_minimized' = MinAfter(ws, gone, d)
        /\ zorder' = ZorderAfter(gone)
  BY DEF get_PerWindow
<1>2. CASE w \in ws \ tracked
  <2>1. desktop_bits'[w] = {d} /\ w \in tracked'
    BY <1>1, <1>2, ReapsDead DEF ReapsOnlyDead
  <2> QED BY <1>2, <2>1 DEF EntersLive
<1>3. CASE w \notin ws \ tracked
  <2>1. /\ desktop_bits'[w] = desktop_bits[w] /\ not_minimized'[w] = not_minimized[w]
        /\ \A e \in Desks : w \in zorder'[e] <=> w \in zorder[e]
        /\ w \in tracked' <=> w \in tracked
    BY <1>1, <1>3, ReapsDead DEF ReapsOnlyDead
  <2> QED BY <1>3, <2>1 DEF KeepsLive
<1> QED BY <1>2, <1>3

LEMMA DeleteLive ==
    ASSUME IInv, NEW v \in Windows, v \notin alive, delete_PerWindow(v)
    PROVE  \A w \in alive : KeepsLive(w)
BY DEF delete_PerWindow, ZorderAfter, KeepsLive, IInv, TypeOK

LEMMA SameLive ==
    ASSUME UNCHANGED table
    PROVE  \A w \in alive : KeepsLive(w)
BY DEF table, KeepsLive

-----------------------------------------------------------------------------
(* Messages.  One that is handled between switches leaves a window as it   *)
(* is, puts it on the current workspace, or starts a switch to its own.    *)

Windowing == Prompt /\ Singles /\ Opened /\ Hidden
Unmoved == UNCHANGED <<alive, iconic, pending, stashed>>
Here(w) == w \in tracked' /\ w \notin stashed /\ desktop_bits'[w] = {current_desktop}
Goes(w) == /\ w \in tracked' /\ w \notin stashed /\ phase' = "save"
           /\ desktop_bits'[w] = {target'} /\ not_minimized'[w] = {target'}

LEMMA HousekeepingCalm ==
    ASSUME IInv, Windowing, Unmoved, UNCHANGED switch, \A w \in alive : KeepsLive(w)
    PROVE  Windowing'
<1>0. Prompt /\ Singles /\ Opened /\ Hidden
  BY DEF Windowing
<1>1. /\ current_desktop \in Desks /\ target \in Desks
      /\ stashed \subseteq alive /\ pending \subseteq alive
      /\ \A w \in alive : desktop_bits[w] \subseteq Desks
  BY DEF IInv, TypeOK
<1>2. Prompt'
  BY <1>0, <1>1 DEF Prompt, Unmoved, switch, KeepsLive
<1>3. Singles'
  BY <1>0 DEF Singles, Unmoved, KeepsLive
<1>4. Opened'
  <2> SUFFICES ASSUME NEW w \in (tracked' \cap alive) \ (iconic \cup pending)
               PROVE  OpenThen(w)'
    BY DEF Opened, Unmoved
  <2>1. OpenThen(w) /\ KeepsLive(w)
    BY <1>0 DEF Opened, KeepsLive
  <2> QED BY <1>1, <2>1 DEF OpenThen, KeepsLive, switch
<1>5. Hidden'
  <2> SUFFICES ASSUME NEW w \in stashed \cup pending PROVE HiddenThen(w)'
    BY DEF Hidden, Unmoved
  <2>1. HiddenThen(w) /\ KeepsLive(w) /\ w \in alive
    BY <1>0, <1>1 DEF Hidden
  <2>2. UNCHANGED <<desktop_bits[w], not_minimized[w], phase, target, current_desktop>>
        /\ (w \in pending' <=> w \in pending)
        /\ \A d \in desktop_bits[w] : w \in zorder'[d] <=> w \in zorder[d]
    BY <1>1, <2>1 DEF KeepsLive, switch, Unmoved
  <2> QED BY <2>1, <2>2 DEF HiddenThen
<1> QED BY <1>2, <1>3, <1>4, <1>5 DEF Windowing

LEMMA EffectCalm ==
    ASSUME IInv, Windowing, Unmoved, phase = "idle", phase' \in {"idle", "save"},
           current_desktop' = current_desktop,
           \A w \in alive : KeepsLive(w) \/ Here(w) \/ Goes(w)
    PROVE  Windowing'
<1>0. Prompt /\ Singles /\ Opened /\ Hidden
  BY DEF Windowing
<1>1. /\ current_desktop \in Desks /\ stashed \subseteq alive /\ pending = {}
      /\ \A w \in alive : desktop_bits[w] \subseteq Desks
  BY <1>0 DEF IInv, TypeOK, Prompt
<1>2. Prompt'
  <2>1. \A w \in stashed : w \in tracked'
    BY <1>0, <1>1 DEF KeepsLive, Here, Goes, Prompt
  <2> QED BY <1>1, <2>1 DEF Prompt, Unmoved
<1>3. Singles'
  BY <1>0 DEF Singles, Unmoved, KeepsLive, Here, Goes
<1>4. Opened'
  <2> SUFFICES ASSUME NEW w \in (tracked' \cap alive) \ (iconic \cup pending)
               PROVE  OpenThen(w)'
    BY DEF Opened, Unmoved
  <2>1. CASE KeepsLive(w)
    <3>1. current_desktop \in desktop_bits[w]
      BY <1>0, <2>1 DEF Opened, OpenThen, KeepsLive
    <3> QED BY <2>1, <3>1 DEF OpenThen, KeepsLive
  <2>2. CASE Here(w)
    BY <2>2 DEF OpenThen, Here
  <2>3. CASE Goes(w)
    BY <2>3 DEF OpenThen, Goes
  <2> QED BY <2>1, <2>2, <2>3
<1>5. Hidden'
  <2> SUFFICES ASSUME NEW w \in stashed PROVE HiddenThen(w)'
    BY <1>1 DEF Hidden, Unmoved
  <2>1. HiddenThen(w) /\ KeepsLive(w) /\ w \in alive
    BY <1>0, <1>1 DEF Hidden, Here, Goes
  <2>2. /\ UNCHANGED <<desktop_bits[w], not_minimized[w]>>
        /\ \A d \in desktop_bits[w] : w \in zorder'[d] <=> w \in zorder[d]
    BY <1>1, <2>1 DEF KeepsLive
  <2> QED BY <2>1, <2>2 DEF HiddenThen
<1> QED BY <1>2, <1>3, <1>4, <1>5 DEF Windowing

Effect == /\ phase' \in {"idle", "save"} /\ current_desktop' = current_desktop
          /\ \A w \in alive : KeepsLive(w) \/ Here(w) \/ Goes(w)

LEMMA RuleEffect ==
    ASSUME Calm, IInv, phase = "idle", NEW w \in Windows \ stashed, MatchRule[w] # {},
           SetWorkspace(w, MatchRule[w])
    PROVE  Effect
<1>1. PICK e \in Desks : MatchRule[w] = {e}
  <2>1. MatchRule[w] \in SUBSET Desks
    BY RuleAssumption, PlacesAreDesks
  <2> QED BY <2>1 DEF Calm
<1>2. PICK gone \in Reapable({w}) :
        /\ tracked' = TrackedAfter({w}, gone)
        /\ desktop_bits' = [BitsAfter({w}, gone, current_desktop) EXCEPT ![w] = {e}]
        /\ not_minimized' = [MinAfter({w}, gone, current_desktop) EXCEPT ![w] = {e}]
        /\ zorder' = ZorderAfter(gone)
  BY <1>1 DEF SetWorkspace
<1>3. \/ UNCHANGED switch /\ e = current_desktop
      \/ phase' = "save" /\ target' = e /\ UNCHANGED current_desktop
  <2>1. CASE {e} = Desks
    BY <1>1, <2>1 DEF SetWorkspace, IInv, TypeOK
  <2>2. CASE {e} # Desks
    <3>1. core_switch_desktop(e)
      BY <1>1, <2>2 DEF SetWorkspace
    <3> QED BY <3>1 DEF core_switch_desktop, CanSwitch, StartSwitch, Calm, desktop_switching
  <2> QED BY <2>1, <2>2
<1>4. ASSUME NEW v \in alive \ {w} PROVE KeepsLive(v)
  <2>1. v \in Windows /\ current_desktop \in Desks
    BY DEF IInv, TypeOK
  <2>2. /\ desktop_bits'[v] = BitsAfter({w}, gone, current_desktop)[v]
        /\ not_minimized'[v] = MinAfter({w}, gone, current_desktop)[v]
    BY <1>2
  <2>3. /\ desktop_bits'[v] = desktop_bits[v] /\ not_minimized'[v] = not_minimized[v]
        /\ \A d \in Desks : v \in zorder'[d] <=> v \in zorder[d]
        /\ v \in tracked' <=> v \in tracked
    <3>1. ReapsOnlyDead(v, {w}, gone, current_desktop)
      BY <2>1, ReapsDead
    <3> QED BY <1>2, <2>2, <3>1 DEF ReapsOnlyDead
  <2> QED BY <2>3 DEF KeepsLive
<1>5. w \in tracked' /\ desktop_bits'[w] = {e} /\ not_minimized'[w] = {e}
  BY <1>2 DEF TrackedAfter, BitsAfter, MinAfter
<1>6. Here(w) \/ Goes(w)
  BY <1>3, <1>5 DEF Here, Goes
<1>7. phase' \in {"idle", "save"} /\ current_desktop' = current_desktop
  BY <1>3 DEF switch
<1> QED BY <1>4, <1>6, <1>7 DEF Effect

LEMMA GetEffect ==
    ASSUME IInv, Windowing, phase = "idle", NEW ws \in SUBSET Windows,
           get_PerWindow(ws, current_desktop), UNCHANGED switch
    PROVE  Effect
<1>1. \A w \in alive : IF w \in ws \ tracked THEN EntersLive(w, current_desktop) ELSE KeepsLive(w)
  BY GetLive DEF IInv, TypeOK
<1>2. \A w \in alive : EntersLive(w, current_desktop) => Here(w)
  BY DEF EntersLive, Here, Windowing, Prompt
<1> QED BY <1>1, <1>2 DEF Effect, switch

LEMMA RedrawEffect ==
    ASSUME IInv, Windowing, phase = "idle", NEW w \in Windows, OnRedraw(w)
    PROVE  Effect
<1>1. CASE ~RedrawCounts(w)
  BY <1>1, SameLive DEF OnRedraw, Effect, switch
<1>2. CASE RedrawCounts(w)
  <2>1. PICK gone \in Reapable({w}) :
          /\ tracked' = TrackedAfter({w}, gone)
          /\ desktop_bits' =
               [BitsAfter({w}, gone, current_desktop) EXCEPT ![w] = @ \cup {current_desktop}]
          /\ not_minimized' =
               [MinAfter({w}, gone, current_desktop) EXCEPT ![w] = @ \cup {current_desktop}]
          /\ zorder' = ZorderAfter(gone)
    BY <1>2 DEF OnRedraw
  <2>2. UNCHANGED switch /\ w \notin iconic
    BY <1>2 DEF OnRedraw, RedrawCounts
  <2>3. ASSUME NEW v \in alive \ {w} PROVE KeepsLive(v)
    <3>1. v \in Windows
      BY DEF IInv, TypeOK
    <3>2. ReapsOnlyDead(v, {w}, gone, current_desktop)
      BY <3>1, ReapsDead
    <3>3. /\ desktop_bits'[v] = BitsAfter({w}, gone, current_desktop)[v]
          /\ not_minimized'[v] = MinAfter({w}, gone, current_desktop)[v]
      BY <2>1
    <3> QED BY <2>1, <3>2, <3>3 DEF ReapsOnlyDead, KeepsLive
  <2>4. ASSUME w \in alive PROVE Here(w)
    <3> DEFINE b == BitsAfter({w}, gone, current_desktop)
    <3>1. ReapsOnlyDead(w, {w}, gone, current_desktop)
      BY <2>4, ReapsDead
    <3>2. b[w] = {current_desktop}
      <4>1. CASE w \in tracked
        <5>1. \A d \in desktop_bits[w] : d = current_desktop
          BY <2>2, <2>4, <4>1 DEF Windowing, Opened, OpenThen, Singles, Prompt
        <5>2. current_desktop \in desktop_bits[w]
          BY <2>2, <2>4, <4>1 DEF Windowing, Opened, OpenThen, Prompt
        <5>3. b[w] = desktop_bits[w]
          BY <3>1, <4>1 DEF ReapsOnlyDead
        <5> QED BY <5>1, <5>2, <5>3
      <4>2. CASE w \notin tracked
        BY <3>1, <4>2 DEF ReapsOnlyDead
      <4> QED BY <4>1, <4>2
    <3>3. desktop_bits'[w] = b[w] \cup {current_desktop}
      BY <2>1 DEF BitsAfter
    <3>4. w \in tracked'
      BY <2>1, <3>1 DEF ReapsOnlyDead
    <3>5. w \notin stashed
      BY <2>2 DEF IInv, TypeOK
    <3> HIDE DEF b
    <3> QED BY <3>2, <3>3, <3>4, <3>5 DEF Here
  <2> QED BY <2>2, <2>3, <2>4 DEF Effect, switch
<1> QED BY <1>1, <1>2

LEMMA HandleIdle ==
    ASSUME Calm, IInv, Windowing, phase = "idle", NEW m \in Messages, Deliverable(m), Handle(m)
    PROVE  Effect
<1>0. /\ m.kind \in {"created", "activated", "redraw", "destroyed"} => m.win \in Windows
      /\ alive \in SUBSET Windows
  BY MessageFields DEF IInv, TypeOK
<1>1. CASE m.kind = "created" /\ OnCreated(m.win)
  <2>1. m.win \in Windows \ stashed
    BY <1>0, <1>1 DEF Deliverable
  <2>2. CASE MatchRule[m.win] # {}
    BY <1>1, <2>1, <2>2, RuleEffect DEF OnCreated, desktop_switching
  <2>3. CASE MatchRule[m.win] = {}
    <3>1. get_PerWindow({m.win}, current_desktop) /\ UNCHANGED switch
      BY <1>1, <2>3 DEF OnCreated, desktop_switching
    <3> QED BY <2>1, <3>1, GetEffect
  <2> QED BY <2>2, <2>3
<1>2. CASE m.kind = "activated" /\ OnActivated(m.win)
  <2>1. get_PerWindow({m.win}, current_desktop) /\ UNCHANGED switch /\ m.win \in Windows
    BY <1>0, <1>2 DEF OnActivated, desktop_switching
  <2> QED BY <2>1, GetEffect
<1>3. CASE m.kind = "redraw" /\ OnRedraw(m.win)
  BY <1>0, <1>3, RedrawEffect
<1>4. CASE m.kind = "destroyed" /\ delete_PerWindow(m.win) /\ UNCHANGED switch
  BY <1>0, <1>4, DeleteLive DEF Deliverable, Effect, switch
<1>5. CASE m.kind = "hotkey" /\ core_switch_desktop(m.desk) /\ UNCHANGED table
  BY <1>5, SameLive DEF core_switch_desktop, StartSwitch, Effect, switch
<1>6. CASE m.kind = "scan" /\ get_PerWindow(alive, current_desktop) /\ UNCHANGED switch
  BY <1>0, <1>6, GetEffect
<1>7. CASE m.kind \in {"timer", "quit"} /\ UNCHANGED <<switch, table>>
  BY <1>7, SameLive DEF Effect, switch
<1>8. m.kind # "workspace"
  BY DEF Deliverable
<1> QED BY <1>1, <1>2, <1>3, <1>4, <1>5, <1>6, <1>7, <1>8 DEF Handle

LEMMA HandlePumped ==
    ASSUME IInv, Windowing, phase = "pump", NEW m \in Messages, Deliverable(m), Handle(m)
    PROVE  UNCHANGED switch /\ \A w \in alive : KeepsLive(w)
<1>0. /\ m.kind = "destroyed" => m.win \in Windows
      /\ alive \in SUBSET Windows /\ current_desktop \in Desks /\ alive \subseteq tracked
  BY MessageFields DEF IInv, TypeOK, Windowing, Prompt
<1>1. CASE m.kind = "created" /\ OnCreated(m.win)
  BY <1>1, SameLive DEF OnCreated, desktop_switching
<1>2. CASE m.kind = "activated" /\ OnActivated(m.win)
  BY <1>2, SameLive DEF OnActivated, desktop_switching
<1>3. CASE m.kind = "redraw" /\ OnRedraw(m.win)
  BY <1>3, SameLive DEF OnRedraw, RedrawCounts, desktop_switching
<1>4. CASE m.kind = "destroyed" /\ delete_PerWindow(m.win) /\ UNCHANGED switch
  BY <1>0, <1>4, DeleteLive DEF Deliverable
<1>5. CASE m.kind = "hotkey" /\ core_switch_desktop(m.desk) /\ UNCHANGED table
  BY <1>5, SameLive DEF core_switch_desktop, CanSwitch, desktop_switching
<1>6. CASE m.kind = "scan" /\ get_PerWindow(alive, current_desktop) /\ UNCHANGED switch
  BY <1>0, <1>6, GetLive
<1>7. CASE m.kind \in {"timer", "quit"} /\ UNCHANGED <<switch, table>>
  BY <1>7, SameLive
<1>8. m.kind # "workspace"
  BY DEF Deliverable
<1> QED BY <1>1, <1>2, <1>3, <1>4, <1>5, <1>6, <1>7, <1>8 DEF Handle

LEMMA DispatchCalm ==
    ASSUME Calm, CInv, Dispatch
    PROVE  Windowing' /\ Mail'
<1>1. /\ IInv /\ Windowing /\ Mail /\ TypeOK
  BY DEF CInv, IInv, Windowing
<1>2. /\ queue # <<>> /\ phase \in {"idle", "pump"} /\ Handle(Head(queue))
      /\ queue' = Tail(queue) /\ Unmoved
  BY DEF Dispatch, world, Unmoved
<1>3. /\ Head(queue) \in Messages /\ Deliverable(Head(queue))
      /\ Len(queue') \in Nat /\ \A i \in 1..Len(queue') : i + 1 \in 1..Len(queue)
                                                     /\ queue'[i] = queue[i + 1]
  <2>1. queue \in Seq(Messages)
    BY <1>1 DEF TypeOK
  <2>2. Head(queue) = queue[1] /\ 1 \in 1..Len(queue) /\ Head(queue) \in Messages
    BY <1>2, <2>1
  <2>3. Deliverable(Head(queue))
    BY <1>1, <2>2 DEF Mail, Deliverable
  <2>4. Len(queue') \in Nat /\ \A i \in 1..Len(queue') : i + 1 \in 1..Len(queue)
                                                     /\ queue'[i] = queue[i + 1]
    BY <1>2, <2>1
  <2> QED BY <2>2, <2>3, <2>4
<1>4. CASE phase = "idle"
  <2>1. Effect
    BY <1>1, <1>2, <1>3, <1>4, HandleIdle
  <2>2. Windowing'
    BY <1>1, <1>2, <1>4, <2>1, EffectCalm DEF Effect
  <2>3. Mail'
    BY <1>1, <1>2, <1>3, <1>4 DEF Mail, Deliverable, Unmoved
  <2> QED BY <2>2, <2>3
<1>5. CASE phase = "pump"
  <2>1. UNCHANGED switch /\ \A w \in alive : KeepsLive(w)
    BY <1>1, <1>2, <1>3, <1>5, HandlePumped
  <2>2. Windowing'
    BY <1>1, <1>2, <2>1, HousekeepingCalm
  <2>3. Mail'
    BY <1>1, <1>2, <1>3, <1>5, <2>1 DEF Mail, Deliverable, Unmoved, switch
  <2> QED BY <2>2, <2>3
<1> QED BY <1>2, <1>4, <1>5

-----------------------------------------------------------------------------
(* The passes of a switch, and its end.                                    *)

LEMMA SavePassCalm ==
    ASSUME IInv, Windowing, SavePass
    PROVE  Windowing'
<1> DEFINE bits(gone) == BitsAfter(alive, gone, current_desktop)
           mins(gone) == MinAfter(alive, gone, current_desktop)
           here(gone) == {w \in alive : current_desktop \in bits(gone)[w]}
<1>1. PICK gone \in Reapable(alive) :
        /\ tracked' = TrackedAfter(alive, gone)
        /\ desktop_bits' = bits(gone)
        /\ not_minimized' =
             [w \in Windows |->
                IF w \notin here(gone) THEN mins(gone)[w]
                ELSE IF w \in iconic THEN mins(gone)[w] \ {current_desktop}
                ELSE mins(gone)[w] \cup {current_desktop}]
        /\ zorder' = Remembering(ZorderAfter(gone), here(gone))
  BY DEF SavePass
<1>2. /\ phase = "save" /\ phase' = "minimize" /\ Unmoved
      /\ UNCHANGED <<current_desktop, target>>
  BY DEF SavePass, world, Unmoved
<1>3. /\ pending = {} /\ stashed \subseteq tracked \cap iconic /\ target # current_desktop
      /\ current_desktop \in Desks /\ target \in Desks /\ alive \subseteq Windows
      /\ iconic \subseteq alive /\ zorder \in [Desks -> SUBSET Windows]
      /\ \A w \in alive : desktop_bits[w] \subseteq Desks
  BY <1>2 DEF Windowing, Prompt, IInv, TypeOK, TargetIsOther, desktop_switching
<1>4. ASSUME NEW w \in alive
      PROVE  /\ w \in tracked'
             /\ IF w \in tracked THEN desktop_bits'[w] = desktop_bits[w]
                ELSE desktop_bits'[w] = {current_desktop}
             /\ w \in tracked /\ target \in not_minimized[w] => target \in not_minimized'[w]
             /\ current_desktop \in desktop_bits'[w] => w \in zorder'[current_desktop]
             /\ \A d \in Desks \ {current_desktop} : w \in zorder[d] => w \in zorder'[d]
  <2>1. /\ w \in TrackedAfter(alive, gone)
        /\ w \notin tracked => bits(gone)[w] = {current_desktop}
        /\ w \in tracked => /\ bits(gone)[w] = desktop_bits[w]
                           /\ mins(gone)[w] = not_minimized[w]
        /\ \A e \in Desks : w \in ZorderAfter(gone)[e] <=> w \in zorder[e]
    BY <1>3, ReapsDead DEF ReapsOnlyDead
  <2>2. /\ current_desktop \in bits(gone)[w] => w \in zorder'[current_desktop]
        /\ \A d \in Desks \ {current_desktop} : zorder'[d] = ZorderAfter(gone)[d]
    <3> DEFINE z == ZorderAfter(gone)
    <3>1. DOMAIN z = Desks /\ z = [d \in Desks |-> z[d]]
      BY DEF ZorderAfter
    <3>2. zorder' = [z EXCEPT ![current_desktop] = here(gone)]
      BY <1>1 DEF Remembering
    <3>3. current_desktop \in bits(gone)[w] => w \in here(gone)
      OBVIOUS
    <3> HIDE DEF z, here, bits
    <3>4. /\ current_desktop \in bits(gone)[w] => w \in zorder'[current_desktop]
          /\ \A d \in Desks \ {current_desktop} : zorder'[d] = z[d]
      BY <1>3, <3>1, <3>2, <3>3
    <3> QED BY <3>4 DEF z
  <2>3. w \in tracked /\ target \in not_minimized[w] => target \in not_minimized'[w]
    <3>1. w \in Windows
      BY <1>3
    <3> HIDE DEF mins, here
    <3> QED BY <1>1, <1>3, <2>1, <3>1
  <2> HIDE DEF bits, mins, here
  <2> QED BY <1>1, <2>1, <2>2, <2>3
<1>5. Prompt'
  BY <1>2, <1>3, <1>4 DEF Prompt, Unmoved
<1>6. Singles'
  BY <1>2, <1>4 DEF Singles, Windowing, Unmoved
<1>7. ASSUME NEW w \in alive \ iconic
      PROVE  OpenThen(w)'
  <2>1. CASE w \in tracked
    <3>1. \/ current_desktop \in desktop_bits[w]
          \/ target \in desktop_bits[w] /\ target \in not_minimized[w]
      BY <1>2, <1>3, <2>1 DEF Windowing, Opened, OpenThen
    <3>2. \/ current_desktop \in desktop_bits'[w] /\ w \in zorder'[current_desktop]
          \/ target \in desktop_bits'[w] /\ target \in not_minimized'[w]
      BY <1>4, <2>1, <3>1
    <3> QED BY <1>2, <3>2 DEF OpenThen
  <2>2. CASE w \notin tracked
    BY <1>2, <1>4, <2>2 DEF OpenThen
  <2> QED BY <2>1, <2>2
<1>8. ASSUME NEW w \in stashed
      PROVE  HiddenThen(w)'
  <2>1. \A d \in desktop_bits[w] : d # current_desktop => w \in zorder[d]
    BY <1>2, <1>3 DEF Windowing, Hidden, HiddenThen
  <2>2. \A d \in desktop_bits'[w] : w \in zorder'[d]
    BY <1>3, <1>4, <2>1
  <2> QED BY <1>2, <2>2 DEF HiddenThen
<1> QED BY <1>2, <1>3, <1>5, <1>6, <1>7, <1>8 DEF Windowing, Opened, Hidden, Unmoved

LEMMA MinimizePassCalm ==
    ASSUME IInv, Windowing, MinimizePass
    PROVE  Windowing'
<1>1. /\ phase = "minimize" /\ phase' = "restore"
      /\ UNCHANGED <<alive, iconic, stashed, current_desktop, target>>
      /\ pending = {}
      /\ pending' = {w \in alive \ iconic : Unwanted(desktop_bits'[w], not_minimized'[w])}
  BY DEF MinimizePass, Windowing, Prompt
<1>2. /\ alive \subseteq tracked /\ alive \subseteq Windows /\ stashed \subseteq alive
      /\ current_desktop \in Desks /\ \A w \in alive : desktop_bits[w] \subseteq Desks
  BY <1>1 DEF Windowing, Prompt, IInv, TypeOK
<1>3. \A w \in alive : KeepsLive(w)
  BY <1>2, GetLive DEF MinimizePass
<1>4. Prompt'
  BY <1>1, <1>2, <1>3 DEF Prompt, Windowing, KeepsLive
<1>5. Singles'
  BY <1>1, <1>2, <1>3 DEF Singles, Windowing, KeepsLive
<1>6. ASSUME NEW w \in alive \ iconic, w \notin pending'
      PROVE  OpenThen(w)'
  BY <1>1, <1>6 DEF OpenThen, Unwanted
<1>7. ASSUME NEW w \in stashed
      PROVE  HiddenThen(w)'
  <2>1. \A d \in desktop_bits'[w] : w \in zorder'[d]
    BY <1>1, <1>2, <1>3 DEF Windowing, Hidden, HiddenThen, KeepsLive
  <2>2. w \notin pending'
    BY <1>1 DEF IInv, TypeOK
  <2> QED BY <1>1, <2>1, <2>2 DEF HiddenThen
<1>8. ASSUME NEW w \in pending'
      PROVE  HiddenThen(w)'
  <2>1. w \in alive \ iconic /\ Unwanted(desktop_bits'[w], not_minimized'[w]) /\ KeepsLive(w)
    BY <1>1, <1>3
  <2>2. current_desktop \in desktop_bits[w] /\ w \in zorder[current_desktop]
    BY <1>1, <1>2, <2>1 DEF Windowing, Opened, OpenThen, Unwanted, KeepsLive
  <2>3. \A d \in desktop_bits'[w] : w \in zorder'[d]
    BY <1>2, <2>1, <2>2 DEF Windowing, Singles, KeepsLive
  <2> QED BY <1>1, <2>1, <2>3 DEF HiddenThen, Unwanted
<1> QED BY <1>1, <1>4, <1>5, <1>6, <1>7, <1>8 DEF Windowing, Opened, Hidden

LEMMA RestorePassCalm ==
    ASSUME IInv, Windowing, RestorePass
    PROVE  Windowing'
<1> DEFINE back == {w \in zorder[target] \cap alive : target \in desktop_bits[w]}
           up == {w \in back : OpenThere(w)}
<1>1. /\ phase = "restore" /\ phase' = "pump" /\ UNCHANGED <<alive, current_desktop, target>>
      /\ iconic' = iconic \ up /\ stashed' = stashed \ up
      /\ pending' = pending \cup ((back \ up) \ iconic)
  BY DEF RestorePass
<1>2. /\ alive \subseteq tracked /\ alive \subseteq Windows /\ target \in Desks
      /\ stashed \subseteq alive /\ pending \subseteq alive \ iconic
      /\ zorder \in [Desks -> SUBSET Windows]
      /\ \A w \in alive : desktop_bits[w] \subseteq Desks
  BY <1>1 DEF Windowing, Prompt, IInv, TypeOK
<1>3. ASSUME NEW w \in alive
      PROVE  /\ w \in tracked'
             /\ desktop_bits'[w] = desktop_bits[w] /\ not_minimized'[w] = not_minimized[w]
             /\ \A d \in Desks \ {target} : w \in zorder[d] => w \in zorder'[d]
  <2>1. PICK gone \in Reapable({}) :
          /\ tracked' = TrackedAfter({}, gone)
          /\ desktop_bits' = BitsAfter({}, gone, target)
          /\ not_minimized' = MinAfter({}, gone, target)
          /\ zorder' = Forgetting(ZorderAfter(gone))
    BY DEF RestorePass
  <2>2. ReapsOnlyDead(w, {}, gone, target)
    BY ReapsDead
  <2>3. \A d \in Desks \ {target} : zorder'[d] = ZorderAfter(gone)[d]
    BY <2>1 DEF Forgetting, ZorderAfter
  <2> QED BY <1>2, <2>1, <2>2, <2>3 DEF ReapsOnlyDead
<1>4. pending' = pending
  <2>1. ASSUME NEW w \in (back \ up) \ iconic PROVE w \in pending
    <3>1. w \in alive /\ w \in tracked /\ target \notin not_minimized[w]
      BY <1>2, <2>1 DEF OpenThere
    <3> QED BY <1>1, <2>1, <3>1 DEF Windowing, Opened, OpenThen
  <2> QED BY <1>1, <2>1
<1>5. Prompt'
  BY <1>1, <1>2, <1>3, <1>4 DEF Prompt
<1>6. Singles'
  BY <1>1, <1>2, <1>3 DEF Singles, Windowing
<1>7. ASSUME NEW w \in alive \ (iconic' \cup pending)
      PROVE  OpenThen(w)'
  <2>1. target \in desktop_bits[w]
    <3>1. CASE w \in up
      BY <3>1
    <3>2. CASE w \notin iconic
      BY <1>1, <1>2, <3>2 DEF Windowing, Opened, OpenThen
    <3> QED BY <1>1, <3>1, <3>2
  <2> QED BY <1>1, <1>3, <2>1 DEF OpenThen
<1>8. ASSUME NEW w \in stashed' \cup pending
      PROVE  HiddenThen(w)'
  <2>1. w \in alive /\ w \in stashed \cup pending /\ (w \in pending \/ w \notin up)
    BY <1>1, <1>2
  <2>2. \A d \in desktop_bits[w] : w \in zorder[d]
    BY <1>1, <2>1 DEF Windowing, Hidden, HiddenThen
  <2>3. target \in desktop_bits[w] => target \notin not_minimized[w]
    <3>1. CASE w \in pending
      BY <1>1, <3>1 DEF Windowing, Hidden, HiddenThen
    <3>2. CASE w \notin up
      BY <2>1, <2>2, <3>2 DEF OpenThere
    <3> QED BY <2>1, <3>1, <3>2
  <2>4. \A d \in desktop_bits'[w] : IF d = target THEN d \notin not_minimized'[w]
                                    ELSE w \in zorder'[d]
    BY <1>2, <1>3, <2>1, <2>2, <2>3
  <2> QED BY <1>1, <2>4 DEF HiddenThen
<1> HIDE DEF back, up
<1> QED BY <1>1, <1>4, <1>5, <1>6, <1>7, <1>8 DEF Windowing, Opened, Hidden

LEMMA PumpEndCalm ==
    ASSUME Calm, IInv, Windowing, PumpDry \/ PumpTakesQuit
    PROVE  Windowing'
<1>1. /\ Unmoved /\ UNCHANGED <<table, queue>> /\ queue = <<>> /\ phase = "pump"
      /\ UNCHANGED switch \/ FinishSwitch
  BY DEF PumpDry, PumpTakesQuit, world, Unmoved
<1>2. CASE UNCHANGED switch
  BY <1>1, <1>2, SameLive, HousekeepingCalm
<1>3. CASE FinishSwitch
  <2>1. pending = {} /\ phase' = "idle" /\ current_desktop' = target /\ UNCHANGED target
    BY <1>3 DEF FinishSwitch, Calm
  <2>2. UNCHANGED <<alive, iconic, pending, stashed, tracked, desktop_bits, not_minimized, zorder>>
    BY <1>1 DEF Unmoved, table
  <2>3. Prompt' /\ Singles'
    BY <2>1, <2>2 DEF Windowing, Prompt, Singles
  <2>4. Opened'
    BY <1>1, <2>1, <2>2 DEF Windowing, Opened, OpenThen
  <2>5. Hidden'
    <3> SUFFICES ASSUME NEW w \in stashed PROVE HiddenThen(w)'
      BY <2>1, <2>2 DEF Hidden
    <3>1. \A d \in desktop_bits[w] : IF d = target THEN d \notin not_minimized[w]
                                     ELSE w \in zorder[d]
      BY <1>1 DEF Windowing, Hidden, HiddenThen
    <3> QED BY <2>1, <2>2, <3>1 DEF HiddenThen
  <2> QED BY <2>3, <2>4, <2>5 DEF Windowing
<1> QED BY <1>1, <1>2, <1>3

-----------------------------------------------------------------------------
(* The world.                                                              *)

\* What becomes of a message in the queue when the world has moved.
StillDeliverable(m) ==
    /\ m.kind # "workspace"
    /\ m.kind = "destroyed" => m.win \notin alive'
    /\ m.kind = "created" /\ phase' = "idle" => m.win \notin stashed'

LEMMA MailPosted ==
    ASSUME TypeOK, NEW m \in Messages, Post(m), StillDeliverable(m),
           \A i \in 1..Len(queue) : StillDeliverable(queue[i])
    PROVE  Mail'
<1>1. /\ Len(queue) \in Nat /\ Len(queue') = Len(queue) + 1 /\ queue'[Len(queue) + 1] = m
      /\ \A i \in 1..Len(queue) : queue'[i] = queue[i]
  BY DEF TypeOK, Post
<1>2. ASSUME NEW i \in 1..Len(queue') PROVE StillDeliverable(queue'[i])
  <2>1. i = Len(queue) + 1 \/ i \in 1..Len(queue)
    BY <1>1
  <2> QED BY <1>1, <2>1
<1> QED BY <1>2 DEF Mail, Deliverable, StillDeliverable

LEMMA MailKept ==
    ASSUME Mail, UNCHANGED queue, alive' \subseteq alive,
           phase' = "idle" => stashed' \subseteq stashed /\ phase = "idle"
    PROVE  Mail'
  BY DEF Mail, Deliverable

\* One that nothing the message speaks of has changed for is still deliverable.
LEMMA MailStill ==
    ASSUME Mail, alive' \subseteq alive, phase' = phase, stashed' \subseteq stashed
    PROVE  \A i \in 1..Len(queue) : StillDeliverable(queue[i])
  BY DEF Mail, Deliverable, StillDeliverable

LEMMA CreatedCalm ==
    ASSUME Calm, CInv, NEW w \in Windows, WindowCreated(w)
    PROVE  Windowing' /\ Mail'
<1>1. /\ TypeOK /\ Windowing /\ Mail /\ phase = "idle"
      /\ w \notin alive \cup tracked /\ ~Named(w)
      /\ UNCHANGED <<shell, pending, stashed>> /\ alive' = alive \cup {w}
      /\ iconic' \in {iconic, iconic \cup {w}}
  BY DEF CInv, IInv, Windowing, WindowCreated, Calm, desktop_switching
<1>2. Windowing'
  BY <1>1 DEF Windowing, Prompt, Singles, Opened, Hidden, OpenThen, HiddenThen, shell
<1>3. Mail'
  <2>1. [kind |-> "created", win |-> w] \in Messages /\ Post([kind |-> "created", win |-> w])
    BY DEF Messages, WindowCreated
  <2>2. StillDeliverable([kind |-> "created", win |-> w])
    BY <1>1 DEF StillDeliverable, TypeOK
  <2>3. \A i \in 1..Len(queue) : StillDeliverable(queue[i])
    <3>1. queue \in Seq(Messages) /\ DOMAIN queue = 1..Len(queue)
      BY <1>1 DEF TypeOK
    <3>2. \A i \in 1..Len(queue) : queue[i].kind = "destroyed" => queue[i].win # w
      BY <1>1, <3>1 DEF Named
    <3> QED BY <1>1, <3>2 DEF Mail, Deliverable, StillDeliverable, shell
  <2> QED BY <1>1, <2>1, <2>2, <2>3, MailPosted
<1> QED BY <1>2, <1>3

LEMMA DestroyedCalm ==
    ASSUME Calm, CInv, NEW w \in Windows, WindowDestroyed(w)
    PROVE  Windowing' /\ Mail'
<1>1. /\ TypeOK /\ Windowing /\ Mail /\ UNCHANGED shell
      /\ alive' = alive \ {w} /\ iconic' = iconic \ {w}
      /\ pending' = pending \ {w} /\ stashed' = stashed \ {w}
  BY DEF CInv, IInv, Windowing, WindowDestroyed
<1>2. Windowing'
  BY <1>1 DEF Windowing, Prompt, Singles, Opened, Hidden, OpenThen, HiddenThen, shell
<1>3. Mail'
  <2>1. /\ [kind |-> "destroyed", win |-> w] \in Messages
        /\ Post([kind |-> "destroyed", win |-> w])
    BY DEF Messages, WindowDestroyed
  <2>2. StillDeliverable([kind |-> "destroyed", win |-> w])
    BY <1>1 DEF StillDeliverable
  <2>3. \A i \in 1..Len(queue) : StillDeliverable(queue[i])
    BY <1>1, MailStill DEF shell
  <2> QED BY <1>1, <2>1, <2>2, <2>3, MailPosted
<1> QED BY <1>2, <1>3

\* A window is minimised or restored by the user where it is shown.
LEMMA ToggledCalm ==
    ASSUME Calm, CInv, NEW w \in Windows, WindowToggled(w)
    PROVE  Windowing' /\ Mail'
<1>1. /\ TypeOK /\ Windowing /\ Mail /\ UNCHANGED <<shell, queue, alive, pending>>
      /\ phase = "idle" /\ (w \in tracked => current_desktop \in desktop_bits[w])
      /\ stashed' = stashed \ {w}
      /\ iconic' = IF w \in iconic THEN iconic \ {w} ELSE iconic \cup {w}
  BY DEF CInv, IInv, Windowing, WindowToggled, Calm, desktop_switching
<1>2. Windowing'
  BY <1>1 DEF Windowing, Prompt, Singles, Opened, Hidden, OpenThen, HiddenThen, shell
<1>3. Mail'
  BY <1>1, MailKept DEF shell
<1> QED BY <1>2, <1>3

LEMMA ServedCalm ==
    ASSUME CInv, NEW w \in Windows, MinimizeServed(w)
    PROVE  Windowing' /\ Mail'
<1>1. /\ TypeOK /\ Windowing /\ Mail /\ UNCHANGED <<shell, queue, alive>>
      /\ w \in pending /\ phase \in {"restore", "pump"} /\ w \notin iconic
      /\ pending' = pending \ {w} /\ iconic' = iconic \cup {w} /\ stashed' = stashed \cup {w}
  BY DEF CInv, IInv, Windowing, MinimizeServed, Prompt, TypeOK
<1>2. Windowing'
  BY <1>1 DEF Windowing, Prompt, Singles, Opened, Hidden, OpenThen, HiddenThen, shell
<1>3. Mail'
  BY <1>1, MailKept DEF shell
<1> QED BY <1>2, <1>3

\* The rest only posts messages, or stops.
LEMMA SameCalm ==
    ASSUME Windowing, UNCHANGED shell, Unmoved
    PROVE  Windowing'
BY DEF Windowing, Prompt, Singles, Opened, Hidden, OpenThen, HiddenThen, shell, Unmoved

LEMMA PostedCalm ==
    ASSUME Calm, CInv, UNCHANGED shell, Unmoved,
           NEW m \in [kind : {"activated", "redraw"}, win : Windows]
                    \cup [kind : {"hotkey"}, desk : Requests] \cup [kind : {"timer", "scan", "quit"}],
           Post(m)
    PROVE  Windowing' /\ Mail'
<1>1. Windowing /\ Mail /\ TypeOK
  BY DEF CInv, IInv, Windowing
<1>2. m \in Messages /\ StillDeliverable(m)
  BY DEF Messages, StillDeliverable
<1>3. \A i \in 1..Len(queue) : StillDeliverable(queue[i])
  BY <1>1, MailStill DEF Unmoved, shell
<1> QED BY <1>1, <1>2, <1>3, SameCalm, MailPosted

LEMMA OtherWorldCalm ==
    ASSUME Calm, CInv,
           \/ \E w \in Windows : WindowNoticed(w)
           \/ UserSwitches \/ UserPlaces \/ UserQuits
           \/ PluginScans \/ PluginTimer \/ Settle \/ UNCHANGED vars
    PROVE  Windowing' /\ Mail'
<1>1. Windowing /\ Mail /\ TypeOK
  BY DEF CInv, IInv, Windowing
<1>2. UNCHANGED shell /\ Unmoved
  BY DEF WindowNoticed, UserSwitches, UserPlaces, UserQuits, PluginScans, PluginTimer, Settle,
         world, vars, Unmoved
<1>3. CASE \E w \in Windows : WindowNoticed(w)
  <2>1. PICK w \in Windows, k \in {"activated", "redraw"} : Post([kind |-> k, win |-> w])
    BY <1>3 DEF WindowNoticed
  <2> QED BY <1>2, <2>1, PostedCalm
<1>4. CASE UserSwitches
  <2>1. PICK d \in Requests : Post([kind |-> "hotkey", desk |-> d])
    BY <1>4 DEF UserSwitches
  <2> QED BY <1>2, <2>1, PostedCalm
<1>5. ~UserPlaces
  BY DEF UserPlaces, Calm
<1>6. CASE UserQuits
  <2>1. Post([kind |-> "quit"])
    BY <1>6 DEF UserQuits
  <2> QED BY <1>2, <2>1, PostedCalm
<1>7. CASE PluginScans
  <2>1. Post([kind |-> "scan"])
    BY <1>7 DEF PluginScans
  <2> QED BY <1>2, <2>1, PostedCalm
<1>8. CASE PluginTimer
  <2>1. queue' = <<[kind |-> "timer"]>>
    BY <1>8 DEF PluginTimer
  <2>2. Mail'
    BY <2>1 DEF Mail, Deliverable
  <2> QED BY <1>1, <1>2, <2>2, SameCalm
<1>9. CASE Settle \/ UNCHANGED vars
  <2>1. UNCHANGED queue
    BY <1>9 DEF Settle, vars
  <2> QED BY <1>1, <1>2, <2>1, SameCalm, MailKept DEF shell, Unmoved
<1> QED BY <1>3, <1>4, <1>5, <1>6, <1>7, <1>8, <1>9

-----------------------------------------------------------------------------
LEMMA InitCalm == Init => CInv
<1> SUFFICES ASSUME Init PROVE CInv
  OBVIOUS
<1>1. IInv
  BY InitIInv
<1>2. Mail
  BY DEF Init, Mail
<1>3. Prompt /\ Singles /\ Opened /\ Hidden
  BY DEF Init, Prompt, Singles, Opened, Hidden, OpenThen
<1> QED BY <1>1, <1>2, <1>3 DEF CInv

LEMMA StepCalm == Calm /\ CInv /\ [Next]_vars => CInv'
<1> SUFFICES ASSUME Calm, CInv, [Next]_vars PROVE CInv'
  OBVIOUS
<1>1. IInv /\ Windowing /\ Mail
  BY DEF CInv, Windowing
<1>2. IInv'
  BY <1>1, StepIInv
<1>3. CASE SavePass \/ MinimizePass \/ RestorePass
  <2>1. Windowing'
    BY <1>1, <1>3, SavePassCalm, MinimizePassCalm, RestorePassCalm
  <2>2. alive' = alive /\ queue' = queue /\ phase' # "idle"
    BY <1>3 DEF SavePass, MinimizePass, RestorePass, world
  <2> QED BY <1>1, <1>2, <2>1, <2>2, MailKept DEF CInv, Windowing
<1>4. CASE PumpDry \/ PumpTakesQuit
  <2>1. Windowing'
    BY <1>1, <1>4, PumpEndCalm
  <2>2. Mail'
    BY <1>4 DEF PumpDry, PumpTakesQuit, Mail
  <2> QED BY <1>2, <2>1, <2>2 DEF CInv, Windowing
<1>5. CASE Dispatch
  BY <1>2, <1>5, DispatchCalm DEF CInv, Windowing
<1>6. CASE MainTakesQuit
  <2>1. Unmoved /\ UNCHANGED <<switch, table, queue>>
    BY <1>6 DEF MainTakesQuit, world, Unmoved
  <2> QED BY <1>1, <1>2, <2>1, SameLive, HousekeepingCalm, MailKept DEF CInv, Windowing, switch, Unmoved
<1>7. CASE WorldStep \/ UNCHANGED vars
  BY <1>2, <1>7, CreatedCalm, DestroyedCalm, ToggledCalm, ServedCalm, OtherWorldCalm
     DEF CInv, Windowing, WorldStep
<1> QED BY <1>3, <1>4, <1>5, <1>6, <1>7 DEF Next, ShellStep

\* In a calm world, CInv holds in every reachable state.
THEOREM CalmInvariance == ASSUME Calm PROVE Spec => []CInv
  BY InitCalm, StepCalm, PTL DEF Spec

\* In a calm world, what is open on the screen between two switches of
\* core_switch_desktop is what the table has on the current workspace.
THEOREM OnlyOwnAlwaysOpen == ASSUME Calm PROVE Spec => []OnlyOwnWindowsOpen
<1>1. CInv => OnlyOwnWindowsOpen
  BY DEF CInv, Opened, OpenThen, OnlyOwnWindowsOpen, desktop_switching
<1> QED BY <1>1, CalmInvariance, PTL

\* In a calm world, a window that the shell minimised is in the z-order of the
\* workspace it is on, so that pass 3 of a later switch brings it back.
THEOREM StashedAlwaysReturn == ASSUME Calm PROVE Spec => []StashedCanReturn
<1>1. CInv => StashedCanReturn
  <2> SUFFICES ASSUME CInv, phase = "idle"
               PROVE  /\ NoneStranded
                      /\ \A w \in stashed : \/ \E d \in desktop_bits[w] : w \in zorder[d]
                                            \/ current_desktop \in desktop_bits[w]
    BY DEF StashedCanReturn, desktop_switching
  <2>1. \A w \in stashed : \A d \in desktop_bits[w] :
          IF d = current_desktop THEN d \notin not_minimized[w] ELSE w \in zorder[d]
    BY DEF CInv, Hidden, HiddenThen
  <2>2. \A w \in stashed : desktop_bits[w] # {}
    BY DEF CInv, IInv, Prompt, KnownIffTracked, TypeOK
  <2> QED BY <2>1, <2>2 DEF NoneStranded
<1> QED BY <1>1, CalmInvariance, PTL

-----------------------------------------------------------------------------
(* During a switch the passes and the pump only take bits away.            *)

Shrinks == \A w \in tracked : desktop_bits'[w] \subseteq desktop_bits[w]

LEMMA GetShrinks ==
    ASSUME IInv, NEW ws, NEW gone, NEW d, desktop_bits' = BitsAfter(ws, gone, d)
    PROVE  Shrinks
BY DEF BitsAfter, Shrinks, IInv, TypeOK

LEMMA HandleShrinks ==
    ASSUME IInv, phase = "pump", NEW m \in Messages, Deliverable(m), Handle(m)
    PROVE  Shrinks
<1>0. m.kind = "destroyed" => m.win \in Windows
  BY MessageFields
<1>1. CASE UNCHANGED table
  BY <1>1 DEF table, Shrinks
<1>2. CASE delete_PerWindow(m.win) /\ m.kind = "destroyed"
  BY <1>0, <1>2 DEF delete_PerWindow, Shrinks, IInv, TypeOK
<1>3. CASE get_PerWindow(alive, current_desktop)
  BY <1>3, GetShrinks DEF get_PerWindow
<1>4. m.kind # "workspace" /\ desktop_switching
  BY DEF Deliverable, desktop_switching
<1> QED BY <1>1, <1>2, <1>3, <1>4 DEF Handle, OnCreated, OnActivated, OnRedraw, RedrawCounts

\* In a calm world no window leaks from one workspace to another: none gains a
\* workspace while core_switch_desktop is under way.
THEOREM NobodyLeaks == ASSUME Calm PROVE Spec => NoLeak
<1> DEFINE Leakless == \A w \in tracked : w \in pending \/ desktop_switching =>
                          desktop_bits'[w] \subseteq desktop_bits[w]
<1>1. CInv /\ [Next]_vars => [Leakless]_vars
  <2> SUFFICES ASSUME CInv, Next, phase # "idle" PROVE Shrinks
    BY DEF CInv, Prompt, Shrinks, desktop_switching
  <2>1. IInv
    BY DEF CInv
  <2>2. CASE SavePass \/ MinimizePass \/ RestorePass
    BY <2>1, <2>2, GetShrinks DEF SavePass, MinimizePass, RestorePass, get_PerWindow
  <2>3. CASE Dispatch
    <3>1. queue \in Seq(Messages) /\ queue # <<>> /\ phase = "pump" /\ Handle(Head(queue))
      BY <2>1, <2>3 DEF IInv, TypeOK, Dispatch
    <3>2. Head(queue) = queue[1] /\ 1 \in 1..Len(queue) /\ Head(queue) \in Messages
      BY <3>1
    <3>3. Deliverable(Head(queue))
      BY <3>2 DEF CInv, Mail
    <3> QED BY <2>1, <3>1, <3>2, <3>3, HandleShrinks
  <2>4. CASE PumpDry \/ PumpTakesQuit \/ MainTakesQuit \/ WorldStep
    <3>1. UNCHANGED desktop_bits
      BY <2>4 DEF PumpDry, PumpTakesQuit, MainTakesQuit, table, shell, WorldStep,
         WindowCreated, WindowDestroyed, WindowNoticed, WindowToggled, MinimizeServed,
         UserSwitches, UserPlaces, UserQuits, PluginScans, PluginTimer, Settle
    <3> QED BY <3>1 DEF Shrinks
  <2> QED BY <2>2, <2>3, <2>4 DEF Next, ShellStep
<1> QED BY <1>1, CalmInvariance, PTL DEF Spec, NoLeak
=============================================================================
