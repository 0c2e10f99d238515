----------------------------- MODULE MainThread -----------------------------
(***************************************************************************)
(* What the two task switchers share (taskswitch.cpp, overview.cpp): the   *)
(* shell's only thread of windows, with its queue and its call stack, the  *)
(* active workspace and the z-order.                                       *)
(*                                                                         *)
(* The stack matters because functions of the shell run message pumps: a   *)
(* frame says which function waits in one, or has been left by a call.     *)
(***************************************************************************)
EXTENDS Integers, Sequences, SequencesExt, Subsequences

CONSTANTS
    Windows,      \* application windows
    HomeOf,       \* the workspaces of each
    NDesks,       \* workspaces
    MaximumWorkspaces,   \* those the task switcher goes through
    NoWindow,
    World,        \* what else may happen, see Overlays
    MaxKeys       \* bound: keys that make the shell do something

ASSUME WindowsAssumption == IsFiniteSet(Windows)
ASSUME KeysAssumption == MaxKeys \in Nat
ASSUME DesksAssumption == NDesks \in Nat \ {0}
ASSUME HomeAssumption == HomeOf \in [Windows -> SUBSET (1..NDesks)]

VARIABLES
    queue,        \* messages posted to the thread
    stack,        \* its frames, the innermost one first
    desk,         \* current_desktop + 1
    zorder,       \* the windows, the top one first
    keys          \* keys pressed so far

mainthread == <<queue, stack, desk, zorder, keys>>

Message(kind, arg) == [kind |-> kind, arg |-> arg]
Frame(proc, at, arg, meant) == [proc |-> proc, at |-> at, arg |-> arg, meant |-> meant]
NoMeaning == 0

InStack(proc) == \E i \in DOMAIN stack : stack[i].proc = proc
Waiting(kind) == \E i \in DOMAIN queue : queue[i].kind = kind
Running(proc) == stack # <<>> /\ Head(stack).proc = proc

\* The thread takes messages: in its main loop, or in a pump.
Pumping ==
    \/ stack = <<>>
    \/ Running("switch_desktop")
    \/ Running("close_overview") /\ Head(stack).at \in {"pump", "pump again"}

Receives(kind) == Pumping /\ queue # <<>> /\ Head(queue).kind = kind

\* A pump returns when there is nothing left.
Drained(proc, at) == Running(proc) /\ Head(stack).at = at /\ queue = <<>>

Press ==
    /\ Pumping
    /\ keys < MaxKeys
    /\ keys' = keys + 1

\* core_switch_desktop, called from a stack: it refuses, or it gets to its pump.
SwitchDesktop(d, s) ==
    IF d \notin 1..NDesks \/ d = desk \/ InStack("switch_desktop")
    THEN s
    ELSE <<Frame("switch_desktop", "pump", d, NoMeaning)>> \o s

\* SwitchToThisWindow; what is no window is no error.
Raised(w) ==
    IF Contains(zorder, w)
    THEN LET place == CHOOSE i \in DOMAIN zorder : zorder[i] = w
         IN  [i \in DOMAIN zorder |->
                IF i = 1 THEN w ELSE IF i <= place THEN zorder[i - 1] ELSE zorder[i]]
    ELSE zorder

\* EnumWindows, with the windows of workspace d: a set that holds the one list of them.
WindowsOf(d) ==
    {[k \in DOMAIN s |-> zorder[s[k]]] :
        s \in Ascending({i \in DOMAIN zorder : d \in HomeOf[zorder[i]]})}

InitMainThread ==
    /\ queue = <<>> /\ stack = <<>>
    /\ desk \in 1..NDesks
    /\ zorder \in SetToSeqs(Windows)
    /\ keys = 0
=============================================================================
