-------------------------------- MODULE Tray --------------------------------
(***************************************************************************)
(* The notification area: the core's list of icons (coretray.cpp), and the *)
(* tray plugin's own copy of it with its tool tips and balloons (tray.cpp).*)
(*                                                                         *)
(* An application's Shell_NotifyIcon reaches tray_proc as one WM_COPYDATA; *)
(* the core updates its item and calls the plugin's on_tray_change before  *)
(* it answers, so a request is one step of both.                           *)
(*                                                                         *)
(* Abstractions: an icon is named by its (hWnd, uID); of NOTIFYICONDATA    *)
(* only what the properties tell apart is kept; a rectangle is the index   *)
(* of the icon among the visible ones.                                     *)
(***************************************************************************)
EXTENDS Naturals, FiniteSets, SequencesExt

CONSTANTS
    Icons,      \* the (hWnd, uID) pairs of the applications
    Pictures,   \* what an icon can show
    Texts,      \* what a balloon can say
    None,       \* no picture, no text
    MaxFlags    \* bound: flags an application sets in one request

ASSUME NoneAssumption == None \notin Pictures \cup Texts

Flags == {"ICON", "TIP", "STATE", "INFO"}

\* What is kept of a NOTIFYICONDATA: of the flags, those somebody tests.
Data == [flags : SUBSET {"TIP", "INFO"}, icon : Pictures \cup {None},
         hidden : BOOLEAN, text : Texts \cup {None}]
Blank == [flags |-> {}, icon |-> None, hidden |-> FALSE, text |-> None]

VARIABLES
    items,      \* tray_items: the icons in order of arrival
    ni,         \* the core's data of each icon
    plug        \* the plugin: tools, their data, tips, balloons

vars == <<items, ni, plug>>

\* tools, balloons: pointer vectors; data: tool->icon; tip: the index a tool tip
\* is registered at, 0 for none (tipvalid); due: a deadline was set; shown: the
\* balloon window is up.
PlugType == [tools : Seq(Icons), data : [Icons -> Data],
             tip : [Icons -> Nat], balloons : Seq(Icons),
             due : SUBSET Icons, shown : BOOLEAN]

Elems(s) == {s[i] : i \in DOMAIN s}
IndexIn(s, k) == CHOOSE i \in DOMAIN s : s[i] = k
Without(s, k) == IF k \in Elems(s) THEN RemoveAt(s, IndexIn(s, k)) ELSE s

-----------------------------------------------------------------------------
(***************************************************************************)
(* The plugin (tray.cpp).  Its state is a record, so that the core can     *)
(* call it more than once in a step.                                       *)
(***************************************************************************)
Visible(p, k) == k \in Elems(p.tools) /\ ~p.data[k].hidden

\* Which of the visible icons it is, 0 for none of them.
Place(p, k) == IF ~Visible(p, k) THEN 0
               ELSE Cardinality({j \in 1..IndexIn(p.tools, k) : ~p.data[p.tools[j]].hidden})

ForgetfulRecalc(p) ==                 \* mutant: a moved tool tip is not moved
    [p EXCEPT !.tip =
        [k \in Icons |-> IF p.tip[k] # 0 THEN p.tip[k]
                         ELSE IF "TIP" \in p.data[k].flags THEN Place(p, k)
                         ELSE 0]]

\* A tool tip whose icon has moved is registered anew, one whose icon is hidden
\* is dropped, one whose icon stays put is kept if the icon still has a tip.
recalc(p) ==
    LET Moved(k) == p.tip[k] # 0 /\ p.tip[k] # Place(p, k)
        Wants(k) == Moved(k) \/ "TIP" \in p.data[k].flags
    IN  [p EXCEPT !.tip =
            [k \in Icons |-> IF Wants(k) THEN Place(p, k) ELSE 0]]

show_balloon(p, k) == [p EXCEPT !.due = @ \cup {k}, !.shown = TRUE]

\* NIM_DELETE: the tool goes, out of the balloon queue too.
DropTool(p, k) ==
    recalc([p EXCEPT !.tools = Without(@, k), !.balloons = Without(@, k),
                     !.data[k] = Blank, !.tip[k] = 0, !.due = @ \ {k}])

\* An icon that had a balloon sends an empty text: only the queue is changed.
ClearBalloon(p, k) ==
    LET q == [p EXCEPT !.balloons = Without(@, k)]
    IN  IF q.balloons = <<>> THEN [q EXCEPT !.shown = FALSE]
        ELSE IF q.balloons[1] # p.balloons[1] THEN show_balloon(q, q.balloons[1])
        ELSE q

\* An icon that had a balloon sends another text.
NextBalloon(p, k, d) ==
    LET queued == k \in p.due \/ k \in Elems(p.balloons)
        q == [p EXCEPT !.data[k] = d,
                       !.balloons = IF queued THEN @ ELSE Append(@, k)]
    IN  IF q.balloons = <<>> THEN [q EXCEPT !.shown = FALSE]
        ELSE IF q.balloons[1] = k THEN show_balloon(q, k)
        ELSE q

\* on_tray_change for NIM_ADD and NIM_MODIFY, with nid = d.  An icon that has
\* been sent is a new copy, and never equal to the one before.
SetTool(p, k, d, changemask) ==
    LET q == IF k \in Elems(p.tools) THEN p
             ELSE [p EXCEPT !.tools = Append(@, k)]
    IN  IF q.data[k] = d /\ "ICON" \notin changemask THEN q
        ELSE IF "INFO" \in changemask \cap q.data[k].flags
        THEN IF d.text # None THEN recalc(NextBalloon(q, k, d))
             ELSE ClearBalloon(q, k)
        ELSE recalc([q EXCEPT !.data[k] = d])

TrayDeleted(p, k) == IF k \in Elems(p.tools) THEN DropTool(p, k) ELSE p

-----------------------------------------------------------------------------
(***************************************************************************)
(* The core (coretray.cpp).                                                *)
(***************************************************************************)
\* The item's data after the request has been copied in, field by field.
Merge(old, req) ==
    [flags |-> old.flags \cup (req.flags \cap {"TIP", "INFO"}),
     icon |-> IF "ICON" \in req.flags THEN req.icon ELSE old.icon,
     hidden |-> IF "STATE" \in req.flags THEN req.hidden ELSE old.hidden,
     text |-> IF "INFO" \in req.flags THEN req.text ELSE old.text]

\* What an application sends: a field without its flag is not looked at.
Requests ==
    {r \in [flags : SUBSET Flags, icon : Pictures \cup {None},
            hidden : BOOLEAN, text : Texts \cup {None}] :
        /\ Cardinality(r.flags) <= MaxFlags
        /\ r.icon # None <=> "ICON" \in r.flags
        /\ r.hidden => "STATE" \in r.flags
        /\ r.text # None => "INFO" \in r.flags}

\* NIM_ADD: an icon already there is deleted, which the plugin is told of by the
\* destructor, and a new item is made.  (drop_zombies finds none: cbSize, which
\* it tests, is never set in an item.)
Replaced(p, k) == TrayDeleted(p, k)

NimAdd(k, req) ==
    /\ items' = Append(Without(items, k), k)
    /\ ni' = [ni EXCEPT ![k] = Merge(Blank, req)]
    /\ plug' = SetTool(IF k \in Elems(items) THEN Replaced(plug, k) ELSE plug,
                       k, ni'[k], req.flags)

\* NIM_MODIFY: refused for an icon that is not there.
NimModify(k, req) ==
    /\ k \in Elems(items)
    /\ ni' = [ni EXCEPT ![k] = Merge(ni[k], req)]
    /\ plug' = SetTool(plug, k, ni'[k], req.flags)
    /\ UNCHANGED items

\* NIM_DELETE: the plugin is told by remove_icon, and again by the destructor.
NimDelete(k) ==
    /\ k \in Elems(items)
    /\ items' = Without(items, k)
    /\ ni' = [ni EXCEPT ![k] = Blank]
    /\ plug' = TrayDeleted(TrayDeleted(plug, k), k)

\* The balloon is clicked on, or its deadline is over: next_balloon hides the
\* window and returns; what follows in it never runs.
BalloonOver ==
    /\ plug.shown
    /\ plug' = [plug EXCEPT !.shown = FALSE]
    /\ UNCHANGED <<items, ni>>

\* initialize of the plugin: the tray is empty, and the balloon window hidden.
Started == [tools |-> <<>>, data |-> [k \in Icons |-> Blank],
            tip |-> [k \in Icons |-> 0], balloons |-> <<>>,
            due |-> {}, shown |-> FALSE]

Init ==
    /\ items = <<>>
    /\ ni = [k \in Icons |-> Blank]
    /\ plug = Started

Next ==
    \/ \E k \in Icons, req \in Requests : NimAdd(k, req) \/ NimModify(k, req)
    \/ \E k \in Icons : NimDelete(k)
    \/ BalloonOver

Spec == Init /\ [][Next]_vars

-----------------------------------------------------------------------------
TypeOK ==
    /\ items \in Seq(Icons)
    /\ ni \in [Icons -> Data]
    /\ \A k \in Icons \ Elems(items) : ni[k] = Blank
    /\ plug \in PlugType

\* The plugin shows the icons the core has, each once and in the same order,
\* though it keeps a list of its own and hears of a deletion twice, or of a
\* replacement as a deletion and an addition.
SameIcons == plug.tools = items

\* No queued balloon is a tool that has been deleted (the vector holds
\* pointers), and none is queued twice.
BalloonsAreTools ==
    /\ Elems(plug.balloons) \subseteq Elems(plug.tools)
    /\ Cardinality(Elems(plug.balloons)) = Len(plug.balloons)

\* Every visible icon with a tip has its tool tip over the place it is painted
\* at, also after an icon before it is hidden, shown or removed; no other tool
\* tip is left behind.
TipsInPlace ==
    \A k \in Icons : plug.tip[k] =
        IF Visible(plug, k) /\ "TIP" \in plug.data[k].flags THEN Place(plug, k) ELSE 0

\* The panel is whole: however additions, replacements, changes and removals
\* follow each other (on_tray_change, tray.cpp:590-700), the plugin's vector, its
\* queue of pointers and its tool tips by place all agree with the core's list.
PanelIsWhole == TypeOK /\ SameIcons /\ BalloonsAreTools /\ TipsInPlace
=============================================================================
