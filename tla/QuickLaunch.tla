----------------------------- MODULE QuickLaunch -----------------------------
(***************************************************************************)
(* The quick launch bar (quicklaunch.cpp): the shortcuts of a directory,   *)
(* read when the plugin starts and again only when the user clicks beside  *)
(* the icons or types a key; the watch on the directory is compiled out.   *)
(*                                                                         *)
(* A file is an index into Files, in the order of the directory.  Of a     *)
(* rectangle only the icon size it was computed with is kept: with the     *)
(* index it decides the place along the slit.  Execute, which runs a       *)
(* message loop while a box is up, comes last in its handler and changes   *)
(* nothing of the plugin.                                                  *)
(***************************************************************************)
EXTENDS Naturals, Sequences, Subsequences

CONSTANTS Files,       \* sequence of [hidden, icon, wide, dot]: see FileType
          Pad          \* ICON_PAD

FileType == [hidden : BOOLEAN,     \* hidden, or a directory
             icon : BOOLEAN,       \* SHGetFileInfo finds it an icon
             wide : Nat,           \* the width of the icon, 0 when not known
             dot : BOOLEAN]        \* its name has a dot
ASSUME QuickLaunchAssumption == Files \in Seq(FileType) /\ Pad \in Nat

VARIABLES
    dir,               \* the system: the files that are there
    ql                 \* the plugin: see NoLinks

\* items; those under the mouse; icons not destroyed; the tools of the tool tip
\* window; ICON_SIZE; the size of the window; whether the program runs.
NoLinks == [items |-> <<>>, hot |-> {}, icons |-> {}, tools |-> {}, size |-> 32,
            width |-> 48, length |-> 40, up |-> TRUE]

\* The files that get an item: seen, and with an icon.
Listing == {x \in dir : ~Files[x].hidden /\ Files[x].icon}

-----------------------------------------------------------------------------
\* The items of the last scan go, with their icons and tool tips.
KeepTips(q) == [q EXCEPT !.items = <<>>, !.hot = {}, !.icons = {}]  \* mutant: tools stay
Forget(q) ==
    [q EXCEPT !.items = <<>>, !.hot = {}, !.icons = {},
              !.tools = {t \in @ : t.id > Len(q.items)}]

\* ICON_SIZE once the loop of scan_dir has come to item k: the width of the last
\* icon that has one.
SizeAt(q, its, k) ==
    LET known == {j \in 1..k : Files[its[j]].wide # 0}
    IN  IF known = {} THEN q.size
        ELSE Files[its[CHOOSE j \in known : \A m \in known : m <= j]].wide

\* The loop of scan_dir: the size changes before the tool tip is placed, and the
\* tool tips placed before it stay.
ScanFiles(q, its) ==
    [q EXCEPT !.items = its, !.icons = Listing, !.size = SizeAt(q, its, Len(its)),
              !.tools = @ \cup {[id |-> k, text |-> its[k], size |-> SizeAt(q, its, k)] :
                                   k \in 1..Len(its)}]

Measure(q) ==
    [q EXCEPT !.width = q.size + q.size \div 2,
              !.length = Pad + (q.size + Pad) * Len(q.items)]

\* scan_dir.  The search for a dot in a name without one runs back beyond the
\* string: it may end the program, or find one there and change nothing.
scan_dir(q) ==
    {[Measure(ScanFiles(Forget(q), its)) EXCEPT !.up = u] :
        its \in Ascending(Listing),
        u \in {b \in BOOLEAN : ~b => \E x \in Listing : ~Files[x].dot}}

-----------------------------------------------------------------------------
\* calc_item_rect and PtInRect: icon i has the pixels from Pad + (i-1)(size+Pad);
\* the plugin never asks to be told that the mouse has left.
Over(at) == {i \in DOMAIN ql.items :
               at \in (Pad + (i - 1) * (ql.size + Pad)) .. (i * (ql.size + Pad) - 1)}

\* WM_MOUSEMOVE.
LinksMouse(at) ==
    /\ ql.up /\ at < ql.length
    /\ ql' = [ql EXCEPT !.hot = Over(at)]
    /\ UNCHANGED dir

\* WM_LBUTTONUP: an item is run, whether its file is still there or not, and the
\* plugin stays as it is; beside the items, the directory is read again.
LinksClick(at) ==
    /\ ql.up /\ at < ql.length
    /\ IF Over(at) = {} THEN ql' \in scan_dir(ql)
       ELSE UNCHANGED ql
    /\ UNCHANGED dir

\* WM_KEYUP.
LinksKey ==
    /\ ql.up
    /\ ql' \in scan_dir(ql)
    /\ UNCHANGED dir

\* unload: the icons go; the tool tip window and its tools stay.
LinksUnload == [ql EXCEPT !.items = <<>>, !.icons = {}, !.hot = {}, !.up = FALSE]

\* A pixel between the icons, and one in each.
Spots == {0} \cup {Pad + (i - 1) * (ql.size + Pad) : i \in DOMAIN ql.items}
LinksNext == (\E at \in Spots : LinksMouse(at) \/ LinksClick(at)) \/ LinksKey

\* The system, at any time: a file comes or goes.
DirectoryChanges ==
    /\ \E x \in DOMAIN Files : dir' = IF x \in dir THEN dir \ {x} ELSE dir \cup {x}
    /\ UNCHANGED ql

-----------------------------------------------------------------------------
\* The bar is whole: its tool tips are one for each icon, with its text and,
\* where the icons are all of one size, over it (quicklaunch.cpp:54-134); no
\* icon in use has been destroyed and none is forgotten; the window ends after
\* the last icon, and at most one icon is hot, whatever the directory did since.
LinksAreWhole ==
    LET n == Len(ql.items)
        sized == {ql.items[i] : i \in 1..n}
    IN  ql.up =>
        /\ {t.id : t \in ql.tools} = 1..n
        /\ \A t \in ql.tools : t.text = ql.items[t.id]
        /\ \A s, t \in ql.tools : s.id = t.id => s = t
        /\ (\A x, y \in sized : Files[x].wide = Files[y].wide /\ Files[x].wide # 0)
              => \A t \in ql.tools : t.size = ql.size
        /\ ql.icons = sized
        /\ \A i \in ql.hot : i <= n /\ ql.hot = {i}
        /\ ql.length = Pad + n * (ql.size + Pad)
=============================================================================
