------------------------------- MODULE Launcher -------------------------------
(***************************************************************************)
(* The launcher plugin (launcher.cpp): a window to type in, a search       *)
(* thread for every change of the text, an index of the user's files that  *)
(* the searches read and an indexer thread replaces, and the list of the   *)
(* commands run, kept in the registry.                                     *)
(*                                                                         *)
(* The main thread runs the window procedures and the timer call-backs.    *)
(* Execute may show a dialog, and then runs a message loop inside launch.  *)
(*                                                                         *)
(* Abstractions: a command is the text that finds it; every text but the   *)
(* empty one has one match in a readable index; the order of the results   *)
(* and the selection are left open, the user runs any of those shown.      *)
(***************************************************************************)
EXTENDS Mru, FiniteSets

CONSTANTS
    Texts,       \* what can be typed
    Empty,       \* the empty text
    World,       \* optional behaviour, see below
    StartExecs,  \* what there may be of an index at first: none, or an old one
    StartMru,    \* RunMRU at first: MRUList and the values, several to choose from
    MaxRid,      \* bound: searches
    MaxWindows   \* bound: launcher windows of a session

(***************************************************************************)
(* "modal": Execute may run a message loop.  "crash": the shell is killed  *)
(* and starts again.  "torn": that may also happen between two writes to   *)
(* the registry.  "files": documents change.  "quick": an indexer may end  *)
(* before CreateThread has returned to its caller.                         *)
(***************************************************************************)
ASSUME WorldAssumption == World \subseteq {"modal", "crash", "torn", "files", "quick"}

Commands == Texts \cup {Empty}

\* No index that was half made is left from before, and MRUList has a letter for
\* each of its commands.
ASSUME StartAssumption ==
    /\ StartExecs \subseteq {"none", "old"}
    /\ \A mru \in StartMru :
         /\ mru.list \in Seq(Letters) /\ Len(mru.list) <= MaxMru
         /\ mru.values \in [Letters -> Commands \cup {NoValue}]
ASSUME BoundsAssumption == MaxWindows \in Nat
ASSUME NoValueAssumption == NoValue \notin Commands

Item(kind, cmd, mru) == [kind |-> kind, cmd |-> cmd, mru |-> mru, freed |-> FALSE]
NoItem == Item("none", Empty, FALSE)
NoResults == [rid |-> 0, text |-> Empty, hit |-> FALSE, mru |-> {}, got |-> FALSE]
Files == {"none", "partial", "old", "new"}

VARIABLES
    \* Main thread.
    text, rid, last_rid,
    curr_results,       \* NoResults is the null pointer
    switch_wnd,         \* the last window made; it may be gone
    open,               \* launcher windows on the screen
    messages,           \* WM_USER messages on their way, with their window
    launching,          \* what launch is executing
    storing,            \* a command whose letter is stored and not yet its value
    \* Search threads and the indexer thread.
    searches,
    indexer,            \* where the indexer is
    indexer_thread,     \* its handle is set
    creating,           \* the main thread is inside CreateThread
    \* On disk, and in the registry.
    execs, tmp,         \* the index, and the one being made
    mrulist, values,
    quiet               \* nobody types, and nothing changes, any more

ui == <<text, rid, last_rid, curr_results, switch_wnd, open, messages>>
run == <<launching, storing, mrulist, values>>
index == <<indexer, indexer_thread, creating, execs, tmp>>
vars == <<ui, run, index, searches, quiet>>

\* Execute reports an error in a message box, and waits for a DDE conversation
\* to end; both take messages.
MessageLoop == "modal" \in World

\* The main thread takes messages.
Pumping ==
    /\ ~creating
    /\ storing = NoValue
    /\ launching # NoItem => MessageLoop

-----------------------------------------------------------------------------
(***************************************************************************)
(* The window.                                                             *)
(***************************************************************************)
kick_off_update(t) ==
    /\ rid < MaxRid
    /\ rid' = rid + 1
    /\ searches' = searches \cup
         {[rid |-> rid, text |-> t, phase |-> "start", hit |-> FALSE]}

show_launcher ==
    /\ Pumping /\ ~quiet
    /\ switch_wnd < MaxWindows
    /\ switch_wnd' = switch_wnd + 1
    /\ open' = open \cup {switch_wnd'}
    /\ text' = Empty
    /\ kick_off_update(Empty)
    /\ UNCHANGED <<last_rid, curr_results, messages, run, index, quiet>>

\* EN_CHANGE, of the last window's edit control only.
Type(t) ==
    /\ Pumping /\ ~quiet
    /\ switch_wnd \in open
    /\ t # text
    /\ text' = t
    /\ kick_off_update(t)
    /\ UNCHANGED <<last_rid, curr_results, switch_wnd, open, messages, run,
                   index, quiet>>

\* The results that launch looks at are freed under it.
Freed(p) == IF p.kind = "item" THEN [p EXCEPT !.freed = TRUE] ELSE p

NewestAnyway(m) == TRUE               \* mutant: results in any order
Newest(m) == m.rid >= last_rid

\* WM_USER: a search has ended.
OnResults ==
    /\ Pumping
    /\ messages # <<>>
    /\ messages' = Tail(messages)
    /\ LET m == Head(messages)
       IN  IF Newest(m)
           THEN /\ curr_results' = [rid |-> m.rid, text |-> m.text, hit |-> m.hit,
                                    mru |-> m.mru, got |-> TRUE]
                /\ last_rid' = m.rid
                /\ launching' = Freed(launching)
           ELSE UNCHANGED <<curr_results, last_rid, launching>>
    /\ UNCHANGED <<text, rid, switch_wnd, open, searches, storing, mrulist,
                   values, index, quiet>>

\* DestroyWindow(switch_wnd), and WM_DESTROY.  The messages of the last window,
\* which are the last ones of the queue, go with it.
DropMessages(w) ==
    \E n \in 0..Len(messages) :
        /\ \A i \in DOMAIN messages : messages[i].win = w <=> i > n
        /\ messages' = SubSeq(messages, 1, n)

DestroySwitchWnd ==
    /\ open' = open \ {switch_wnd}
    /\ DropMessages(switch_wnd)
    /\ curr_results' = IF switch_wnd \in open THEN NoResults ELSE curr_results

\* Escape, in the edit control of any of the windows.
Escape ==
    /\ Pumping /\ ~quiet
    /\ open # {}
    /\ DestroySwitchWnd
    /\ launching' = IF switch_wnd \in open THEN Freed(launching) ELSE launching
    /\ UNCHANGED <<text, rid, last_rid, switch_wnd, searches, storing, mrulist,
                   values, index, quiet>>

-----------------------------------------------------------------------------
(***************************************************************************)
(* launch.                                                                 *)
(***************************************************************************)
Suggested == curr_results.mru # {} \/ curr_results.hit

\* Enter.  A result from the index is not entered into RunMRU.
Enter ==
    /\ Pumping /\ ~quiet
    /\ launching = NoItem
    /\ open # {}
    /\ \/ \E c \in curr_results.mru : launching' = Item("item", c, TRUE)
       \/ curr_results.hit /\ launching' = Item("item", curr_results.text, FALSE)
       \/ ~Suggested /\ text # Empty /\ launching' = Item("typed", Empty, TRUE)
    /\ UNCHANGED <<ui, searches, storing, mrulist, values, index, quiet>>

\* Enter, with nothing to run.
EnterNothing ==
    /\ Pumping /\ ~quiet
    /\ launching = NoItem
    /\ open # {}
    /\ ~Suggested
    /\ text = Empty
    /\ DestroySwitchWnd
    /\ UNCHANGED <<text, rid, last_rid, switch_wnd, searches, run, index, quiet>>

\* What launch enters into RunMRU: the text as it is now, or the item, of which
\* anything may be read once it is freed.
ToRemember ==
    IF launching.kind = "typed" THEN {text}
    ELSE IF launching.freed THEN Commands
    ELSE {launching.cmd}

MayRemember == launching.mru \/ launching.freed
MayForget == ~launching.mru \/ launching.freed

Remember(cmd) ==
    LET i == Found(mrulist, values, cmd)
    IN  IF i > 0
        THEN mrulist' = Bumped(mrulist, i) /\ UNCHANGED storing
        ELSE mrulist' = Added(mrulist) /\ storing' = cmd

ExecuteReturns ==
    /\ ~creating
    /\ launching # NoItem
    /\ launching' = NoItem
    /\ DestroySwitchWnd
    /\ \/ MayRemember /\ \E cmd \in ToRemember : Remember(cmd)
       \/ MayForget /\ UNCHANGED <<mrulist, storing>>
    /\ UNCHANGED <<text, rid, last_rid, switch_wnd, searches, values, index, quiet>>

StoreValue ==
    /\ storing # NoValue
    /\ values' = [values EXCEPT ![mrulist[1]] = storing]
    /\ storing' = NoValue
    /\ UNCHANGED <<ui, launching, mrulist, searches, index, quiet>>

-----------------------------------------------------------------------------
(***************************************************************************)
(* A search thread: find_match and on_notify(WZN_ON_LAUNCHER_TEXT).  The   *)
(* index is opened with no sharing, so that while one thread reads it      *)
(* another finds nothing, and nobody can delete it.                        *)
(***************************************************************************)
Readers == {s \in searches : s.phase = "reading"}

\* CreateFile with OPEN_EXISTING and share mode 0.
GetPluginBlobHandle == execs # "none" /\ Readers = {}

OpenIndex(s) ==
    /\ s.phase = "start"
    /\ s.text # Empty
    /\ LET opened == GetPluginBlobHandle
           t == [s EXCEPT !.phase = IF opened THEN "reading" ELSE "read",
                          !.hit = opened /\ execs # "partial"]
       IN  searches' = (searches \ {s}) \cup {t}
    /\ UNCHANGED <<ui, run, index, quiet>>

MruMatches(t) ==
    {values[l] : l \in Letters} \cap (IF t = Empty THEN Commands ELSE {t})

\* The window is the one there is when the search ends; the results for a window
\* that is gone are lost.
FinishSearch(s) ==
    /\ s.phase \in {"reading", "read"} \/ s.text = Empty
    /\ searches' = searches \ {s}
    /\ messages' = IF switch_wnd \notin open THEN messages
                   ELSE Append(messages,
                               [win |-> switch_wnd, rid |-> s.rid, text |-> s.text,
                                hit |-> s.hit, mru |-> MruMatches(s.text)])
    /\ UNCHANGED <<text, rid, last_rid, curr_results, switch_wnd, open, run,
                   index, quiet>>

-----------------------------------------------------------------------------
(***************************************************************************)
(* The indexer: indexing_run, indexer and on_notify(WZN_ON_LAUNCHER_INDEX).*)
(***************************************************************************)
\* The call-back of the main thread; it is scheduled again each time.
indexing_run ==
    /\ Pumping
    /\ ~indexer_thread
    /\ creating' = TRUE
    /\ indexer' = "scan"
    /\ UNCHANGED <<ui, run, searches, indexer_thread, execs, tmp, quiet>>

ThreadCreated ==
    /\ creating
    /\ creating' = FALSE
    /\ indexer_thread' = TRUE
    /\ UNCHANGED <<ui, run, searches, indexer, execs, tmp, quiet>>

ScanInPlace ==                        \* mutant: no temporary file
    execs' = "partial" /\ UNCHANGED tmp

ScanFiles == tmp' = "partial" /\ UNCHANGED execs

BeginScan ==
    /\ indexer = "scan"
    /\ indexer' = "write"
    /\ ScanFiles
    /\ UNCHANGED <<ui, run, searches, indexer_thread, creating, quiet>>

EndScan ==
    /\ indexer = "write"
    /\ indexer' = "delete"
    /\ tmp' = "new"
    /\ UNCHANGED <<ui, run, searches, indexer_thread, creating, execs, quiet>>

\* DeleteFile fails while a search reads the file.
DeleteIndex ==
    /\ indexer = "delete"
    /\ indexer' = "move"
    /\ execs' = IF Readers = {} THEN "none" ELSE execs
    /\ UNCHANGED <<ui, run, searches, indexer_thread, creating, tmp, quiet>>

\* MoveFile fails when there still is an index.
MoveIndex ==
    /\ indexer = "move"
    /\ indexer' = "clear"
    /\ IF execs = "none" THEN execs' = tmp /\ tmp' = "none"
       ELSE UNCHANGED <<execs, tmp>>
    /\ UNCHANGED <<ui, run, searches, indexer_thread, creating, quiet>>

EndIndexerOnce ==                     \* mutant: indexer_thread is not reset
    /\ indexer = "clear"
    /\ ~creating
    /\ indexer' = "off"
    /\ UNCHANGED <<ui, run, searches, creating, indexer_thread, execs, tmp, quiet>>

EndIndexer ==
    /\ indexer = "clear"
    /\ creating => "quick" \in World
    /\ indexer' = "off"
    /\ indexer_thread' = FALSE
    /\ UNCHANGED <<ui, run, searches, creating, execs, tmp, quiet>>

-----------------------------------------------------------------------------
\* Documents change while no index is being made; those of a running scan count
\* for the next one.
FilesChange ==
    /\ "files" \in World /\ ~quiet
    /\ indexer = "off"
    /\ execs = "new"
    /\ execs' = "old"
    /\ UNCHANGED <<ui, run, searches, indexer, indexer_thread, creating, tmp, quiet>>

\* The shell is killed, and starts anew.
Crash ==
    /\ "crash" \in World /\ ~quiet
    /\ storing # NoValue => "torn" \in World
    /\ text' = Empty /\ last_rid' = 0  \* rid goes on: only its order is looked at
    /\ curr_results' = NoResults
    /\ switch_wnd' = 0 /\ open' = {} /\ messages' = <<>>
    /\ launching' = NoItem /\ storing' = NoValue
    /\ searches' = {}
    /\ indexer' = "off" /\ indexer_thread' = FALSE /\ creating' = FALSE
    /\ UNCHANGED <<rid, execs, tmp, mrulist, values, quiet>>

Settle ==
    /\ ~quiet
    /\ quiet' = TRUE
    /\ UNCHANGED <<ui, run, index, searches>>

Init ==
    /\ text = Empty /\ rid = 0 /\ last_rid = 0
    /\ curr_results = NoResults
    /\ switch_wnd = 0 /\ open = {} /\ messages = <<>>
    /\ launching = NoItem /\ storing = NoValue
    /\ searches = {}
    /\ indexer = "off" /\ indexer_thread = FALSE /\ creating = FALSE
    /\ execs \in StartExecs /\ tmp = "none"
    /\ \E mru \in StartMru : mrulist = mru.list /\ values = mru.values
    /\ quiet = FALSE

UiStep == show_launcher \/ Escape \/ Enter \/ EnterNothing \/ \E t \in Commands : Type(t)
MainStep == OnResults \/ ExecuteReturns \/ StoreValue \/ ThreadCreated
SearchStep == \E s \in searches : OpenIndex(s) \/ FinishSearch(s)
IndexerStep == BeginScan \/ EndScan \/ DeleteIndex \/ MoveIndex \/ EndIndexer

Next == UiStep \/ MainStep \/ SearchStep \/ IndexerStep \/ indexing_run
            \/ FilesChange \/ Crash \/ Settle

\* Threads run, the main thread takes its messages, and the timer rings.
Fairness == WF_vars(MainStep) /\ WF_vars(SearchStep) /\ WF_vars(IndexerStep)
                /\ WF_vars(indexing_run)

Spec == Init /\ [][Next]_vars /\ Fairness

-----------------------------------------------------------------------------
(***************************************************************************)
(* Properties.                                                             *)
(***************************************************************************)
Settled ==
    /\ searches = {} /\ messages = <<>> /\ launching = NoItem
    /\ switch_wnd \in open

TypeOK ==
    /\ text \in Commands /\ rid \in Nat /\ last_rid \in Nat
    /\ switch_wnd \in 0..MaxWindows /\ open \subseteq 1..switch_wnd
    /\ \A s \in searches : s.rid < rid
    /\ \A i \in DOMAIN messages : messages[i].win \in open
    /\ Cardinality(Readers) <= 1
    /\ execs \in Files /\ tmp \in Files
    /\ mrulist \in Seq(Letters)
    /\ values \in [Letters -> Commands \cup {NoValue}]

\* Once the searches are over, what is shown was found for the text in the
\* window, in whatever order they ended ("ensure that we're looking at the
\* latest results", launcher.cpp:686), and however many windows there were.
SettledShowsTyped == Settled => curr_results.got /\ curr_results.text = text

\* The index that searches open is a complete one, also when the shell was
\* killed while a new one was made.
IndexIsWhole == TypeOK /\ execs # "partial"

\* RunMRU is the list of the last commands run, each one once, the last one
\* first.  Between its two writes the list is the one before.
Listed ==
    LET word == IF storing = NoValue THEN mrulist
                ELSE IF values[mrulist[1]] = NoValue THEN Tail(mrulist)
                ELSE Append(Tail(mrulist), mrulist[1])
    IN  [i \in DOMAIN word |-> values[word[i]]]
View == INSTANCE MruView WITH recent <- Listed
RunMruIsRecent == View!Spec

\* The index keeps up with the files ("The launcher will create an index of
\* your programs and documents every 20 minutes", web/changelog.php:78), once
\* the user lets it: a search that reads it cannot keep it from being replaced
\* for good, and no killed indexer either.
IndexKeepsUp == quiet ~> execs = "new"
=============================================================================
