---------------------------- MODULE LauncherProofs ----------------------------
(***************************************************************************)
(* Proofs about Launcher, for any texts, any length of RunMRU and any      *)
(* bounds: the index on disk is never a half made one, and what is shown   *)
(* once the searches are over was found for the text in the window.        *)
(*                                                                         *)
(* Neither is inductive.  For the first, an indexer that is about to       *)
(* delete or to move must be known to have made a whole file.  For the     *)
(* second, the result of the latest search must be followed through its    *)
(* thread, its message and the results shown: Pending and LatestText say   *)
(* where it is and what it was found for, and NotNewer that no result is   *)
(* later than it.                                                          *)
(*                                                                         *)
(* The last part shows that RunMRU is MruView's list of recent commands,   *)
(* as long as it was in order at the start and no kill comes between the   *)
(* two writes of a new command (InOrder).                                  *)
(***************************************************************************)
EXTENDS Launcher, FiniteSetTheorems, SequenceTheorems, TLAPS

SEARCH == [rid : Nat, text : Commands, phase : {"start", "reading", "read"}, hit : BOOLEAN]
MESSAGE == [win : Nat, rid : Nat, text : Commands, hit : BOOLEAN, mru : SUBSET Commands]
RESULTS == [rid : Nat, text : Commands, hit : BOOLEAN, mru : SUBSET Commands, got : BOOLEAN]
ITEM == [kind : {"none", "item", "typed"}, cmd : Commands, mru : BOOLEAN, freed : BOOLEAN]

UiTypes ==
    /\ text \in Commands /\ rid \in Nat /\ last_rid \in Nat
    /\ switch_wnd \in 0..MaxWindows /\ open \subseteq 1..switch_wnd
    /\ searches \subseteq SEARCH
    /\ messages \in Seq(MESSAGE)
    /\ curr_results \in RESULTS
    /\ launching \in ITEM
MruTypes ==
    /\ mrulist \in Seq(Letters) /\ Len(mrulist) <= MaxMru
    /\ values \in [Letters -> Commands \cup {NoValue}]
    /\ storing \in Commands \cup {NoValue}
    /\ storing # NoValue => mrulist # <<>>
InWindow ==
    /\ \A s \in searches : s.rid < rid
    /\ \A i \in DOMAIN messages : messages[i].win \in open /\ messages[i].rid < rid
OneReader ==
    \A s, t \in searches : s.phase = "reading" /\ t.phase = "reading" => s = t

WholeIndex ==
    /\ execs \in Files \ {"partial"} /\ tmp \in Files
    /\ indexer \in {"delete", "move"} => tmp = "new"

NotNewer ==
    /\ last_rid < rid \/ (rid = 0 /\ last_rid = 0)
    /\ curr_results.got => curr_results.rid = last_rid /\ last_rid < rid
LatestText ==
    /\ \A s \in searches : s.rid + 1 = rid => s.text = text
    /\ \A i \in DOMAIN messages : messages[i].rid + 1 = rid => messages[i].text = text
    /\ curr_results.got /\ curr_results.rid + 1 = rid => curr_results.text = text
Pending ==
    switch_wnd \in open =>
        \/ \E s \in searches : s.rid + 1 = rid
        \/ \E i \in DOMAIN messages : messages[i].rid + 1 = rid
        \/ curr_results.got /\ curr_results.rid + 1 = rid

Latest == NotNewer /\ LatestText /\ Pending
IInv == UiTypes /\ MruTypes /\ InWindow /\ OneReader /\ WholeIndex /\ Latest

-----------------------------------------------------------------------------
(* The start.                                                              *)

LEMMA EmptyIsCommand == Empty \in Commands
  BY DEF Commands

LEMMA InitIInv == Init => IInv
<1> SUFFICES ASSUME Init PROVE IInv
  OBVIOUS
<1>1. UiTypes
  BY BoundsAssumption, EmptyIsCommand
     DEF Init, UiTypes, NoResults, NoItem, Item, RESULTS, ITEM
<1>2. MruTypes
  BY StartAssumption DEF Init, MruTypes
<1>3. InWindow /\ OneReader
  BY DEF Init, InWindow, OneReader
<1>4. WholeIndex
  BY StartAssumption DEF Init, WholeIndex, Files
<1>5. Latest
  BY DEF Init, Latest, NotNewer, LatestText, Pending, NoResults
<1> QED BY <1>1, <1>2, <1>3, <1>4, <1>5 DEF IInv

-----------------------------------------------------------------------------
(* The index.                                                              *)

LEMMA IndexStep == ASSUME WholeIndex, [Next]_vars PROVE WholeIndex'
<1> USE DEF WholeIndex, Files
<1>1. CASE UNCHANGED index
  BY <1>1 DEF index
<1>2. CASE indexing_run \/ ThreadCreated
  BY <1>2 DEF indexing_run, ThreadCreated
<1>3. CASE BeginScan
  BY <1>3 DEF BeginScan, ScanFiles
<1>4. CASE EndScan
  BY <1>4 DEF EndScan
<1>5. CASE DeleteIndex
  BY <1>5 DEF DeleteIndex
<1>6. CASE MoveIndex
  BY <1>6 DEF MoveIndex
<1>7. CASE EndIndexer \/ FilesChange \/ Crash
  BY <1>7 DEF EndIndexer, FilesChange, Crash
<1>8. CASE MainStep \/ UiStep \/ SearchStep \/ Settle
  <2>1. ThreadCreated \/ UNCHANGED index
    BY <1>8 DEF MainStep, UiStep, SearchStep, Settle, OnResults, ExecuteReturns, StoreValue,
                show_launcher, Escape, Enter, EnterNothing, Type, OpenIndex, FinishSearch
  <2> QED BY <2>1, <1>1, <1>2
<1> QED BY <1>1, <1>2, <1>3, <1>4, <1>5, <1>6, <1>7, <1>8 DEF Next, IndexerStep, vars

-----------------------------------------------------------------------------
(* RunMRU.                                                                 *)

LEMMA FoundInList ==
    ASSUME MruTypes, NEW cmd
    PROVE  Found(mrulist, values, cmd) \in 0..Len(mrulist)
<1> DEFINE Fits(i) == /\ values[mrulist[i]] = cmd
                      /\ \A j \in 1..(i - 1) : values[mrulist[j]] \notin {cmd, NoValue}
<1>1. DOMAIN mrulist = 1..Len(mrulist)
  BY DEF MruTypes
<1>2. CASE \E i \in DOMAIN mrulist : Fits(i)
  <2>1. Found(mrulist, values, cmd) = CHOOSE i \in DOMAIN mrulist : Fits(i)
    BY <1>2 DEF Found
  <2> QED BY <1>1, <1>2, <2>1
<1>3. CASE ~ \E i \in DOMAIN mrulist : Fits(i)
  BY <1>3 DEF Found, MruTypes
<1> QED BY <1>2, <1>3

LEMMA BumpedIsList ==
    ASSUME MruTypes, NEW i \in 1..Len(mrulist)
    PROVE  Bumped(mrulist, i) \in Seq(Letters) /\ Len(Bumped(mrulist, i)) = Len(mrulist)
<1>1. DOMAIN mrulist = 1..Len(mrulist) /\ Len(mrulist) \in Nat
  BY DEF MruTypes
<1>2. \A n \in 1..Len(mrulist) : mrulist[n] \in Letters
  BY DEF MruTypes
<1>3. Bumped(mrulist, i) \in [1..Len(mrulist) -> Letters]
  BY <1>1, <1>2 DEF Bumped
<1> QED BY <1>1, <1>3, IsASeq

LEMMA AddedIsList ==
    ASSUME MruTypes
    PROVE  /\ Added(mrulist) \in Seq(Letters)
           /\ Len(Added(mrulist)) \in 1..MaxMru
<1> DEFINE n == IF Len(mrulist) = MaxMru THEN MaxMru ELSE Len(mrulist) + 1
<1>1. Len(mrulist) \in Nat /\ n \in 1..MaxMru /\ n - 1 <= Len(mrulist)
  BY MaxMruAssumption DEF MruTypes
<1>2. \A k \in 1..Len(mrulist) : mrulist[k] \in Letters
  BY DEF MruTypes
<1>3. NewName(mrulist) \in Letters
  BY <1>1, <1>2, MaxMruAssumption DEF NewName, Letters, MruTypes
<1>4. Added(mrulist) \in [1..n -> Letters]
  BY <1>1, <1>2, <1>3 DEF Added
<1> QED BY <1>1, <1>4, IsASeq

LEMMA MruStep == ASSUME UiTypes, MruTypes, [Next]_vars PROVE MruTypes'
<1>1. CASE UNCHANGED <<storing, mrulist, values>>
  BY <1>1 DEF MruTypes
<1>2. CASE StoreValue
  <2>1. mrulist[1] \in Letters
    BY <1>2 DEF StoreValue, MruTypes
  <2> QED BY <1>2, <2>1 DEF StoreValue, MruTypes
<1>3. CASE ExecuteReturns
  <2>1. \/ UNCHANGED <<storing, mrulist, values>>
        \/ /\ values' = values
           /\ \E cmd \in ToRemember : Remember(cmd)
    BY <1>3 DEF ExecuteReturns
  <2>2. ToRemember \subseteq Commands
    BY DEF ToRemember, UiTypes, ITEM
  <2>3. ASSUME NEW cmd \in Commands, Remember(cmd), values' = values PROVE MruTypes'
    <3>1. CASE Found(mrulist, values, cmd) > 0
      <4>1. Found(mrulist, values, cmd) \in 1..Len(mrulist)
        BY <3>1, FoundInList DEF MruTypes
      <4>2. mrulist' = Bumped(mrulist, Found(mrulist, values, cmd)) /\ storing' = storing
        BY <2>3, <3>1 DEF Remember
      <4>3. mrulist' \in Seq(Letters) /\ Len(mrulist') = Len(mrulist)
        BY <4>1, <4>2, BumpedIsList
      <4>4. mrulist # <<>> => mrulist' # <<>>
        BY <4>3 DEF MruTypes
      <4> QED BY <2>3, <4>2, <4>3, <4>4 DEF MruTypes
    <3>2. CASE ~ (Found(mrulist, values, cmd) > 0)
      <4>1. mrulist' = Added(mrulist) /\ storing' = cmd
        BY <2>3, <3>2 DEF Remember
      <4>2. mrulist' \in Seq(Letters) /\ Len(mrulist') \in 1..MaxMru
        BY <4>1, AddedIsList
      <4>3. mrulist' # <<>> /\ Len(mrulist') <= MaxMru
        BY <4>2, MaxMruAssumption
      <4> QED BY <2>3, <4>1, <4>2, <4>3 DEF MruTypes
    <3> QED BY <3>1, <3>2
  <2> QED BY <2>1, <2>2, <2>3, <1>1
<1>4. CASE Crash
  BY <1>4 DEF Crash, MruTypes
<1>5. CASE ~StoreValue /\ ~ExecuteReturns /\ ~Crash
  <2>1. UNCHANGED <<storing, mrulist, values>>
    BY <1>5 DEF Next, vars, run, UiStep, MainStep, SearchStep, IndexerStep, indexing_run,
          FilesChange, Settle, OnResults, ThreadCreated, show_launcher, Escape, Enter,
          EnterNothing, Type, OpenIndex, FinishSearch, BeginScan, EndScan, DeleteIndex,
          MoveIndex, EndIndexer
  <2> QED BY <2>1, <1>1
<1> QED BY <1>2, <1>3, <1>4, <1>5

-----------------------------------------------------------------------------
(* The messages on their way: what is left when one is taken, when one is  *)
(* posted, and when the last window goes.                                  *)

LEMMA TakeMessage ==
    ASSUME messages \in Seq(MESSAGE), messages # <<>>, messages' = Tail(messages)
    PROVE  /\ messages' \in Seq(MESSAGE)
           /\ \A i \in DOMAIN messages' : i + 1 \in DOMAIN messages /\ messages'[i] = messages[i + 1]
           /\ Head(messages) = messages[1] /\ 1 \in DOMAIN messages
           /\ \A i \in DOMAIN messages : i = 1 \/ (i - 1 \in DOMAIN messages' /\ messages[i] = messages'[i - 1])
  OBVIOUS

LEMMA PostMessage ==
    ASSUME messages \in Seq(MESSAGE), NEW m \in MESSAGE, messages' = Append(messages, m)
    PROVE  /\ messages' \in Seq(MESSAGE)
           /\ \A i \in DOMAIN messages' : \/ i \in DOMAIN messages /\ messages'[i] = messages[i]
                                          \/ messages'[i] = m
           /\ \A i \in DOMAIN messages : i \in DOMAIN messages' /\ messages'[i] = messages[i]
           /\ Len(messages) + 1 \in DOMAIN messages' /\ messages'[Len(messages) + 1] = m
  OBVIOUS

LEMMA DropKeeps ==
    ASSUME messages \in Seq(MESSAGE), NEW w, DropMessages(w)
    PROVE  /\ messages' \in Seq(MESSAGE)
           /\ \A i \in DOMAIN messages' :
                 /\ i \in DOMAIN messages /\ messages'[i] = messages[i]
                 /\ messages[i].win # w
<1>1. PICK n \in 0..Len(messages) :
         /\ \A i \in DOMAIN messages : messages[i].win = w <=> i > n
         /\ messages' = SubSeq(messages, 1, n)
  BY DEF DropMessages
<1>2. messages' \in Seq(MESSAGE) /\ DOMAIN messages' = 1..n
       /\ \A i \in 1..n : messages'[i] = messages[i]
  BY <1>1, SubSeqProperties
<1>3. \A i \in 1..n : i \in DOMAIN messages /\ ~(i > n)
  BY <1>1
<1> QED BY <1>1, <1>2, <1>3

LEMMA DestroyKeepsTypes ==
    ASSUME UiTypes, DestroySwitchWnd
    PROVE  /\ open' \subseteq open /\ switch_wnd \notin open'
           /\ messages' \in Seq(MESSAGE)
           /\ curr_results' \in RESULTS
<1>1. messages' \in Seq(MESSAGE)
  BY DropKeeps DEF DestroySwitchWnd, UiTypes
<1>2. NoResults \in RESULTS
  BY EmptyIsCommand DEF NoResults, RESULTS
<1> QED BY <1>1, <1>2 DEF DestroySwitchWnd, UiTypes

LEMMA MruMatchesType ==
    ASSUME NEW t \in Commands PROVE MruMatches(t) \in SUBSET Commands
  BY DEF MruMatches

-----------------------------------------------------------------------------
(* Types.                                                                  *)

LEMMA FreedIsItem == ASSUME NEW p \in ITEM PROVE Freed(p) \in ITEM
  BY DEF Freed, ITEM

LEMMA OpenKeepsSearch ==
    ASSUME NEW s \in SEARCH, OpenIndex(s)
    PROVE  \E t \in SEARCH : /\ searches' = (searches \ {s}) \cup {t}
                             /\ t.rid = s.rid /\ t.text = s.text
                             /\ t.phase = "reading" => Readers = {}
<1> DEFINE opened == GetPluginBlobHandle
           t == [s EXCEPT !.phase = IF opened THEN "reading" ELSE "read",
                          !.hit = opened /\ execs # "partial"]
<1>1. searches' = (searches \ {s}) \cup {t}
  BY DEF OpenIndex
<1>2. opened \in BOOLEAN /\ (opened => Readers = {})
  BY DEF GetPluginBlobHandle
<1>3. /\ t \in SEARCH /\ t.rid = s.rid /\ t.text = s.text
      /\ t.phase = "reading" => opened
  <2> HIDE DEF opened
  <2> QED BY <1>2 DEF SEARCH
<1> QED BY <1>1, <1>2, <1>3

LEMMA UiTypesStep == ASSUME UiTypes, InWindow, [Next]_vars PROVE UiTypes'
<1> DEFINE uivars == <<text, rid, last_rid, switch_wnd, open, searches, messages, curr_results, launching>>
<1>0. CASE UNCHANGED uivars
  BY <1>0 DEF UiTypes
<1>1. ASSUME NEW t \in Commands, rid' = rid + 1,
             searches' = searches \cup {[rid |-> rid, text |-> t, phase |-> "start", hit |-> FALSE]}
      PROVE  searches' \subseteq SEARCH /\ rid' \in Nat
  <2>1. [rid |-> rid, text |-> t, phase |-> "start", hit |-> FALSE] \in SEARCH
    BY DEF UiTypes, SEARCH
  <2>2. searches \subseteq SEARCH /\ rid \in Nat
    BY DEF UiTypes
  <2>3. rid' \in Nat
    BY <1>1, <2>2
  <2> QED BY <1>1, <2>1, <2>2, <2>3
<1>2. CASE show_launcher
  <2>1. searches' \subseteq SEARCH /\ rid' \in Nat
    BY <1>1, <1>2, EmptyIsCommand DEF show_launcher, kick_off_update
  <2>2. switch_wnd' \in 0..MaxWindows /\ open' \subseteq 1..switch_wnd'
    BY <1>2, BoundsAssumption DEF show_launcher, UiTypes
  <2> QED BY <1>2, <2>1, <2>2, EmptyIsCommand DEF show_launcher, UiTypes, run
<1>3. ASSUME NEW t \in Commands, Type(t) PROVE UiTypes'
  <2>1. searches' \subseteq SEARCH /\ rid' \in Nat
    BY <1>1, <1>3 DEF Type, kick_off_update
  <2> QED BY <1>3, <2>1 DEF Type, UiTypes, run
<1>4. CASE Escape
  <2>1. launching' \in ITEM
    BY <1>4, FreedIsItem DEF Escape, UiTypes
  <2> QED BY <1>4, <2>1, DestroyKeepsTypes DEF Escape, UiTypes
<1>5. CASE Enter
  <2>0. \A kind \in {"item", "typed"}, c \in Commands, m \in BOOLEAN : Item(kind, c, m) \in ITEM
    BY DEF Item, ITEM
  <2>1. launching' \in ITEM
    BY <1>5, <2>0, EmptyIsCommand DEF Enter, UiTypes, RESULTS
  <2> QED BY <1>5, <2>1 DEF Enter, UiTypes, ui
<1>6. CASE EnterNothing
  BY <1>6, DestroyKeepsTypes DEF EnterNothing, UiTypes, run
<1>7. CASE OnResults
  <2>1. messages' \in Seq(MESSAGE) /\ Head(messages) \in MESSAGE
    BY <1>7, TakeMessage DEF OnResults, UiTypes
  <2>2. curr_results' \in RESULTS /\ last_rid' \in Nat /\ launching' \in ITEM
    <3> DEFINE m == Head(messages)
               r == [rid |-> m.rid, text |-> m.text, hit |-> m.hit, mru |-> m.mru, got |-> TRUE]
    <3>1. r \in RESULTS /\ m.rid \in Nat
      BY <2>1 DEF MESSAGE, RESULTS
    <3>2. \/ curr_results' = r /\ last_rid' = m.rid /\ launching' = Freed(launching)
          \/ UNCHANGED <<curr_results, last_rid, launching>>
      BY <1>7 DEF OnResults
    <3> QED BY <3>1, <3>2, FreedIsItem DEF UiTypes
  <2> QED BY <1>7, <2>1, <2>2 DEF OnResults, UiTypes
<1>8. CASE ExecuteReturns
  <2>1. launching' \in ITEM
    BY <1>8, EmptyIsCommand DEF ExecuteReturns, NoItem, Item, ITEM
  <2> QED BY <1>8, <2>1, DestroyKeepsTypes DEF ExecuteReturns, UiTypes
<1>9. ASSUME NEW s \in searches, OpenIndex(s) PROVE UiTypes'
  <2>1. s \in SEARCH
    BY DEF UiTypes
  <2>2. \E t \in SEARCH : searches' = (searches \ {s}) \cup {t}
    BY <1>9, <2>1, OpenKeepsSearch
  <2>3. searches' \subseteq SEARCH
    BY <2>2 DEF UiTypes
  <2> QED BY <1>9, <2>3 DEF OpenIndex, UiTypes, ui, run
<1>10. ASSUME NEW s \in searches, FinishSearch(s) PROVE UiTypes'
  <2>1. s \in SEARCH
    BY DEF UiTypes
  <2>2. messages' \in Seq(MESSAGE)
    <3> DEFINE m == [win |-> switch_wnd, rid |-> s.rid, text |-> s.text,
                     hit |-> s.hit, mru |-> MruMatches(s.text)]
    <3>1. m \in MESSAGE
      BY <2>1, MruMatchesType DEF MESSAGE, SEARCH, UiTypes
    <3>2. messages' = messages \/ messages' = Append(messages, m)
      BY <1>10 DEF FinishSearch
    <3> QED BY <3>1, <3>2, PostMessage DEF UiTypes
  <2> QED BY <1>10, <2>2 DEF FinishSearch, UiTypes, run
<1>11. CASE Crash
  <2>1. NoResults \in RESULTS /\ NoItem \in ITEM
    BY EmptyIsCommand DEF NoResults, RESULTS, NoItem, Item, ITEM
  <2> QED BY <1>11, <2>1, EmptyIsCommand, BoundsAssumption DEF Crash, UiTypes
<1>12. CASE StoreValue \/ ThreadCreated \/ indexing_run \/ IndexerStep \/ FilesChange \/ Settle
            \/ UNCHANGED vars
  <2>1. UNCHANGED uivars
    BY <1>12 DEF StoreValue, ThreadCreated, indexing_run, IndexerStep, FilesChange, Settle, vars,
         ui, run, BeginScan, EndScan, DeleteIndex, MoveIndex, EndIndexer
  <2> QED BY <2>1, <1>0
<1> QED BY <1>2, <1>3, <1>4, <1>5, <1>6, <1>7, <1>8, <1>9, <1>10, <1>11, <1>12
        DEF Next, UiStep, MainStep, SearchStep

-----------------------------------------------------------------------------
(* Messages are for windows on the screen, no search is later than the     *)
(* last one, and one search at a time reads the index.                     *)

LEMMA DestroyKeepsMessages ==
    ASSUME UiTypes, InWindow, DestroySwitchWnd
    PROVE  \A i \in DOMAIN messages' :
              /\ i \in DOMAIN messages /\ messages'[i] = messages[i]
              /\ messages'[i].win \in open' /\ messages'[i].rid < rid
  BY DropKeeps DEF DestroySwitchWnd, UiTypes, InWindow

LEMMA InWindowStep == ASSUME UiTypes, InWindow, [Next]_vars PROVE InWindow'
<1>1. CASE UNCHANGED <<rid, open, searches, messages>>
  BY <1>1 DEF InWindow
<1>2. ASSUME NEW t \in Commands, kick_off_update(t), open \subseteq open', messages' = messages
      PROVE  InWindow'
  <2>1. rid \in Nat /\ searches \subseteq SEARCH /\ messages \in Seq(MESSAGE)
    BY DEF UiTypes
  <2>2. \A s \in searches' : s.rid < rid'
    BY <1>2, <2>1 DEF kick_off_update, InWindow, SEARCH
  <2>3. \A i \in DOMAIN messages : messages[i].rid \in Nat
    <3>1. \A i \in DOMAIN messages : messages[i] \in MESSAGE
      BY <2>1
    <3> QED BY <3>1 DEF MESSAGE
  <2>4. rid' = rid + 1
    BY <1>2 DEF kick_off_update
  <2>5. \A i \in DOMAIN messages' : messages'[i].win \in open' /\ messages'[i].rid < rid'
    BY <1>2, <2>1, <2>3, <2>4 DEF InWindow
  <2> QED BY <2>2, <2>5 DEF InWindow
<1>3. CASE show_launcher
  BY <1>2, <1>3, EmptyIsCommand DEF show_launcher
<1>4. ASSUME NEW t \in Commands, Type(t) PROVE InWindow'
  BY <1>2, <1>4 DEF Type
<1>5. CASE DestroySwitchWnd /\ UNCHANGED <<rid, searches>>
  BY <1>5, DestroyKeepsMessages DEF InWindow
<1>6. CASE OnResults
  <2>1. messages \in Seq(MESSAGE)
    BY DEF UiTypes
  <2> QED BY <1>6, <2>1, TakeMessage DEF OnResults, InWindow
<1>7. ASSUME NEW s \in searches, OpenIndex(s) PROVE InWindow'
  <2>1. UNCHANGED <<rid, open, messages>>
    BY <1>7 DEF OpenIndex, ui
  <2>2. s \in SEARCH
    BY DEF UiTypes
  <2> QED BY <1>7, <2>1, <2>2, OpenKeepsSearch DEF InWindow
<1>8. ASSUME NEW s \in searches, FinishSearch(s) PROVE InWindow'
  <2> DEFINE m == [win |-> switch_wnd, rid |-> s.rid, text |-> s.text,
                   hit |-> s.hit, mru |-> MruMatches(s.text)]
  <2>1. m \in MESSAGE /\ m.rid < rid
    BY MruMatchesType DEF MESSAGE, SEARCH, UiTypes, InWindow
  <2>2. messages' = messages \/ (messages' = Append(messages, m) /\ m.win \in open)
    BY <1>8 DEF FinishSearch
  <2>3. UNCHANGED <<rid, open>> /\ searches' \subseteq searches /\ messages \in Seq(MESSAGE)
    BY <1>8 DEF FinishSearch, UiTypes
  <2>4. \A i \in DOMAIN messages' : messages'[i].win \in open /\ messages'[i].rid < rid
    <3> HIDE DEF m
    <3> QED BY <2>1, <2>2, <2>3, PostMessage DEF InWindow
  <2> QED BY <2>3, <2>4 DEF InWindow
<1>9. CASE Crash
  BY <1>9 DEF Crash, InWindow
<1>10. CASE Escape \/ EnterNothing \/ ExecuteReturns
  BY <1>5, <1>10 DEF Escape, EnterNothing, ExecuteReturns
<1>11. CASE Enter \/ StoreValue \/ ThreadCreated \/ indexing_run \/ IndexerStep \/ FilesChange
            \/ Settle \/ UNCHANGED vars
  <2>1. UNCHANGED <<rid, open, searches, messages>>
    BY <1>11 DEF Enter, StoreValue, ThreadCreated, indexing_run, IndexerStep, FilesChange, Settle,
         vars, ui, BeginScan, EndScan, DeleteIndex, MoveIndex, EndIndexer
  <2> QED BY <2>1, <1>1
<1> QED BY <1>3, <1>4, <1>6, <1>7, <1>8, <1>9, <1>10, <1>11
        DEF Next, UiStep, MainStep, SearchStep

LEMMA OneReaderStep == ASSUME UiTypes, OneReader, [Next]_vars PROVE OneReader'
<1>1. CASE searches' \subseteq searches
  BY <1>1 DEF OneReader
<1>2. CASE show_launcher \/ \E t \in Commands : Type(t)
  <2>1. \E t \in Commands : searches' = searches \cup
            {[rid |-> rid, text |-> t, phase |-> "start", hit |-> FALSE]}
    BY <1>2, EmptyIsCommand DEF show_launcher, Type, kick_off_update
  <2> QED BY <2>1 DEF OneReader
<1>3. ASSUME NEW s \in searches, OpenIndex(s) PROVE OneReader'
  BY <1>3, OpenKeepsSearch DEF UiTypes, OneReader, Readers
<1>4. CASE ~(show_launcher \/ \E t \in Commands : Type(t)) /\ ~\E s \in searches : OpenIndex(s)
  <2>1. searches' \subseteq searches
    BY <1>4 DEF Next, UiStep, MainStep, SearchStep, Escape, Enter, EnterNothing, OnResults,
         ExecuteReturns, FinishSearch, Crash, StoreValue, ThreadCreated, indexing_run,
         IndexerStep, FilesChange, Settle, vars, BeginScan, EndScan, DeleteIndex, MoveIndex,
         EndIndexer
  <2> QED BY <2>1, <1>1
<1> QED BY <1>2, <1>3, <1>4

-----------------------------------------------------------------------------
(* The latest search.                                                      *)

LEMMA RidTypes ==
    ASSUME UiTypes
    PROVE  /\ rid \in Nat /\ last_rid \in Nat /\ curr_results.rid \in Nat
           /\ \A s \in searches : s.rid \in Nat
           /\ \A i \in DOMAIN messages : messages[i].rid \in Nat
<1>1. \A i \in DOMAIN messages : messages[i] \in MESSAGE
  BY DEF UiTypes
<1> QED BY <1>1 DEF UiTypes, MESSAGE, SEARCH, RESULTS

(* A new search is the latest one, and for the text in the window.         *)
LEMMA KickOffLatest ==
    ASSUME UiTypes, InWindow, Latest, NEW t, text' = t, kick_off_update(t),
           UNCHANGED <<last_rid, curr_results, messages>>
    PROVE  Latest'
<1> DEFINE k == [rid |-> rid, text |-> t, phase |-> "start", hit |-> FALSE]
<1>1. /\ rid \in Nat /\ last_rid \in Nat /\ curr_results.rid \in Nat
      /\ \A s \in searches : s.rid \in Nat /\ s.rid < rid
      /\ \A i \in DOMAIN messages : messages[i].rid \in Nat /\ messages[i].rid < rid
  BY RidTypes DEF InWindow
<1>2. rid' = rid + 1 /\ searches' = searches \cup {k} /\ k.rid = rid /\ k.text = text'
  BY DEF kick_off_update
<1>3. NotNewer'
  BY <1>1, <1>2 DEF Latest, NotNewer
<1>4. LatestText'
  <2>1. \A s \in searches' : s.rid + 1 = rid' => s.text = text'
    BY <1>1, <1>2
  <2>2. \A i \in DOMAIN messages' : messages'[i].rid + 1 # rid'
    BY <1>1, <1>2
  <2>3. ~(curr_results'.got /\ curr_results'.rid + 1 = rid')
    BY <1>1, <1>2 DEF Latest, NotNewer
  <2> QED BY <2>1, <2>2, <2>3 DEF LatestText
<1>5. Pending'
  BY <1>1, <1>2 DEF Pending
<1> QED BY <1>3, <1>4, <1>5 DEF Latest

(* Results that come are shown unless later ones are.                      *)
LEMMA ResultsLatest ==
    ASSUME UiTypes, InWindow, Latest, OnResults
    PROVE  Latest'
<1> DEFINE m == Head(messages)
<1>1. /\ rid \in Nat /\ last_rid \in Nat /\ curr_results.rid \in Nat
      /\ \A i \in DOMAIN messages : messages[i].rid \in Nat /\ messages[i].rid < rid
  BY RidTypes DEF InWindow
<1>2. /\ UNCHANGED <<text, rid, switch_wnd, open, searches>>
      /\ \/ /\ m.rid >= last_rid /\ last_rid' = m.rid
            /\ curr_results' = [rid |-> m.rid, text |-> m.text, hit |-> m.hit,
                                mru |-> m.mru, got |-> TRUE]
         \/ ~(m.rid >= last_rid) /\ UNCHANGED <<curr_results, last_rid>>
  BY DEF OnResults, Newest
<1>3. /\ \A i \in DOMAIN messages' : i + 1 \in DOMAIN messages /\ messages'[i] = messages[i + 1]
      /\ m = messages[1] /\ 1 \in DOMAIN messages
      /\ \A i \in DOMAIN messages : i = 1 \/ (i - 1 \in DOMAIN messages' /\ messages[i] = messages'[i - 1])
  BY TakeMessage DEF OnResults, UiTypes
<1> HIDE DEF m
<1>4. m.rid \in Nat /\ m.rid < rid /\ (m.rid + 1 = rid => m.text = text)
  BY <1>1, <1>3 DEF Latest, LatestText
<1>5. NotNewer'
  BY <1>1, <1>2, <1>4 DEF Latest, NotNewer
<1>6. LatestText'
  BY <1>2, <1>3, <1>4 DEF Latest, LatestText
<1>7. Pending'
  <2> SUFFICES ASSUME switch_wnd \in open PROVE Pending'
    BY <1>2 DEF Pending
  <2>1. CASE \E s \in searches : s.rid + 1 = rid
    BY <2>1, <1>2 DEF Pending
  <2>2. CASE \E i \in DOMAIN messages : i # 1 /\ messages[i].rid + 1 = rid
    BY <2>2, <1>2, <1>3 DEF Pending
  <2>3. CASE m.rid + 1 = rid
    BY <2>3, <1>1, <1>2, <1>4 DEF Latest, NotNewer, Pending
  <2>4. CASE curr_results.got /\ curr_results.rid + 1 = rid
    BY <2>4, <1>1, <1>2, <1>4 DEF Latest, NotNewer, Pending
  <2> QED BY <2>1, <2>2, <2>3, <2>4, <1>3 DEF Latest, Pending
<1> QED BY <1>5, <1>6, <1>7 DEF Latest

(* A search that ends hands on its result, if there is a window for it.    *)
LEMMA FinishLatest ==
    ASSUME UiTypes, InWindow, Latest, NEW s \in searches, FinishSearch(s)
    PROVE  Latest'
<1> DEFINE m == [win |-> switch_wnd, rid |-> s.rid, text |-> s.text,
                 hit |-> s.hit, mru |-> MruMatches(s.text)]
<1>1. m \in MESSAGE /\ m.rid = s.rid /\ m.text = s.text /\ messages \in Seq(MESSAGE)
  BY MruMatchesType DEF MESSAGE, SEARCH, UiTypes
<1>2. /\ UNCHANGED <<text, rid, last_rid, curr_results, switch_wnd, open>>
      /\ searches' = searches \ {s}
      /\ IF switch_wnd \in open THEN messages' = Append(messages, m) ELSE messages' = messages
  BY DEF FinishSearch
<1> HIDE DEF m
<1>3. NotNewer'
  BY <1>2 DEF Latest, NotNewer
<1>4. CASE switch_wnd \notin open
  BY <1>2, <1>3, <1>4 DEF Latest, LatestText, Pending
<1>5. CASE switch_wnd \in open
  <2>1. /\ \A i \in DOMAIN messages' : \/ i \in DOMAIN messages /\ messages'[i] = messages[i]
                                       \/ messages'[i] = m
        /\ \A i \in DOMAIN messages : i \in DOMAIN messages' /\ messages'[i] = messages[i]
        /\ \E i \in DOMAIN messages' : messages'[i] = m
    BY <1>1, <1>2, <1>5, PostMessage
  <2>2. LatestText'
    BY <1>1, <1>2, <2>1 DEF Latest, LatestText
  <2>3. Pending'
    BY <1>1, <1>2, <2>1 DEF Latest, Pending
  <2> QED BY <1>3, <2>2, <2>3 DEF Latest
<1> QED BY <1>4, <1>5

LEMMA LatestStep == ASSUME UiTypes, InWindow, Latest, [Next]_vars PROVE Latest'
<1>1. CASE UNCHANGED <<text, rid, last_rid, curr_results, switch_wnd, open, searches, messages>>
  BY <1>1 DEF Latest, NotNewer, LatestText, Pending
<1>2. CASE show_launcher \/ \E t \in Commands : Type(t)
  BY <1>2, KickOffLatest DEF show_launcher, Type
<1>3. CASE OnResults
  BY <1>3, ResultsLatest
<1>4. ASSUME NEW s \in searches, FinishSearch(s) PROVE Latest'
  BY <1>4, FinishLatest
<1>5. ASSUME NEW s \in searches, OpenIndex(s) PROVE Latest'
  <2>1. UNCHANGED <<text, rid, last_rid, curr_results, switch_wnd, open, messages>> /\ s \in SEARCH
    BY <1>5 DEF OpenIndex, ui, UiTypes
  <2>2. PICK t \in SEARCH : /\ searches' = (searches \ {s}) \cup {t}
                            /\ t.rid = s.rid /\ t.text = s.text
    BY <1>5, <2>1, OpenKeepsSearch
  <2>3. NotNewer' /\ LatestText'
    BY <2>1, <2>2 DEF Latest, NotNewer, LatestText
  <2>4. Pending'
    BY <2>1, <2>2 DEF Latest, Pending
  <2> QED BY <2>3, <2>4 DEF Latest
<1>6. CASE Escape \/ EnterNothing \/ ExecuteReturns
  <2>1. UNCHANGED <<text, rid, last_rid, switch_wnd, searches>> /\ DestroySwitchWnd
    BY <1>6 DEF Escape, EnterNothing, ExecuteReturns
  <2>2. switch_wnd' \notin open'
    BY <2>1 DEF DestroySwitchWnd
  <2>3. \A i \in DOMAIN messages' : i \in DOMAIN messages /\ messages'[i] = messages[i]
    BY <2>1, DestroyKeepsMessages
  <2>4. curr_results' = curr_results \/ ~curr_results'.got
    BY <2>1 DEF DestroySwitchWnd, NoResults
  <2> QED BY <2>1, <2>2, <2>3, <2>4 DEF Latest, NotNewer, LatestText, Pending
<1>7. CASE Crash
  BY <1>7, RidTypes DEF Crash, NoResults, Latest, NotNewer, LatestText, Pending
<1>8. CASE Enter \/ StoreValue \/ ThreadCreated \/ indexing_run \/ IndexerStep \/ FilesChange
            \/ Settle \/ UNCHANGED vars
  <2>1. UNCHANGED <<text, rid, last_rid, curr_results, switch_wnd, open, searches, messages>>
    BY <1>8 DEF Enter, StoreValue, ThreadCreated, indexing_run, IndexerStep, FilesChange, Settle,
         vars, ui, BeginScan, EndScan, DeleteIndex, MoveIndex, EndIndexer
  <2> QED BY <2>1, <1>1
<1> QED BY <1>2, <1>3, <1>4, <1>5, <1>6, <1>7, <1>8
        DEF Next, UiStep, MainStep, SearchStep

-----------------------------------------------------------------------------
(* The theorems.                                                           *)

LEMMA IInvStep == IInv /\ [Next]_vars => IInv'
  BY UiTypesStep, MruStep, InWindowStep, OneReaderStep, IndexStep, LatestStep DEF IInv

(* The inductive invariant holds in every reachable state.                 *)
THEOREM Invariance == Spec => []IInv
  BY InitIInv, IInvStep, PTL DEF Spec

LEMMA IInvTypes == IInv => TypeOK
<1> SUFFICES ASSUME IInv PROVE TypeOK
  OBVIOUS
<1>1. Cardinality(Readers) <= 1
  <2>1. CASE Readers = {}
    BY <2>1, FS_EmptySet
  <2>2. CASE Readers # {}
    <3>1. PICK s \in Readers : Readers = {s}
      BY <2>2 DEF IInv, OneReader, Readers
    <3>2. Cardinality({s}) = 1
      BY FS_Singleton
    <3> QED BY <3>1, <3>2
  <2> QED BY <2>1, <2>2
<1> QED BY <1>1 DEF IInv, UiTypes, MruTypes, InWindow, WholeIndex, TypeOK

(* The index that searches open is a complete one: whatever readers and    *)
(* kills come between the steps of the indexer, the file under the name of *)
(* the index is never the one that is being written (indexer, DeleteFile   *)
(* and MoveFile of launcher.cpp).                                          *)
THEOREM IndexAlwaysWhole == Spec => []IndexIsWhole
<1>1. IInv => IndexIsWhole
  BY IInvTypes DEF IInv, WholeIndex, IndexIsWhole
<1> QED BY <1>1, Invariance, PTL

(* When no search is under way, what is shown was found for the text in    *)
(* the window, in whatever order the search threads ended (the comparison  *)
(* with last_rid in launcher.cpp).                                         *)
THEOREM SettledIsTyped == Spec => []SettledShowsTyped
<1>1. IInv => SettledShowsTyped
  <2> SUFFICES ASSUME IInv, Settled PROVE curr_results.got /\ curr_results.text = text
    BY DEF SettledShowsTyped
  <2>1. searches = {} /\ messages = <<>> /\ switch_wnd \in open
    BY DEF Settled
  <2> QED BY <2>1 DEF IInv, Latest, Pending, LatestText
<1> QED BY <1>1, Invariance, PTL

-----------------------------------------------------------------------------
(***************************************************************************)
(* RunMRU is a list of recently run commands, as MruView defines one.      *)
(*                                                                         *)
(* That a letter never names two commands depends on which letters are in  *)
(* use: those of a list of n are the first n, the others have no value     *)
(* (Orderly).  Between launch's two writes the first letter stands for a   *)
(* command that its value does not hold yet (Storing).  Both need a        *)
(* RunMRU that was in order at first, and that no kill comes between the   *)
(* two writes.                                                             *)
(***************************************************************************)
FirstLetters(list, vals) ==
    /\ \A i \in DOMAIN list : list[i] <= Len(list)
    /\ \A l \in Letters : l > Len(list) => vals[l] = NoValue
Orderly(list, vals) ==
    /\ FirstLetters(list, vals)
    /\ \A i \in DOMAIN list : vals[list[i]] # NoValue
    /\ \A i, j \in DOMAIN list : vals[list[i]] = vals[list[j]] => i = j

\* The list with cmd in front, and the value of the first letter still to come.
Storing(list, vals, cmd) ==
    LET stored == vals[list[1]] IN
    /\ list # <<>> /\ FirstLetters(list, vals)
    /\ \A i, j \in DOMAIN list : list[i] = list[j] => i = j
    /\ stored # cmd /\ (stored # NoValue => Len(list) = MaxMru)
    /\ \A i \in DOMAIN list : i # 1 =>
        /\ vals[list[i]] \notin {NoValue, cmd, stored}
        /\ \A j \in DOMAIN list : j # 1 /\ vals[list[i]] = vals[list[j]] => i = j

MruInv ==
    IF storing = NoValue THEN Orderly(mrulist, values)
    ELSE Storing(mrulist, values, storing) /\ launching = NoItem

\* RunMRU is in order at first, and not torn later.
InOrder ==
    /\ "torn" \notin World
    /\ \A mru \in StartMru : Orderly(mru.list, mru.values)

-----------------------------------------------------------------------------
(* The lists of MruView.                                                   *)
Once(s) == \A i, j \in DOMAIN s : s[i] = s[j] => i = j

LEMMA SeqIs ==
    ASSUME NEW S, NEW s \in Seq(S)
    PROVE  /\ Len(s) \in Nat /\ DOMAIN s = 1..Len(s) /\ s \in [1..Len(s) -> S]
           /\ s = [i \in 1..Len(s) |-> s[i]]
PROOF
<1>. QED
    BY LenProperties

LEMMA ViewCounts == \A S : View!Cardinality(S) = Cardinality(S)
PROOF
<1>. QED
    BY DEF View!Cardinality, Cardinality

Others(s, c) == {i \in DOMAIN s : s[i] # c}
Picked(s, p, n) == [k \in 1..n |-> s[p[k]]]
PutFirst(c, s) ==
    [n \in 1..(IF Len(s) = MaxMru THEN MaxMru ELSE Len(s) + 1) |->
        IF n = 1 THEN c ELSE s[n - 1]]

\* A list of numbers in ascending order, as Without takes it.
LEMMA WithoutIs ==
    ASSUME NEW s, NEW c, NEW n \in Nat, NEW p \in [1..n -> DOMAIN s],
           Cardinality(Others(s, c)) = n,
           \A k \in 1..n : s[p[k]] # c,
           \A j, k \in 1..n : j < k => p[j] < p[k]
    PROVE  Picked(s, p, n) \in View!Without(s, c)
PROOF
<1>. DEFINE S == {i \in DOMAIN s : s[i] # c}
<1>1. p \in [1..n -> S] /\ DOMAIN p = 1..n
    OBVIOUS
<1>2. Cardinality(S) = n
    BY DEF Others
<1>. HIDE DEF S
<1>3. p \in View!Ascending(S)
    BY <1>1, <1>2, ViewCounts DEF View!Ascending
<1>4. [k \in DOMAIN p |-> s[p[k]]] \in View!Without(s, c)
    BY <1>3 DEF View!Without, S
<1>. QED
    BY <1>1, <1>4 DEF Picked

LEMMA WithoutNone ==
    ASSUME NEW S, NEW s \in Seq(S), NEW c, \A i \in DOMAIN s : s[i] # c
    PROVE  s \in View!Without(s, c)
PROOF
<1>. DEFINE n == Len(s)
            p == [k \in 1..n |-> k]
<1>1. n \in Nat /\ DOMAIN s = 1..n /\ s = [i \in 1..n |-> s[i]]
    BY SeqIs
<1>2. Others(s, c) = 1..n
    BY <1>1 DEF Others
<1>. HIDE DEF n
<1>3. Cardinality(1..n) = n
    BY <1>1, FS_Interval
<1>4. p \in [1..n -> DOMAIN s] /\ \A k \in 1..n : p[k] = k
    BY <1>1
<1>. HIDE DEF p
<1>5. Picked(s, p, n) \in View!Without(s, c)
    <2>1. Cardinality(Others(s, c)) = n
        BY <1>2, <1>3
    <2>2. \A k \in 1..n : s[p[k]] # c
        BY <1>1, <1>4
    <2>3. \A j, k \in 1..n : j < k => p[j] < p[k]
        BY <1>4
    <2>. QED
        BY <1>1, <1>4, <2>1, <2>2, <2>3, WithoutIs
<1>6. Picked(s, p, n) = [k \in 1..n |-> s[k]]
    BY <1>4 DEF Picked
<1>. QED
    BY <1>1, <1>5, <1>6

LEMMA WithoutOne ==
    ASSUME NEW S, NEW s \in Seq(S), Once(s), NEW at \in DOMAIN s
    PROVE  [k \in 1..(Len(s) - 1) |-> IF k < at THEN s[k] ELSE s[k + 1]] \in View!Without(s, s[at])
PROOF
<1>. DEFINE n == Len(s)
            m == n - 1
            p == [k \in 1..m |-> IF k < at THEN k ELSE k + 1]
            c == s[at]
<1>1. n \in Nat /\ DOMAIN s = 1..n
    BY SeqIs
<1>. HIDE DEF n
<1>2. at \in 1..n /\ m \in Nat
    BY <1>1
<1>3. Others(s, c) = (1..n) \ {at}
    BY <1>1 DEF Once, Others
<1>4. Cardinality((1..n) \ {at}) = m
    <2>1. IsFiniteSet(1..n) /\ Cardinality(1..n) = n
        BY <1>1, FS_Interval
    <2>2. Cardinality((1..n) \ {at}) = IF at \in 1..n THEN Cardinality(1..n) - 1 ELSE Cardinality(1..n)
        BY <2>1, FS_RemoveElement
    <2>. QED
        BY <2>1, <2>2, <1>2
<1>5. \A k \in 1..m : p[k] \in 1..n /\ p[k] # at
    BY <1>2, <1>1
<1>6. \A j, k \in 1..m : j < k => p[j] < p[k]
    BY <1>1, <1>2
<1>7. p \in [1..m -> DOMAIN s]
    BY <1>5, <1>1
<1>8. \A k \in 1..m : s[p[k]] # c
    BY <1>3, <1>5, <1>1 DEF Others
<1>9. \A k \in 1..m : s[p[k]] = IF k < at THEN s[k] ELSE s[k + 1]
    OBVIOUS
<1>. HIDE DEF p, m, c
<1>10. Picked(s, p, m) \in View!Without(s, c)
    <2>1. Cardinality(Others(s, c)) = m
        BY <1>3, <1>4
    <2>. QED
        BY <1>2, <1>6, <1>7, <1>8, <2>1, WithoutIs
<1>11. Picked(s, p, m) = [k \in 1..m |-> IF k < at THEN s[k] ELSE s[k + 1]]
    BY <1>9 DEF Picked
<1>. QED
    BY <1>10, <1>11 DEF m, n, c

\* A command in front of others, and what is kept of that.
LEMMA InFront ==
    ASSUME NEW S, NEW c \in S, NEW s \in Seq(S), Len(s) <= MaxMru
    PROVE  View!Shortened(<<c>> \o s) = PutFirst(c, s)
PROOF
<1>. DEFINE t == <<c>> \o s
            l == Len(s)
            m == IF Len(t) > MaxMru THEN MaxMru ELSE Len(t)
            r == SubSeq(t, 1, m)
            k == IF l = MaxMru THEN MaxMru ELSE l + 1
<1>1. <<c>> \in Seq(S) /\ Len(<<c>>) = 1 /\ <<c>>[1] = c /\ l \in Nat
    BY SeqIs
<1>2. /\ t \in Seq(S) /\ Len(t) = 1 + l
      /\ \A i \in 1..(1 + l) : t[i] = IF i <= 1 THEN <<c>>[i] ELSE s[i - 1]
    BY <1>1, ConcatProperties
<1>. HIDE DEF t, l
<1>3. l <= MaxMru
    BY DEF l
<1>4. m = k /\ k \in 1..(1 + l)
    BY <1>1, <1>2, <1>3, MaxMruAssumption
<1>5. DOMAIN t = 1..(1 + l) /\ \A i \in 1..m : t[i] \in S
    BY <1>2, <1>4, SeqIs
<1>6. m \in Int /\ m >= 1
    BY <1>1, <1>4
<1>. HIDE DEF m
<1>7. r \in Seq(S) /\ Len(r) = m /\ \A i \in 1..m : r[i] = t[i]
    <2>1. /\ r \in Seq(S) /\ Len(r) = IF 1 <= m THEN m - 1 + 1 ELSE 0
          /\ \A i \in 1..(m - 1 + 1) : r[i] = t[1 + i - 1]
        BY <1>5, <1>6, SubSeqProperties
    <2>2. m - 1 + 1 = m /\ \A i \in 1..m : 1 + i - 1 = i
        BY <1>6
    <2>. QED
        BY <2>1, <2>2, <1>6
<1>. HIDE DEF r, k
<1>8. r = [i \in 1..m |-> r[i]]
    BY <1>7, SeqIs
<1>9. \A i \in 1..m : r[i] = IF i = 1 THEN c ELSE s[i - 1]
    BY <1>1, <1>2, <1>4, <1>6, <1>7
<1>10. r = [i \in 1..k |-> IF i = 1 THEN c ELSE s[i - 1]]
    BY <1>4, <1>8, <1>9
<1>. QED
    BY <1>10 DEF View!Shortened, PutFirst, r, m, t, k, l

\* The list after a command is run that is not in it, and after one that is.
LEMMA RunsNew ==
    ASSUME NEW s \in Seq(Commands), Len(s) <= MaxMru, NEW c \in Commands,
           \A i \in DOMAIN s : s[i] # c
    PROVE  \E others \in View!Without(s, c) : View!Shortened(<<c>> \o others) = PutFirst(c, s)
PROOF
<1>. QED
    BY WithoutNone, InFront

LEMMA RunsAgain ==
    ASSUME NEW s \in Seq(Commands), Len(s) <= MaxMru, Once(s), NEW at \in DOMAIN s
    PROVE  \E others \in View!Without(s, s[at]) :
             View!Shortened(<<s[at]>> \o others) =
               [n \in DOMAIN s |->
                  IF n = 1 THEN s[at] ELSE IF n <= at THEN s[n - 1] ELSE s[n]]
PROOF
<1>. DEFINE l == Len(s)
            m == l - 1
            r == [k \in 1..m |-> IF k < at THEN s[k] ELSE s[k + 1]]
            c == s[at]
            new == PutFirst(c, r)
            bumped == [n \in 1..l |-> IF n = 1 THEN c ELSE IF n <= at THEN s[n - 1] ELSE s[n]]
<1>1. l \in Nat /\ DOMAIN s = 1..l /\ \A i \in 1..l : s[i] \in Commands
    BY SeqIs
<1>2. r \in View!Without(s, c)
    BY WithoutOne
<1>3. l <= MaxMru
    OBVIOUS
<1>. HIDE DEF l
<1>4. at \in 1..l /\ m \in Nat /\ m + 1 = l /\ m < MaxMru
    BY <1>1, <1>3, MaxMruAssumption
<1>5. r \in [1..m -> Commands] /\ \A k \in 1..m : r[k] = IF k < at THEN s[k] ELSE s[k + 1]
    BY <1>1, <1>4
<1>. HIDE DEF r
<1>6. r \in Seq(Commands) /\ Len(r) = m
    <2>1. r \in Seq(Commands)
        BY <1>4, <1>5, SeqDef
    <2>2. DOMAIN r = 1..m /\ DOMAIN r = 1..Len(r) /\ Len(r) \in Nat
        BY <2>1, <1>5, SeqIs
    <2>. QED
        BY <2>1, <2>2, <1>4
<1>7. c \in Commands
    BY <1>1, <1>4
<1>8. View!Shortened(<<c>> \o r) = new
    <2>1. Len(r) <= MaxMru
        BY <1>4, <1>6, MaxMruAssumption
    <2>. QED
        BY <2>1, <1>6, <1>7, InFront
<1>9. new = bumped
    <2>1. (IF Len(r) = MaxMru THEN MaxMru ELSE Len(r) + 1) = l
        BY <1>4, <1>6, MaxMruAssumption
    <2>2. \A n \in 1..l : n # 1 => n - 1 \in 1..m
        BY <1>4
    <2>3. \A n \in 1..l : n # 1 => r[n - 1] = IF n <= at THEN s[n - 1] ELSE s[n]
        <3>1. \A n \in 1..l : n # 1 => (n - 1 < at <=> n <= at) /\ (n - 1) + 1 = n
            BY <1>1, <1>4
        <3>. QED
            BY <2>2, <3>1, <1>5
    <2>. QED
        BY <2>1, <2>3 DEF PutFirst
<1>. QED
    BY <1>1, <1>2, <1>8, <1>9

-----------------------------------------------------------------------------
(* The list that RunMRU stands for.                                        *)
ListOf(list, vals) == [i \in 1..Len(list) |-> vals[list[i]]]

LEMMA ListIs ==
    ASSUME MruTypes
    PROVE  /\ Len(mrulist) \in Nat /\ DOMAIN mrulist = 1..Len(mrulist) /\ Len(mrulist) <= MaxMru
           /\ \A i \in 1..Len(mrulist) : mrulist[i] \in 1..MaxMru
           /\ MaxMru \in Nat \ {0} /\ Letters = 1..MaxMru
           /\ \A l \in 1..MaxMru : values[l] \in Commands \cup {NoValue}
PROOF
<1>. QED
    BY MaxMruAssumption, SeqIs DEF MruTypes, Letters

\* In order, it is the values of the letters.
LEMMA OrderlyList ==
    ASSUME MruTypes, Orderly(mrulist, values)
    PROVE  /\ ListOf(mrulist, values) \in Seq(Commands)
           /\ Len(ListOf(mrulist, values)) = Len(mrulist)
           /\ Once(ListOf(mrulist, values))
           /\ DOMAIN ListOf(mrulist, values) = 1..Len(mrulist)
PROOF
<1>. DEFINE s == ListOf(mrulist, values)
            n == Len(mrulist)
<1>1. n \in Nat /\ DOMAIN mrulist = 1..n
      /\ \A i \in 1..n : values[mrulist[i]] \in Commands \cup {NoValue}
    BY ListIs
<1>2. \A i \in 1..n : values[mrulist[i]] \in Commands
    BY <1>1 DEF Orderly
<1>. HIDE DEF n
<1>3. s \in [1..n -> Commands] /\ \A i \in 1..n : s[i] = values[mrulist[i]]
    BY <1>2 DEF ListOf, n
<1>4. Once(s)
    BY <1>1, <1>3 DEF Once, Orderly
<1>. HIDE DEF s
<1>5. s \in Seq(Commands)
    BY <1>1, <1>3, SeqDef
<1>6. Len(s) = n
    <2>1. DOMAIN s = 1..n /\ DOMAIN s = 1..Len(s) /\ Len(s) \in Nat
        BY <1>3, <1>5, SeqIs
    <2>. QED
        BY <2>1, <1>1
<1>7. DOMAIN s = 1..n
    BY <1>3
<1>. QED
    BY <1>4, <1>5, <1>6, <1>7 DEF s, n

LEMMA ListedIs == storing = NoValue /\ DOMAIN mrulist = 1..Len(mrulist) => Listed = ListOf(mrulist, values)
PROOF
<1>. QED
    BY DEF Listed, ListOf

\* The scan finds a command that is in the list.
LEMMA FoundIs ==
    ASSUME MruTypes, Orderly(mrulist, values), NEW cmd \in Commands
    PROVE  /\ Found(mrulist, values, cmd) > 0 =>
                /\ Found(mrulist, values, cmd) \in 1..Len(mrulist)
                /\ values[mrulist[Found(mrulist, values, cmd)]] = cmd
           /\ ~(Found(mrulist, values, cmd) > 0) => \A i \in 1..Len(mrulist) : values[mrulist[i]] # cmd
PROOF
<1>. DEFINE Here(i) == /\ values[mrulist[i]] = cmd
                       /\ \A j \in 1..(i - 1) : values[mrulist[j]] \notin {cmd, NoValue}
            found == Found(mrulist, values, cmd)
<1>1. Len(mrulist) \in Nat /\ DOMAIN mrulist = 1..Len(mrulist)
    BY ListIs
<1>2. CASE \E i \in DOMAIN mrulist : Here(i)
    <2>1. found = CHOOSE i \in DOMAIN mrulist : Here(i)
        BY <1>2 DEF Found
    <2>. HIDE DEF found
    <2>2. found \in DOMAIN mrulist /\ Here(found)
        BY <1>2, <2>1
    <2>3. found > 0
        BY <2>2, <1>1
    <2>. QED
        BY <2>2, <2>3, <1>1 DEF found
<1>3. CASE ~ \E i \in DOMAIN mrulist : Here(i)
    <2>1. found = 0
        BY <1>3 DEF Found
    <2>2. ASSUME NEW i \in 1..Len(mrulist) PROVE values[mrulist[i]] # cmd
        <3>1. i \in Nat /\ i > 0 /\ \A j \in 1..(i - 1) : j \in DOMAIN mrulist
            BY <1>1
        <3>2. \A j \in 1..(i - 1) : values[mrulist[j]] # NoValue
            BY <3>1 DEF Orderly
        <3>3. ASSUME values[mrulist[i]] = cmd PROVE FALSE
            <4>1. \A j \in 1..(i - 1) : values[mrulist[j]] # cmd
                <5>1. ASSUME NEW j \in 1..(i - 1), values[mrulist[j]] = cmd PROVE FALSE
                    <6>1. j = i
                        BY <5>1, <3>1, <3>3, <1>1 DEF Orderly
                    <6>. QED
                        BY <6>1, <3>1
                <5>. QED
                    BY <5>1
            <4>2. Here(i)
                BY <3>2, <3>3, <4>1
            <4>. QED
                BY <4>2, <1>1, <1>3
        <3>. QED
            BY <3>3
    <2>. QED
        BY <2>1, <2>2 DEF found
<1>. QED
    BY <1>2, <1>3

-----------------------------------------------------------------------------
(* The steps that touch RunMRU.                                            *)
BumpedList(s, at) ==
    [n \in DOMAIN s |-> IF n = 1 THEN s[at] ELSE IF n <= at THEN s[n - 1] ELSE s[n]]

\* A letter is moved to the front.
LEMMA BumpKeeps ==
    ASSUME MruTypes, Orderly(mrulist, values), NEW at \in 1..Len(mrulist)
    PROVE  LET list == Bumped(mrulist, at) IN
           /\ Orderly(list, values) /\ DOMAIN list = 1..Len(list)
           /\ ListOf(list, values) = BumpedList(ListOf(mrulist, values), at)
PROOF
<1>. DEFINE list == Bumped(mrulist, at)
            n == Len(mrulist)
            from(i) == IF i = 1 THEN at ELSE IF i <= at THEN i - 1 ELSE i
<1>1. list \in Seq(Letters) /\ Len(list) = n
    BY BumpedIsList
<1>2. n \in Nat /\ DOMAIN mrulist = 1..n
    BY ListIs
<1>. HIDE DEF n
<1>3. DOMAIN list = 1..n
    BY <1>1, SeqIs
<1>4. \A i \in 1..n : from(i) \in 1..n /\ list[i] = mrulist[from(i)]
    BY <1>2 DEF Bumped, n
<1>5. \A i, j \in 1..n : from(i) = from(j) => i = j
    BY <1>2 DEF n
<1>6. \A i \in 1..n : from(i) = IF i = 1 THEN at ELSE IF i <= at THEN i - 1 ELSE i
    OBVIOUS
<1>. HIDE DEF list, from
<1>7. FirstLetters(list, values)
    <2>1. \A i \in 1..n : mrulist[i] <= n
        BY <1>2 DEF Orderly, FirstLetters, n
    <2>2. \A l \in Letters : l > n => values[l] = NoValue
        BY DEF Orderly, FirstLetters, n
    <2>3. \A i \in DOMAIN list : list[i] <= Len(list)
        BY <2>1, <1>1, <1>3, <1>4
    <2>4. \A l \in Letters : l > Len(list) => values[l] = NoValue
        BY <2>2, <1>1, <1>3
    <2>. QED
        BY <2>3, <2>4 DEF FirstLetters
<1>8. Orderly(list, values)
    <2>1. \A i \in 1..n : values[list[i]] # NoValue
        <3>1. \A k \in 1..n : values[mrulist[k]] # NoValue
            BY <1>2 DEF Orderly
        <3>. QED
            BY <3>1, <1>4
    <2>2. ASSUME NEW i \in 1..n, NEW j \in 1..n, values[list[i]] = values[list[j]] PROVE i = j
        <3>1. \A a, b \in 1..n : values[mrulist[a]] = values[mrulist[b]] => a = b
            BY <1>2 DEF Orderly
        <3>2. from(i) \in 1..n /\ from(j) \in 1..n
              /\ values[mrulist[from(i)]] = values[mrulist[from(j)]]
            BY <2>2, <1>4
        <3>3. from(i) = from(j)
            BY <3>1, <3>2
        <3>. QED
            BY <3>3, <1>5
    <2>. QED
        BY <2>1, <2>2, <1>3, <1>7 DEF Orderly
<1>9. ListOf(list, values) = BumpedList(ListOf(mrulist, values), at)
    <2>. DEFINE s == ListOf(mrulist, values)
    <2>1. DOMAIN s = 1..n /\ \A i \in 1..n : s[i] = values[mrulist[i]]
        BY DEF ListOf, n
    <2>. HIDE DEF s
    <2>2. ListOf(list, values) = [i \in 1..n |-> values[list[i]]]
        BY <1>1 DEF ListOf
    <2>3. \A i \in 1..n : values[list[i]] = s[from(i)]
        BY <2>1, <1>4
    <2>4. \A i \in 1..n : s[from(i)] = IF i = 1 THEN s[at] ELSE IF i <= at THEN s[i - 1] ELSE s[i]
        BY <1>6
    <2>5. BumpedList(s, at) =
            [i \in 1..n |-> IF i = 1 THEN s[at] ELSE IF i <= at THEN s[i - 1] ELSE s[i]]
        BY <2>1 DEF BumpedList
    <2>. QED
        BY <2>2, <2>3, <2>4, <2>5 DEF s
<1>. QED
    BY <1>1, <1>3, <1>8, <1>9 DEF list

\* What a list with the new letter in front stands for, its value still to come.
WrittenList(list, vals) ==
    LET letters == IF vals[list[1]] = NoValue THEN Tail(list) ELSE Append(Tail(list), list[1])
    IN  [i \in DOMAIN letters |-> vals[letters[i]]]

LEMMA WrittenIs ==
    ASSUME NEW list \in Seq(Letters), list # <<>>, NEW vals
    PROVE  WrittenList(list, vals) =
             [i \in 1..(IF vals[list[1]] = NoValue THEN Len(list) - 1 ELSE Len(list)) |->
                vals[list[IF i < Len(list) THEN i + 1 ELSE 1]]]
PROOF
<1>. DEFINE t == Tail(list)
            n == Len(list)
            a == Append(t, list[1])
<1>1. n \in Nat /\ n > 0 /\ DOMAIN list = 1..n /\ list[1] \in Letters
    BY SeqIs, EmptySeq
<1>2. /\ t \in Seq(Letters) /\ Len(t) = n - 1
      /\ \A i \in 1..Len(t) : t[i] = list[i + 1]
    BY HeadTailProperties
<1>. HIDE DEF t, n
<1>3. DOMAIN t = 1..(n - 1)
    BY <1>2, SeqIs
<1>4. /\ a \in Seq(Letters) /\ Len(a) = Len(t) + 1
      /\ \A i \in 1..Len(t) : a[i] = t[i]
      /\ a[Len(t) + 1] = list[1]
    BY <1>1, <1>2, AppendProperties
<1>. HIDE DEF a
<1>5. Len(a) = n /\ DOMAIN a = 1..n
    <2>1. Len(a) = n
        BY <1>1, <1>2, <1>4
    <2>. QED
        BY <2>1, <1>4, SeqIs
<1>6. \A i \in 1..n : a[i] = list[IF i < n THEN i + 1 ELSE 1]
    BY <1>1, <1>2, <1>4
<1>7. \A i \in 1..(n - 1) : t[i] = list[IF i < n THEN i + 1 ELSE 1]
    BY <1>1, <1>2
<1>8. CASE vals[list[1]] = NoValue
    <2>1. WrittenList(list, vals) = [i \in 1..(n - 1) |-> vals[t[i]]]
        BY <1>3, <1>8 DEF WrittenList, t
    <2>2. [i \in 1..(n - 1) |-> vals[t[i]]] =
            [i \in 1..(n - 1) |-> vals[list[IF i < n THEN i + 1 ELSE 1]]]
        BY <1>7
    <2>. QED
        BY <2>1, <2>2, <1>8 DEF n
<1>9. CASE vals[list[1]] # NoValue
    <2>1. WrittenList(list, vals) = [i \in 1..n |-> vals[a[i]]]
        BY <1>5, <1>9 DEF WrittenList, a, t
    <2>2. [i \in 1..n |-> vals[a[i]]] = [i \in 1..n |-> vals[list[IF i < n THEN i + 1 ELSE 1]]]
        BY <1>6
    <2>. QED
        BY <2>1, <2>2, <1>9 DEF n
<1>. QED
    BY <1>8, <1>9

LEMMA ListedWritten == storing # NoValue => Listed = WrittenList(mrulist, values)
PROOF
<1>. QED
    BY DEF Listed, WrittenList

\* The first of the two writes: the list shown is as before.
LEMMA AddKeeps ==
    ASSUME MruTypes, Orderly(mrulist, values), NEW cmd \in Commands,
           \A i \in 1..Len(mrulist) : values[mrulist[i]] # cmd
    PROVE  LET list == Added(mrulist) IN
           /\ Storing(list, values, cmd)
           /\ WrittenList(list, values) = ListOf(mrulist, values)
PROOF
<1>. DEFINE list == Added(mrulist)
            n == Len(mrulist)
            m == IF n = MaxMru THEN MaxMru ELSE n + 1
            new == NewName(mrulist)
<1>1. list \in Seq(Letters)
    BY AddedIsList
<1>2. /\ n \in Nat /\ n <= MaxMru /\ DOMAIN mrulist = 1..n /\ MaxMru \in Nat \ {0}
      /\ Letters = 1..MaxMru
      /\ \A i \in 1..n : mrulist[i] \in 1..MaxMru
    BY ListIs
<1>3. list = [i \in 1..m |-> IF i = 1 THEN new ELSE mrulist[i - 1]]
    BY DEF Added
<1>4. new = IF n = MaxMru THEN mrulist[MaxMru] ELSE n + 1
    BY DEF NewName
<1>5. /\ \A i \in 1..n : mrulist[i] <= n /\ values[mrulist[i]] \notin {NoValue, cmd}
      /\ \A i, j \in 1..n : values[mrulist[i]] = values[mrulist[j]] => i = j
      /\ \A l \in 1..MaxMru : l > n => values[l] = NoValue
    BY <1>2 DEF Orderly, FirstLetters
<1>. HIDE DEF list, n, new
<1>6. m \in 1..MaxMru /\ m >= n /\ \A i \in 1..m : i # 1 => i - 1 \in 1..n
    BY <1>2
<1>7. DOMAIN list = 1..m /\ list[1] = new /\ \A i \in 1..m : i # 1 => list[i] = mrulist[i - 1]
    <2>1. 1 \in 1..m
        BY <1>6, <1>2
    <2>. HIDE DEF m
    <2>2. DOMAIN list = 1..m /\ \A i \in 1..m : list[i] = IF i = 1 THEN new ELSE mrulist[i - 1]
        BY <1>3
    <2>. QED
        BY <2>1, <2>2
<1>8. Len(list) = m /\ list # <<>>
    <2>1. DOMAIN list = 1..Len(list) /\ Len(list) \in Nat
        BY <1>1, SeqIs
    <2>. DEFINE k == Len(list)
    <2>2. k \in Nat /\ 1..k = 1..m /\ m \in Nat /\ m > 0
        BY <2>1, <1>6, <1>7
    <2>. HIDE DEF k, m
    <2>3. k = m
        BY <2>2
    <2>4. Len(list) = m /\ m > 0
        BY <2>2, <2>3 DEF k
    <2>. QED
        BY <2>4, <1>1, EmptySeq
<1>9. \* Which letter is the new one.
      \/ n = MaxMru /\ m = n /\ new = mrulist[n] /\ values[new] \notin {NoValue, cmd}
      \/ n < MaxMru /\ m = n + 1 /\ new = n + 1 /\ values[new] = NoValue
    <2>1. CASE n = MaxMru
        BY <2>1, <1>2, <1>4, <1>5
    <2>2. CASE n # MaxMru
        BY <2>2, <1>2, <1>4, <1>5
    <2>. QED
        BY <2>1, <2>2
<1>10. values[new] # cmd
    BY <1>9, NoValueAssumption
<1>11. \A i \in 1..m : i # 1 => values[list[i]] # values[new] /\ list[i] # new
    <2>. SUFFICES ASSUME NEW i \in 1..m, i # 1
                  PROVE  values[list[i]] # values[new] /\ list[i] # new
        OBVIOUS
    <2>1. i - 1 \in 1..n /\ list[i] = mrulist[i - 1]
        BY <1>6, <1>7
    <2>2. values[list[i]] # NoValue /\ list[i] <= n
        BY <2>1, <1>5
    <2>3. CASE new = n + 1 /\ values[new] = NoValue
        BY <2>2, <2>3, <1>2
    <2>4. CASE n = MaxMru /\ m = n /\ new = mrulist[n]
        <3>1. i - 1 # n /\ n \in 1..n
            BY <2>4, <1>2
        <3>2. values[mrulist[i - 1]] # values[mrulist[n]]
            BY <3>1, <2>1, <1>5
        <3>. QED
            BY <3>2, <2>1, <2>4
    <2>. QED
        BY <2>3, <2>4, <1>9
<1>12. FirstLetters(list, values)
    <2>1. new <= m
        BY <1>2, <1>5, <1>9
    <2>2. \A i \in 1..m : list[i] <= m
        <3>1. ASSUME NEW i \in 1..m, i # 1 PROVE list[i] <= m
            <4>1. i - 1 \in 1..n /\ list[i] = mrulist[i - 1]
                BY <3>1, <1>6, <1>7
            <4>2. list[i] \in 1..MaxMru /\ list[i] <= n
                BY <4>1, <1>2, <1>5
            <4>. QED
                BY <4>2, <1>2, <1>6
        <3>. QED
            BY <3>1, <2>1, <1>7
    <2>3. \A l \in Letters : l > m => values[l] = NoValue
        BY <1>2, <1>5, <1>6
    <2>. QED
        BY <2>2, <2>3, <1>7, <1>8 DEF FirstLetters
<1>13. \A i \in 1..m : i # 1 =>
        /\ values[list[i]] \notin {NoValue, cmd}
        /\ \A j \in 1..m : j # 1 /\ values[list[i]] = values[list[j]] => i = j
    <2>. SUFFICES ASSUME NEW i \in 1..m, i # 1
                  PROVE  /\ values[list[i]] \notin {NoValue, cmd}
                         /\ \A j \in 1..m : j # 1 /\ values[list[i]] = values[list[j]] => i = j
        OBVIOUS
    <2>1. i - 1 \in 1..n /\ list[i] = mrulist[i - 1]
        BY <1>6, <1>7
    <2>2. values[list[i]] \notin {NoValue, cmd}
        BY <2>1, <1>5
    <2>3. ASSUME NEW j \in 1..m, j # 1, values[list[i]] = values[list[j]] PROVE i = j
        <3>1. j - 1 \in 1..n /\ list[j] = mrulist[j - 1]
            BY <2>3, <1>6, <1>7
        <3>2. i - 1 = j - 1
            BY <2>1, <2>3, <3>1, <1>5
        <3>. QED
            BY <3>2, <1>6
    <2>. QED
        BY <2>2, <2>3
<1>14. Storing(list, values, cmd)
    <2>1. \A i, j \in 1..m : list[i] = list[j] => i = j
        BY <1>7, <1>11, <1>13
    <2>2. values[new] # NoValue => m = MaxMru
        BY <1>9
    <2>. QED
        BY <2>1, <2>2, <1>7, <1>8, <1>10, <1>11, <1>12, <1>13 DEF Storing
<1>15. WrittenList(list, values) = ListOf(mrulist, values)
    <2>. DEFINE k == IF values[list[1]] = NoValue THEN m - 1 ELSE m
    <2>1. WrittenList(list, values) =
            [i \in 1..k |-> values[list[IF i < m THEN i + 1 ELSE 1]]]
        BY <1>1, <1>8, WrittenIs
    <2>2. k = n
        BY <1>2, <1>7, <1>9
    <2>3. \A i \in 1..n : list[IF i < m THEN i + 1 ELSE 1] = mrulist[i]
        <3>. SUFFICES ASSUME NEW i \in 1..n PROVE list[IF i < m THEN i + 1 ELSE 1] = mrulist[i]
            OBVIOUS
        <3>1. CASE i < m
            <4>1. i + 1 \in 1..m /\ i + 1 # 1 /\ (i + 1) - 1 = i
                BY <3>1, <1>2, <1>6
            <4>2. list[i + 1] = mrulist[i]
                BY <4>1, <1>7
            <4>. QED
                BY <4>2, <3>1
        <3>2. CASE ~(i < m)
            <4>1. m = n /\ i = n /\ new = mrulist[n]
                BY <3>2, <1>2, <1>6, <1>9
            <4>. QED
                BY <4>1, <3>2, <1>7
        <3>. QED
            BY <3>1, <3>2
    <2>4. [i \in 1..n |-> values[list[IF i < m THEN i + 1 ELSE 1]]] = [i \in 1..n |-> values[mrulist[i]]]
        BY <2>3
    <2>. QED
        BY <2>1, <2>2, <2>4 DEF ListOf, n
<1>. QED
    BY <1>14, <1>15 DEF list

\* The second write: the command is the first one of the list.
LEMMA StoreKeeps ==
    ASSUME MruTypes, NEW cmd \in Commands, Storing(mrulist, values, cmd)
    PROVE  LET vals == [values EXCEPT ![mrulist[1]] = cmd]
               s == WrittenList(mrulist, values)
           IN  /\ Orderly(mrulist, vals)
               /\ s \in Seq(Commands) /\ Len(s) <= MaxMru /\ \A i \in DOMAIN s : s[i] # cmd
               /\ ListOf(mrulist, vals) = PutFirst(cmd, s)
PROOF
<1>. DEFINE new == mrulist[1]
            stored == values[new]
            vals == [values EXCEPT ![new] = cmd]
            n == Len(mrulist)
            k == IF stored = NoValue THEN n - 1 ELSE n
            s == WrittenList(mrulist, values)
<1>1. /\ n \in Nat /\ n <= MaxMru /\ DOMAIN mrulist = 1..n /\ MaxMru \in Nat \ {0}
      /\ Letters = 1..MaxMru
      /\ \A i \in 1..n : mrulist[i] \in 1..MaxMru
      /\ \A l \in 1..MaxMru : values[l] \in Commands \cup {NoValue}
    BY ListIs
<1>2. n > 0 /\ mrulist # <<>> /\ mrulist \in Seq(Letters)
    <2>1. mrulist # <<>> /\ mrulist \in Seq(Letters)
        BY DEF Storing, MruTypes
    <2>2. Len(mrulist) # 0
        BY <2>1, EmptySeq
    <2>. QED
        BY <2>1, <2>2, <1>1
<1>3. DOMAIN values = 1..MaxMru
    BY <1>1 DEF MruTypes
<1>4. /\ \A i \in 1..n : mrulist[i] <= n
      /\ \A l \in 1..MaxMru : l > n => values[l] = NoValue
      /\ \A i, j \in 1..n : mrulist[i] = mrulist[j] => i = j
      /\ stored # cmd /\ (stored # NoValue => n = MaxMru)
      /\ \A i \in 1..n : i # 1 =>
            /\ values[mrulist[i]] \notin {NoValue, cmd, stored}
            /\ \A j \in 1..n : j # 1 /\ values[mrulist[i]] = values[mrulist[j]] => i = j
    BY <1>1 DEF Storing, FirstLetters
<1>. HIDE DEF n
<1>5. new \in 1..MaxMru /\ new <= n /\ 1 \in 1..n
    BY <1>1, <1>2, <1>4
<1>. HIDE DEF new
<1>6. \A l \in 1..MaxMru : vals[l] = IF l = new THEN cmd ELSE values[l]
    BY <1>3
<1>. HIDE DEF vals
<1>7. /\ vals[new] = cmd
      /\ \A i \in 1..n : i # 1 => mrulist[i] # new /\ vals[mrulist[i]] = values[mrulist[i]]
    BY <1>1, <1>4, <1>5, <1>6 DEF new
<1>8. cmd # NoValue
    BY NoValueAssumption
<1>9. Orderly(mrulist, vals)
    <2>1. \A l \in 1..MaxMru : l > n => vals[l] = NoValue
        BY <1>1, <1>4, <1>5, <1>6
    <2>2. \A i \in 1..n : vals[mrulist[i]] # NoValue
        BY <1>4, <1>7, <1>8 DEF new
    <2>3. ASSUME NEW i \in 1..n, NEW j \in 1..n, vals[mrulist[i]] = vals[mrulist[j]] PROVE i = j
        <3>1. CASE i # 1 /\ j # 1
            BY <3>1, <2>3, <1>4, <1>7
        <3>2. CASE i = 1 \/ j = 1
            BY <3>2, <2>3, <1>4, <1>7 DEF new
        <3>. QED
            BY <3>1, <3>2
    <2>. QED
        BY <2>1, <2>2, <2>3, <1>1, <1>4 DEF Orderly, FirstLetters, n
<1>10. s = [i \in 1..k |-> values[mrulist[IF i < n THEN i + 1 ELSE 1]]]
    BY <1>2, WrittenIs DEF new, n
<1>. HIDE DEF s, stored
<1>11. k \in Nat /\ k <= n /\ (k = n => stored # NoValue) /\ (k # n => k + 1 = n)
    BY <1>1, <1>2
<1>. HIDE DEF k
<1>12. \A i \in 1..k : s[i] = IF i < n THEN values[mrulist[i + 1]] ELSE stored
    BY <1>10 DEF stored, new
<1>13. \A i \in 1..k : s[i] \in Commands /\ s[i] # cmd
    <2>. SUFFICES ASSUME NEW i \in 1..k PROVE s[i] \in Commands /\ s[i] # cmd
        OBVIOUS
    <2>1. CASE i < n
        <3>1. i + 1 \in 1..n /\ i + 1 # 1
            BY <2>1, <1>1
        <3>2. values[mrulist[i + 1]] \notin {NoValue, cmd} /\ values[mrulist[i + 1]] \in Commands \cup {NoValue}
            BY <3>1, <1>1, <1>4
        <3>. QED
            BY <3>2, <2>1, <1>12
    <2>2. CASE ~(i < n)
        <3>1. stored # NoValue
            BY <2>2, <1>1, <1>11
        <3>2. stored \in Commands /\ stored # cmd
            BY <3>1, <1>1, <1>4, <1>5 DEF stored
        <3>. QED
            BY <3>2, <2>2, <1>12
    <2>. QED
        BY <2>1, <2>2
<1>14. s \in Seq(Commands) /\ Len(s) = k /\ DOMAIN s = 1..k
    <2>1. s \in [1..k -> Commands]
        BY <1>10, <1>13
    <2>2. s \in Seq(Commands) /\ DOMAIN s = 1..k
        BY <2>1, <1>11, SeqDef
    <2>3. DOMAIN s = 1..Len(s) /\ Len(s) \in Nat
        BY <2>2, SeqIs
    <2>. QED
        BY <2>2, <2>3, <1>11
<1>15. ListOf(mrulist, vals) = PutFirst(cmd, s)
    <2>. DEFINE m == IF Len(s) = MaxMru THEN MaxMru ELSE Len(s) + 1
    <2>1. m = n
        <3>1. k = n => n = MaxMru
            BY <1>4, <1>11
        <3>2. k = MaxMru => n = MaxMru
            BY <1>1, <1>11
        <3>. QED
            BY <3>1, <3>2, <1>1, <1>11, <1>14
    <2>2. \A i \in 1..n : vals[mrulist[i]] = IF i = 1 THEN cmd ELSE s[i - 1]
        <3>. SUFFICES ASSUME NEW i \in 1..n, i # 1 PROVE vals[mrulist[i]] = s[i - 1]
            BY <1>7 DEF new
        <3>1. i - 1 \in 1..k /\ i - 1 < n /\ (i - 1) + 1 = i
            BY <1>1, <1>11
        <3>2. s[i - 1] = values[mrulist[(i - 1) + 1]]
            BY <3>1, <1>12
        <3>. QED
            BY <3>1, <3>2, <1>7
    <2>3. PutFirst(cmd, s) = [i \in 1..m |-> IF i = 1 THEN cmd ELSE s[i - 1]]
        BY DEF PutFirst
    <2>4. ListOf(mrulist, vals) = [i \in 1..n |-> vals[mrulist[i]]]
        BY DEF ListOf, n
    <2>. QED
        BY <2>1, <2>2, <2>3, <2>4
<1>16. Len(s) <= MaxMru
    BY <1>1, <1>11, <1>14
<1>. QED
    BY <1>9, <1>13, <1>14, <1>15, <1>16 DEF vals, s, new

-----------------------------------------------------------------------------
(* Every step, and what it is for MruView.                                 *)
LEMMA MruStart == InOrder /\ Init => MruInv /\ View!Init
PROOF
<1>. SUFFICES ASSUME InOrder, Init PROVE MruInv /\ View!Init
    OBVIOUS
<1>1. storing = NoValue /\ Orderly(mrulist, values)
    BY DEF Init, InOrder
<1>2. MruTypes
    BY InitIInv DEF IInv
<1>3. Listed = ListOf(mrulist, values)
    BY <1>1, <1>2, ListIs, ListedIs
<1>4. /\ Listed \in Seq(Commands) /\ Len(Listed) <= MaxMru /\ Once(Listed)
    BY <1>1, <1>2, <1>3, OrderlyList, ListIs
<1>. QED
    BY <1>1, <1>4 DEF MruInv, View!Init, Once

\* What leaves RunMRU alone, and the launched item unless a value is to come.
LEMMA MruRests ==
    ASSUME MruInv, UNCHANGED <<storing, mrulist, values>>,
           storing = NoValue \/ launching' = NoItem
    PROVE  MruInv' /\ UNCHANGED Listed
PROOF
<1>1. UNCHANGED Listed
    BY DEF Listed
<1>2. MruInv'
    BY DEF MruInv
<1>. QED
    BY <1>1, <1>2

LEMMA RememberStep ==
    ASSUME MruTypes, MruInv, storing = NoValue, NEW cmd \in Commands, Remember(cmd),
           UNCHANGED values, launching' = NoItem
    PROVE  MruInv' /\ (View!Run(cmd) \/ UNCHANGED Listed)
PROOF
<1>1. Orderly(mrulist, values)
    BY DEF MruInv
<1>. DEFINE s == ListOf(mrulist, values)
            at == Found(mrulist, values, cmd)
<1>2. Listed = s
    BY ListIs, ListedIs
<1>3. /\ s \in Seq(Commands) /\ Len(s) = Len(mrulist) /\ Once(s) /\ DOMAIN s = 1..Len(mrulist)
      /\ Len(s) <= MaxMru
    BY <1>1, OrderlyList, ListIs
<1>4. CASE at > 0
    <2>1. at \in 1..Len(mrulist) /\ values[mrulist[at]] = cmd
        BY <1>1, <1>4, FoundIs
    <2>2. mrulist' = Bumped(mrulist, at) /\ storing' = NoValue
        BY <1>4 DEF Remember
    <2>. HIDE DEF at
    <2>3. /\ Orderly(mrulist', values') /\ DOMAIN mrulist' = 1..Len(mrulist')
          /\ ListOf(mrulist', values') = BumpedList(s, at)
        BY <1>1, <2>1, <2>2, BumpKeeps
    <2>4. Listed' = BumpedList(s, at)
        <3>1. (storing = NoValue /\ DOMAIN mrulist = 1..Len(mrulist) => Listed = ListOf(mrulist, values))'
            BY ListedIs, PTL
        <3>. QED
            BY <3>1, <2>2, <2>3
    <2>5. s[at] = cmd
        BY <2>1 DEF ListOf
    <2>. HIDE DEF s
    <2>6. \E others \in View!Without(s, s[at]) : BumpedList(s, at) = View!Shortened(<<s[at]>> \o others)
        <3>1. at \in DOMAIN s
            BY <1>3, <2>1
        <3>2. \E others \in View!Without(s, s[at]) :
                 View!Shortened(<<s[at]>> \o others) = BumpedList(s, at)
            BY <1>3, <3>1, RunsAgain DEF BumpedList
        <3>. QED
            BY <3>2
    <2>7. View!Run(cmd)
        BY <2>4, <2>5, <2>6, <1>2 DEF View!Run
    <2>8. MruInv'
        BY <2>2, <2>3 DEF MruInv
    <2>. QED
        BY <2>7, <2>8
<1>5. CASE ~(at > 0)
    <2>1. \A i \in 1..Len(mrulist) : values[mrulist[i]] # cmd
        BY <1>1, <1>5, FoundIs
    <2>2. mrulist' = Added(mrulist) /\ storing' = cmd
        BY <1>5 DEF Remember
    <2>3. Storing(mrulist', values', cmd) /\ WrittenList(mrulist', values') = s
        BY <1>1, <2>1, <2>2, AddKeeps
    <2>4. storing' # NoValue
        BY <2>2, NoValueAssumption
    <2>5. Listed' = WrittenList(mrulist', values')
        <3>1. (storing # NoValue => Listed = WrittenList(mrulist, values))'
            BY ListedWritten, PTL
        <3>. QED
            BY <3>1, <2>4
    <2>6. MruInv'
        BY <2>2, <2>3, <2>4 DEF MruInv
    <2>. QED
        BY <2>3, <2>5, <2>6, <1>2
<1>. QED
    BY <1>4, <1>5

LEMMA StoreStep ==
    ASSUME MruTypes, MruInv, StoreValue
    PROVE  MruInv' /\ \E cmd \in Commands : View!Run(cmd)
PROOF
<1>1. /\ storing # NoValue /\ storing' = NoValue /\ mrulist' = mrulist
      /\ values' = [values EXCEPT ![mrulist[1]] = storing]
    BY DEF StoreValue
<1>2. storing \in Commands /\ Storing(mrulist, values, storing)
    BY <1>1 DEF MruTypes, MruInv
<1>. DEFINE s == WrittenList(mrulist, values)
<1>3. /\ Orderly(mrulist', values')
      /\ s \in Seq(Commands) /\ Len(s) <= MaxMru /\ \A i \in DOMAIN s : s[i] # storing
      /\ ListOf(mrulist', values') = PutFirst(storing, s)
    BY <1>1, <1>2, StoreKeeps
<1>4. Listed = s
    BY <1>1, ListedWritten
<1>5. Listed' = ListOf(mrulist', values')
    <2>1. (storing = NoValue /\ DOMAIN mrulist = 1..Len(mrulist) => Listed = ListOf(mrulist, values))'
        BY ListedIs, PTL
    <2>2. DOMAIN mrulist = 1..Len(mrulist)
        BY ListIs
    <2>. QED
        BY <2>1, <2>2, <1>1
<1>. HIDE DEF s
<1>6. \E others \in View!Without(s, storing) : View!Shortened(<<storing>> \o others) = PutFirst(storing, s)
    BY <1>2, <1>3, RunsNew
<1>7. View!Run(storing)
    BY <1>3, <1>4, <1>5, <1>6 DEF View!Run
<1>8. MruInv'
    BY <1>1, <1>3 DEF MruInv
<1>. QED
    BY <1>2, <1>7, <1>8

LEMMA MruNext ==
    ASSUME InOrder, UiTypes, MruTypes, MruInv, [Next]_vars
    PROVE  MruInv' /\ [View!Next]_Listed
PROOF
<1>1. CASE StoreValue
    BY <1>1, StoreStep DEF View!Next
<1>2. CASE ExecuteReturns
    <2>1. launching # NoItem /\ launching' = NoItem /\ UNCHANGED values
        BY <1>2 DEF ExecuteReturns
    <2>2. storing = NoValue
        BY <2>1 DEF MruInv
    <2>3. ToRemember \subseteq Commands
        BY DEF ToRemember, UiTypes, ITEM
    <2>4. CASE UNCHANGED <<mrulist, storing>>
        BY <2>1, <2>2, <2>4, MruRests
    <2>5. CASE \E cmd \in ToRemember : Remember(cmd)
        <3>1. PICK cmd \in Commands : Remember(cmd)
            BY <2>3, <2>5
        <3>. QED
            BY <3>1, <2>1, <2>2, RememberStep DEF View!Next
    <2>. QED
        BY <2>4, <2>5, <1>2 DEF ExecuteReturns
<1>3. CASE Crash
    <2>1. storing = NoValue /\ UNCHANGED <<storing, mrulist, values>>
        BY <1>3 DEF Crash, InOrder
    <2>. QED
        BY <2>1, MruRests
<1>4. CASE OnResults
    <2>1. storing = NoValue /\ UNCHANGED <<storing, mrulist, values>>
        BY <1>4 DEF OnResults, Pumping
    <2>. QED
        BY <2>1, MruRests
<1>5. CASE UiStep
    <2>1. storing = NoValue /\ UNCHANGED <<storing, mrulist, values>>
        BY <1>5 DEF UiStep, show_launcher, Escape, Enter, EnterNothing, Type, Pumping, run
    <2>. QED
        BY <2>1, MruRests
<1>6. CASE UNCHANGED run
    <2>1. UNCHANGED <<storing, mrulist, values, launching>>
        BY <1>6 DEF run
    <2>2. storing # NoValue => launching = NoItem
        BY DEF MruInv
    <2>. QED
        BY <2>1, <2>2, MruRests
<1>7. CASE ThreadCreated \/ SearchStep \/ IndexerStep \/ indexing_run \/ FilesChange \/ Settle
              \/ UNCHANGED vars
    <2>1. UNCHANGED run
        BY <1>7 DEF ThreadCreated, SearchStep, OpenIndex, FinishSearch, IndexerStep, BeginScan,
                    EndScan, DeleteIndex, MoveIndex, EndIndexer, indexing_run, FilesChange, Settle,
                    vars
    <2>. QED
        BY <2>1, <1>6
<1>. QED
    BY <1>1, <1>2, <1>3, <1>4, <1>5, <1>7 DEF Next, MainStep

\* The RunMRU list that launch keeps in the registry, letters, values and the moment
\* between two writes and all, is a list of recently run commands: each once, the last
\* one first, the oldest making room.  This is so from a list in order on, as long as
\* the shell is not killed between the two writes.
THEOREM RunMruImplements == ASSUME InOrder PROVE Spec => RunMruIsRecent
PROOF
<1>1. Init => MruInv /\ View!Init
    BY MruStart
<1>2. IInv /\ MruInv /\ [Next]_vars => MruInv' /\ [View!Next]_Listed
    BY MruNext DEF IInv
<1>. QED
    BY <1>1, <1>2, Invariance, PTL DEF Spec, RunMruIsRecent, View!Spec
=============================================================================
