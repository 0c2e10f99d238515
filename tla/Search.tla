-------------------------------- MODULE Search --------------------------------
(***************************************************************************)
(* What the launcher finds, shows and runs (launcher.cpp): the index made  *)
(* of the file system, the matches of a text in the index, in RunMRU and   *)
(* in the file system, their weights, the list the window paints around    *)
(* the selected item, the keys that move the selection and walk through    *)
(* directories, and the command a line stands for.  Launcher has the index *)
(* file, RunMRU and the windows; here they stay as they are, and there is  *)
(* one window.                                                             *)
(*                                                                         *)
(* A text is a sequence of pieces, as coarse as the tests on it: words,    *)
(* extensions with their dot, a leading dot, Slash, Blank and Quote.       *)
(* Pieces are equal whatever their case.  The caret is at the end of the   *)
(* text; elsewhere the keys edit as usual.                                 *)
(***************************************************************************)
EXTENDS Integers, SequencesExt, Subsequences

CONSTANTS
    Tree,        \* for each directory its entries, as they are enumerated
    PATH, PATHEXT,
    Special,     \* the folders of scan_special
    Target,      \* what the shell links point to
    Gone,        \* entries an old index may have for files that are gone
    RunMru,      \* its values as they are enumerated, each with its letter
    MRUList,
    Typed,       \* what may be typed
    Code,        \* the order of the pieces
    Dotted,      \* the pieces that are extensions
    SHOW_ITEMS,  \* rows (6 in the code)
    MaxRid       \* bound: searches

Slash == "\\"
Blank == " "
Quote == "\""

Pieces == DOMAIN Code
TEXT == Seq(Pieces)
FILE == [path : TEXT, shown : TEXT]

ASSUME BoundsAssumption == SHOW_ITEMS \in Nat \ {0} /\ SHOW_ITEMS % 2 = 0 /\ MaxRid \in Nat
ASSUME TextAssumption ==
    /\ {Slash, "explorer", ".exe"} \subseteq Pieces
    /\ Typed \subseteq TEXT
    /\ RunMru \in Seq([letter : Nat, line : TEXT]) /\ MRUList \in Seq(Nat)
    /\ PATH \in Seq(TEXT) /\ PATHEXT \in Seq(Pieces)
    /\ Gone \in Seq(FILE)
    /\ Code \in [Pieces -> Nat] /\ \A c, d \in Pieces : Code[c] = Code[d] => c = d

VARIABLES
    execs,               \* the index
    text, rid, last_rid,
    searches, messages,  \* search threads, and the results they have posted
    open, curr_results, selected,
    dirty,               \* the window waits for WM_PAINT
    painted,             \* the rows on the screen, and which one has the frame
    ran                  \* what the last launch executed

vars == <<execs, text, rid, last_rid, searches, messages, open, curr_results,
          selected, dirty, painted, ran>>

-----------------------------------------------------------------------------
(***************************************************************************)
(* The file system.                                                        *)
(***************************************************************************)
LastSlash(t) == SelectLastInSeq(t, LAMBDA c : c = Slash)
Base(t) == SubSeq(t, LastSlash(t) + 1, Len(t))
Dir(t) == SubSeq(t, 1, LastSlash(t) - 1)
Ext(t) == IF t = <<>> THEN "" ELSE Last(t)
PathIsDirectory(t) == t \in DOMAIN Tree
PathFileExists(t) ==
    \/ PathIsDirectory(t)
    \/ PathIsDirectory(Dir(t))
        /\ (Base(t) = <<>> \/ \E e \in Range(Tree[Dir(t)]) : e.name = Base(t))
Within(t, s) == \E i \in 0..(Len(s) - Len(t)) : SubSeq(s, i + 1, i + Len(t)) = t

\* Directories have names, and are in directories.
ASSUME TreeAssumption ==
    \A dir \in DOMAIN Tree :
        /\ dir \in TEXT \ {<<>>} /\ LastSlash(dir) # Len(dir)
        /\ LastSlash(dir) > 0 => Dir(dir) \in DOMAIN Tree
        /\ Tree[dir] \in Seq([name : TEXT, hidden : BOOLEAN])

\* The name shown for a file (SHGFI_DISPLAYNAME): a link's has no extension.
DisplayName(path) == IF Ext(path) = ".lnk" THEN Front(Base(path)) ELSE Base(path)

\* MatchRegexp returns -1 for no match, which is true as well: include_files and
\* exclude_files leave no file out.
Indexed(name, exe_only) ==
    exe_only => Ext(name) \in {".lnk", ".exe", ".cpl", ".msc", ".pif", ".bat", ".cmd", ".url"}

scan_dir[dir \in DOMAIN Tree, exe_only \in BOOLEAN] ==
    LET Scan(e) ==
            LET full == dir \o <<Slash>> \o e.name
            IN  IF e.hidden THEN <<>>
                ELSE IF PathIsDirectory(full)
                     THEN IF Head(e.name) = "." THEN <<>> ELSE scan_dir[full, exe_only]
                     ELSE IF Indexed(e.name, exe_only)
                          THEN << [path |-> full, shown |-> DisplayName(full)] >>
                          ELSE <<>>
    IN  FlattenSeq([i \in DOMAIN Tree[dir] |-> Scan(Tree[dir][i])])

Scanned(dirs, exe_only) ==
    FlattenSeq([i \in DOMAIN dirs |->
        IF PathIsDirectory(dirs[i]) THEN scan_dir[dirs[i], exe_only] ELSE <<>>])
scan_path == Scanned(PATH, TRUE)
scan_special == Scanned(Special, FALSE)

\* What is written is a path and a name at a time.
ASSUME IndexAssumption == scan_path \o scan_special \in Seq(FILE)

-----------------------------------------------------------------------------
(***************************************************************************)
(* Commands.                                                               *)
(***************************************************************************)
SkipBlanks(t) ==
    LET i == SelectInSeq(t, LAMBDA c : c # Blank)
    IN  IF i = 0 THEN <<>> ELSE SubSeq(t, i, Len(t))

CrackAtBlank(t) ==                    \* mutant: quotes are not looked at
    LET body == SkipBlanks(t)
        i == SelectInSeq(body, LAMBDA c : c = Blank)
        rest == IF i = 0 THEN <<>> ELSE SkipBlanks(SubSeq(body, i, Len(body)))
    IN  [cmd |-> SubSeq(body, 1, IF i = 0 THEN Len(body) ELSE i - 1),
         args |-> IF rest = <<>> THEN <<>> ELSE <<rest>>]

\* The command and its arguments; args is empty for a null pointer.
crack_args(t) ==
    LET s == SkipBlanks(t)
        quoted == s # <<>> /\ Head(s) = Quote
        body == IF quoted THEN Tail(s) ELSE s
        i == SelectInSeq(body, LAMBDA c : c = IF quoted THEN Quote ELSE Blank)
        rest == IF i = 0 THEN <<>>
                ELSE SkipBlanks(SubSeq(body, IF quoted THEN i + 1 ELSE i, Len(body)))
    IN  [cmd |-> SubSeq(body, 1, IF i = 0 THEN Len(body) ELSE i - 1),
         args |-> IF rest = <<>> THEN <<>> ELSE <<rest>>]

\* The file a command names, for its icon: itself, or the first of its name in a
\* directory of PATH, with the extensions of PATHEXT when it has none; or what
\* was tried last.
resolve_command_name(cmd) ==
    LET exts == IF Ext(cmd) \in Dotted THEN <<>> ELSE PATHEXT
        Try(k) == PATH[k[1]] \o <<Slash>> \o cmd \o (IF k[2] = 0 THEN <<>> ELSE <<exts[k[2]]>>)
        found == {k \in (DOMAIN PATH) \X (0..Len(exts)) : PathFileExists(Try(k))}
        Earlier(k, l) == k[1] < l[1] \/ (k[1] = l[1] /\ k[2] < l[2])
    IN  IF PathFileExists(cmd) \/ PATH = <<>> THEN cmd
        ELSE IF found = {} THEN Try(<<Len(PATH), Len(exts)>>)
        ELSE Try(CHOOSE k \in found : \A l \in found : ~Earlier(l, k))

-----------------------------------------------------------------------------
(***************************************************************************)
(* The items of a search, in the order they are added.                     *)
(***************************************************************************)
Item(show, command, weight, mru, icon) ==
    [show |-> show, cmd |-> command.cmd, args |-> command.args,
     weight |-> weight, mru |-> mru, icon |-> icon]
Plain(path) == [cmd |-> path, args |-> <<>>]

\* The elements of s at the places in I.
At(s, I) == [n \in 1..Cardinality(I) |-> s[NthOf(I, n)]]

IndexMatches(t) ==
    LET Found(e) == t # <<>> /\ (Within(t, Base(e.path)) \/ Within(t, e.shown))
        found == At(execs, {i \in DOMAIN execs : Found(execs[i])})
    IN  [i \in DOMAIN found |-> Item(found[i].shown, Plain(found[i].path), 0, FALSE, <<>>)]

\* The later in MRUList, the heavier.
MruWeight(letter) ==
    LET m == SelectInSeq(MRUList, LAMBDA l : l = letter)
    IN  IF m = 0 THEN 0 ELSE -(50 - (m - 1))

MruMatches(t) ==
    LET found == At(RunMru, {i \in DOMAIN RunMru : Within(t, RunMru[i].line)})
    IN  [i \in DOMAIN found |->
            Item(found[i].line, crack_args(found[i].line), MruWeight(found[i].letter), TRUE, <<>>)]

\* The entries of a directory, once its name has a backslash.  The icon is taken
\* at once.
filesystem_suggest(t) ==
    LET dir == Dir(t)
        Suggested(e) == ~e.hidden /\ IsPrefix(Base(t), e.name)
        found == IF LastSlash(t) > 0 /\ PathIsDirectory(dir)
                 THEN At(Tree[dir], {i \in DOMAIN Tree[dir] : Suggested(Tree[dir][i])})
                 ELSE <<>>
        Suggest(full) == Item(full, IF PathIsDirectory(full)
                                    THEN [cmd |-> <<"explorer", ".exe">>, args |-> <<full>>]
                                    ELSE Plain(full), 0, FALSE, full)
    IN  [i \in DOMAIN found |-> Suggest(dir \o <<Slash>> \o found[i].name)]

Candidates(t) == IndexMatches(t) \o MruMatches(t) \o filesystem_suggest(t)

\* t is the text in the window, not the one that is searched for.
calc_item_weight(item, t) ==
    LET kind == IF item.weight # 0 THEN 0
                ELSE IF Ext(item.cmd) = ".lnk" THEN 5
                ELSE IF Ext(item.cmd) = ".exe" THEN 2 ELSE 0
        same == (IF item.cmd = t THEN 10 ELSE 0) + (IF item.show = t THEN 10 ELSE 0)
    IN  [item EXCEPT !.weight = @ - kind - same]

SameCommand(a, b) ==                  \* mutant: where links lead is not looked at
    a.args = <<>> /\ b.args = <<>> /\ a.cmd = b.cmd

\* Arguments are compared as pointers: only null ones are equal.
is_same_link(a, b) ==
    /\ a.args = <<>> /\ b.args = <<>>
    /\ \/ a.cmd = b.cmd
       \/ /\ {a.cmd, b.cmd} \subseteq DOMAIN Target
          /\ Target[a.cmd] = Target[b.cmd]

add_to_results(list, item, t) ==
    IF \E i \in DOMAIN list : is_same_link(list[i], item) THEN list
    ELSE Append(list, calc_item_weight(item, t))

ShownBefore(s, t) ==
    \E n \in 0..Len(s) :
        /\ n < Len(t)
        /\ SubSeq(s, 1, n) = SubSeq(t, 1, n)
        /\ n = Len(s) \/ Code[s[n + 1]] < Code[t[n + 1]]
compare_items(a, b) ==
    a.weight < b.weight \/ (a.weight = b.weight /\ ShownBefore(a.show, b.show))

\* qsort, which may leave items that compare equal in any order.
GoesBefore(list, up, i, j) ==
    \/ compare_items(list[i], list[j])
    \/ ~compare_items(list[j], list[i]) /\ IF up THEN i < j ELSE i > j
Place(list, up, i) == 1 + Cardinality({j \in DOMAIN list : GoesBefore(list, up, j, i)})
Sorted(list, up) ==
    [n \in DOMAIN list |-> list[CHOOSE i \in DOMAIN list : Place(list, up, i) = n]]

-----------------------------------------------------------------------------
(***************************************************************************)
(* Painting.                                                               *)
(***************************************************************************)
WholePages(n, sel) ==                 \* mutant: one row too late
    IF sel <= SHOW_ITEMS THEN 0 ELSE sel - SHOW_ITEMS

\* The first item painted, of n when the item at sel (from 0) is selected.
first_offset(n, sel) ==
    LET first == IF sel < SHOW_ITEMS \div 2 THEN 0
                 ELSE IF sel > n - SHOW_ITEMS \div 2 THEN n - SHOW_ITEMS
                 ELSE sel - SHOW_ITEMS \div 2
    IN  IF first < 0 THEN 0 ELSE first

\* The rows, and the icons the items have from then on.
Rows(list, sel) ==
    LET first == first_offset(Len(list), sel)
        InView(i) == first < i /\ i <= first + SHOW_ITEMS
        Icon(item) ==
            LET name == resolve_command_name(item.cmd)
            IN  IF item.icon = <<>> /\ PathFileExists(name) THEN [item EXCEPT !.icon = name]
                ELSE item
        items == [i \in DOMAIN list |-> IF InView(i) THEN Icon(list[i]) ELSE list[i]]
        last == IF first + SHOW_ITEMS < Len(list) THEN first + SHOW_ITEMS ELSE Len(list)
    IN  [items |-> items,
         shown |-> [rows |-> SubSeq(items, first + 1, last), frame |-> sel - first + 1]]

NoRows == [rows |-> <<>>, frame |-> 1]

-----------------------------------------------------------------------------
(***************************************************************************)
(* The window, and its searches.                                           *)
(***************************************************************************)
SetPainted(list, sel) ==
    /\ curr_results' = Rows(list, sel).items
    /\ painted' = Rows(list, sel).shown
    /\ dirty' = FALSE

kick_off_update(t) ==
    /\ rid < MaxRid
    /\ rid' = rid + 1
    /\ searches' = searches \cup {[rid |-> rid, todo |-> Candidates(t), found |-> <<>>]}

show_launcher ==
    /\ ~open
    /\ open' = TRUE
    /\ text' = <<>>
    /\ ran' = {}
    /\ SetPainted(<<>>, selected)
    /\ kick_off_update(<<>>)
    /\ UNCHANGED <<execs, last_rid, messages, selected>>

\* The edit control has a new text.
SetWindowText(t) ==
    /\ text' = t
    /\ IF t = text THEN UNCHANGED <<rid, searches>> ELSE kick_off_update(t)
    /\ UNCHANGED <<execs, last_rid, messages, open, curr_results, selected, dirty,
                   painted, ran>>

Type(t) == open /\ t # text /\ SetWindowText(t)

\* find_match, one item at a time.
Find(s) ==
    /\ s.todo # <<>>
    /\ searches' = (searches \ {s}) \cup
          {[s EXCEPT !.todo = Tail(@), !.found = add_to_results(@, Head(s.todo), text)]}
    /\ UNCHANGED <<execs, text, rid, last_rid, messages, open, curr_results, selected,
                   dirty, painted, ran>>

FindMatchEnds(s) ==
    /\ s.todo = <<>>
    /\ searches' = searches \ {s}
    /\ \E up \in BOOLEAN :
          messages' = IF open THEN Append(messages, [rid |-> s.rid, items |-> Sorted(s.found, up)])
                      ELSE messages
    /\ UNCHANGED <<execs, text, rid, last_rid, open, curr_results, selected, dirty,
                   painted, ran>>

\* WM_USER; recalc_size paints at once.
OnResults ==
    /\ messages # <<>>
    /\ messages' = Tail(messages)
    /\ LET m == Head(messages)
       IN  IF m.rid >= last_rid
           THEN last_rid' = m.rid /\ selected' = 0 /\ SetPainted(m.items, 0)
           ELSE UNCHANGED <<last_rid, selected, curr_results, painted, dirty>>
    /\ UNCHANGED <<execs, text, rid, searches, open, ran>>

Paint ==
    /\ open /\ dirty
    /\ SetPainted(curr_results, selected)
    /\ UNCHANGED <<execs, text, rid, last_rid, searches, messages, open, selected, ran>>

\* WM_DESTROY.
DestroyWindow ==
    /\ open' = FALSE /\ messages' = <<>> /\ curr_results' = <<>>
    /\ painted' = NoRows /\ dirty' = FALSE
    /\ UNCHANGED <<execs, text, rid, last_rid, searches, selected>>

Escape == open /\ DestroyWindow /\ UNCHANGED ran

-----------------------------------------------------------------------------
(***************************************************************************)
(* Keys.                                                                   *)
(***************************************************************************)
Move(sel) ==
    /\ selected' = sel
    /\ dirty' = TRUE
    /\ UNCHANGED <<execs, text, rid, last_rid, searches, messages, open, curr_results,
                   painted, ran>>

Up == open /\ curr_results # <<>> /\ selected # 0 /\ Move(selected - 1)
Down == open /\ selected < Len(curr_results) - 1 /\ Move(selected + 1)

Chosen == curr_results[selected + 1]

Right ==
    /\ open /\ curr_results # <<>>
    /\ PathFileExists(Chosen.show)
    /\ SetWindowText(IF PathIsDirectory(Chosen.show) THEN Append(Chosen.show, Slash)
                     ELSE Chosen.show)

UpToSlash(t) == SubSeq(t, 1, LastSlash(t))

ParentOnce(t) ==                      \* mutant: a last backslash is only taken off
    IF LastSlash(t) = Len(t) /\ t # <<>> THEN Front(t) ELSE UpToSlash(t)

\* The directory above, of a path with or without a last backslash.
Parent(t) ==
    IF LastSlash(t) = 0 THEN t
    ELSE IF LastSlash(t) < Len(t) THEN UpToSlash(t)
    ELSE IF LastSlash(Front(t)) = 0 THEN Front(t) ELSE UpToSlash(Front(t))

Left == open /\ PathFileExists(text) /\ SetWindowText(Parent(text))

\* Enter: the selected item, or the text; nothing when there is neither.
launch ==
    /\ open
    /\ LET Run(line, command, mru) ==
              ran' = {[line |-> line, cmd |-> command.cmd, args |-> command.args, mru |-> mru]}
       IN  IF selected < Len(curr_results) THEN Run(Chosen.show, Chosen, Chosen.mru)
           ELSE IF text # <<>> THEN Run(text, crack_args(text), TRUE)
           ELSE UNCHANGED ran
    /\ DestroyWindow

-----------------------------------------------------------------------------
Init ==
    /\ \E old \in {<<>>, Gone} : execs = scan_path \o scan_special \o old
    /\ text = <<>> /\ rid = 0 /\ last_rid = 0
    /\ searches = {} /\ messages = <<>>
    /\ open = FALSE /\ curr_results = <<>> /\ selected = 0
    /\ dirty = FALSE /\ painted = NoRows
    /\ ran = {}

Next ==
    \/ show_launcher \/ Escape \/ launch
    \/ \E t \in Typed : Type(t)
    \/ Up \/ Down \/ Right \/ Left
    \/ \E s \in searches : Find(s) \/ FindMatchEnds(s)
    \/ OnResults \/ Paint

Spec == Init /\ [][Next]_vars

-----------------------------------------------------------------------------
(***************************************************************************)
(* Properties.                                                             *)
(***************************************************************************)
TypeOK ==
    /\ rid \in 0..MaxRid /\ last_rid \in 0..rid
    /\ selected \in Nat /\ (curr_results # <<>> => selected < Len(curr_results))
    /\ \A s \in searches : s.rid < rid
    /\ open \/ (messages = <<>> /\ curr_results = <<>> /\ ~dirty)

Settled == open /\ searches = {} /\ messages = <<>>

\* Two items without arguments that name one file, or links to one file.
SameProgram(a, b) ==
    /\ a.args = <<>> /\ b.args = <<>>
    /\ \/ a.cmd = b.cmd
       \/ \E file \in Range(Target) :
             {<<a.cmd, file>>, <<b.cmd, file>>} \subseteq {<<c, Target[c]>> : c \in DOMAIN Target}

\* Once the searches are over the list has every program that matches the text,
\* once, though a directory may be in PATH twice and a link be on the desktop as
\* well as in the menu, and in the order the text in the window gives them; the
\* searches weigh their items with that text while it changes (launcher.cpp:124).
SettledIsRanked ==
    Settled =>
        LET found == Candidates(text)
            Weighed == {calc_item_weight(found[i], text) : i \in DOMAIN found}
            list == [i \in DOMAIN curr_results |-> [curr_results[i] EXCEPT !.icon = <<>>]]
            Listed(item) == \E i \in DOMAIN list : list[i] = [item EXCEPT !.icon = <<>>]
        IN  /\ \A item \in Weighed :
                   Listed(item) \/ \E i \in DOMAIN list : SameProgram(list[i], item)
            /\ \A i \in DOMAIN list : \E item \in Weighed : list[i] = [item EXCEPT !.icon = <<>>]
            /\ \A i, j \in DOMAIN list :
                   i < j => ~SameProgram(list[i], list[j]) /\ ~compare_items(list[j], list[i])

\* The item that Enter runs and Right enters is the one in the frame, wherever in
\* the list it is; as many rows are painted as there is room for, and each has an
\* icon when its file, or one of its name on the PATH, is there.
SelectedIsShown ==
    /\ TypeOK
    /\ open /\ ~dirty /\ curr_results # <<>> =>
          LET rows == painted.rows IN
          /\ painted.frame \in DOMAIN rows /\ rows[painted.frame] = Chosen
          /\ Len(rows) = IF Len(curr_results) < SHOW_ITEMS THEN Len(curr_results) ELSE SHOW_ITEMS
          /\ \A i \in DOMAIN rows : rows[i].icon = <<>> =>
                 /\ ~PathFileExists(rows[i].cmd)
                 /\ \A d \in Range(PATH) :
                        LET there == d \o <<Slash>> \o rows[i].cmd
                        IN  /\ ~PathFileExists(there)
                            /\ Ext(rows[i].cmd) \notin Dotted =>
                                   \A e \in Range(PATHEXT) : ~PathFileExists(there \o <<e>>)

\* A line runs as it is meant: up to the first blank, or what is in quotes, and
\* the rest its arguments, whether it is typed or taken from RunMRU.
Blanks(n) == {[i \in 1..k |-> Blank] : k \in 0..n}
Means(line, cmd, args) ==
    \E lead, gap \in Blanks(Len(line)) :
        \/ /\ line = lead \o cmd \o gap \o args
           /\ ~Contains(cmd, Blank) /\ ~IsPrefix(<<Quote>>, cmd)
           /\ args = <<>> \/ gap # <<>>
        \/ /\ line = lead \o <<Quote>> \o cmd \o <<Quote>> \o gap \o args
           /\ ~Contains(cmd, Quote)
        \/ line = lead \o <<Quote>> \o cmd /\ args = <<>> /\ ~Contains(cmd, Quote)
RunsAsTyped ==
    \A run \in ran : run.mru =>
        LET args == IF run.args = <<>> THEN <<>> ELSE Head(run.args)
        IN  ~IsPrefix(<<Blank>>, args) /\ Means(run.line, run.cmd, args)

\* The cursor keys walk through the directories ("popup up a level", "enter that
\* path", launcher.cpp:732-764): Left leaves one directory for the one it is in,
\* and Right enters what is there.
KeysWalkDirectories ==
    [][/\ Left /\ text' # text =>
             LET left == SubSeq(text, Len(text') + 1, Len(text)) IN
             /\ IsPrefix(text', text)
             /\ LastSlash(left) \in {0, Len(left)}
             /\ PathIsDirectory(Dir(Append(text', Slash))) \/ PathIsDirectory(Dir(text'))
             /\ LastSlash(text') \in {0, Len(text')}
       /\ Right => /\ PathFileExists(text')
                   /\ ~PathIsDirectory(text')]_vars
=============================================================================
