------------------------------- MODULE Rules -------------------------------
(***************************************************************************)
(* The configuration (contextmenu.cpp, parse_context_menu, and the look-ups *)
(* of wezdesk.cpp): a file is read line by line, each line changes what the *)
(* lines before it set up, and a line that is refused shows a box.  The box *)
(* is a message loop: while it is up, windows open, programs are started    *)
(* and plugins look settings up, with the lines read so far.                *)
(*                                                                         *)
(* A line is a sequence of words, and a text one value: escapes are left    *)
(* out, and a pattern is known by the texts it matches (module Regex).      *)
(* A token is named by its line and its place in it, to tell which part of  *)
(* the program has to free it.                                              *)
(***************************************************************************)
EXTENDS Naturals, FiniteSets, SequencesExt, Subsequences

CONSTANTS Families,  \* what a file is made of: sets of lines
          MaxLines, MaxUses,
          Value,     \* the constants: name -> text
          Patterns,  \* the patterns that compile: pattern -> texts that match
          Plugins,   \* plugin -> [menu, early: the settings read when it starts]
          Registry,  \* <<plugin, setting>> -> value
          NewWindows,   \* window -> its CAPTION, MODULE and CLASS
          Programs,  \* the commands that are started
          Settings, MenuNames

Null == "null"
ASSUME RulesAssumption ==
    /\ MaxLines \in Nat /\ MaxUses \in Nat
    /\ \A p \in DOMAIN Plugins : DOMAIN Plugins[p] = {"menu", "early"}
    /\ {"core", "slit"} \cap DOMAIN Plugins = {}   \* SET means others by these
    /\ Null \notin MenuNames
    /\ \A w \in DOMAIN NewWindows : DOMAIN NewWindows[w] = {"CAPTION", "MODULE", "CLASS"}

(* What the file has set up.                                               *)
VARIABLES
    menu_defs, mdef,     \* the menus, and the one that is being defined
    safer_matches, window_matches, hotkeys,
    slits, plugins,      \* in the order of their creation
    core_config
config == <<menu_defs, mdef, safer_matches, window_matches, hotkeys, slits, plugins, core_config>>
VARIABLES
    family,  \* of the file
    file,    \* the lines read
    lineno,  \* as the program counts them
    phase,   \* "parsing", "box", "running", "ended", "crashed"
    boxes,   \* the line numbers of the boxes shown
    freed_tokens,   \* the tokens freed
    did      \* (history) what was done, and after how many lines
rules_vars == <<config, family, file, lineno, phase, boxes, freed_tokens, did>>

-----------------------------------------------------------------------------
(* tokenize_line: at most MAX_TOKENS texts, up to a # that begins a word.   *)
MAX_TOKENS == 10
WordTypes == {"word", "quoted", "constant", "hash"}
Word(t) == [q |-> "word", t |-> t]
Quoted(t) == [q |-> "quoted", t |-> t]
Const(t) == [q |-> "constant", t |-> t]    \* $...
Hash(t) == [q |-> "hash", t |-> t]
resolve_constant(c) == IF c \in DOMAIN Value THEN Value[c] ELSE ""
Text(w) == IF w.q = "constant" THEN resolve_constant(w.t) ELSE w.t
tokenize_line(line) ==
    LET hashes == {i \in DOMAIN line : line[i].q = "hash"}
        n == IF hashes = {} THEN Len(line) ELSE Min(hashes) - 1
    IN [i \in 1 .. Min({n, MAX_TOKENS}) |-> Text(line[i])]
\* No text is the null pointer.
ASSUME LinesAssumption ==
    \A lines \in Families : \A line \in lines :
        /\ line \in Seq([q : WordTypes, t : STRING])
        /\ \A i \in DOMAIN line : Text(line[i]) \in STRING /\ Text(line[i]) # Null

(* resolve_hotkey_modifier: a name is the first alias that it abbreviates.  *)
(* The texts are those of the lines, taken apart at each |.                 *)
Aliases == <<"ALT", "WIN", "CTRL", "SHIFT", "">>
Names(t) == CASE t = "CTRL|ALT" -> <<"CTRL", "ALT">> [] t = "W|ALT" -> <<"W", "ALT">> [] OTHER -> <<t>>
Abbreviates(t, alias) == t \in {alias, ""} \/ (t = "W" /\ alias = "WIN")
Modifier(t) ==
    LET found == {i \in DOMAIN Aliases : Abbreviates(t, Aliases[i])}
    IN IF found = {} THEN {} ELSE {Aliases[Min(found)]} \ {""}
resolve_hotkey_modifier(t) == UNION {Modifier(n) : n \in ToSet(Names(t))}
resolve_hotkey_name(t) == IF t \in {"F1", "R", "#91"} THEN t ELSE "0"
resolve_grav(t) == IF t \in {"RIGHT", "TOP", "BOTTOM", "MIDDLE"} THEN t ELSE "LEFT"
Level(t) == IF t \in {"UNTRUSTED", "CONSTRAINED"} THEN t ELSE "NORMAL"

-----------------------------------------------------------------------------
(* A line that is done frees the tokens at FREES; those at KEEPS belong to  *)
(* what it made.                                                           *)
Token(i) == <<lineno', i>>
Tokens(is) == {Token(i) : i \in is}
At(t, i) == IF i \in DOMAIN t THEN t[i] ELSE Null
Done(frees) == /\ phase' = "parsing" /\ freed_tokens' = freed_tokens \cup Tokens(frees) /\ UNCHANGED boxes
config_error == /\ phase' = "box" /\ boxes' = Append(boxes, lineno') /\ UNCHANGED freed_tokens
Crash == phase' = "crashed" /\ UNCHANGED <<boxes, freed_tokens>>

(* wrap_up_vec: the menu that is being defined is complete.                 *)
NoDef == [name |-> Null, items |-> <<>>, plugin |-> FALSE, own |-> {}]
LostMenu == menu_defs     \* mutant: nothing is done at the end of the file
wrap_up_vec == IF mdef.name = Null THEN menu_defs ELSE Append(menu_defs, mdef)

CONTEXTMENU(t) ==
    /\ menu_defs' = wrap_up_vec
    /\ IF Len(t) # 2 THEN mdef' = NoDef /\ config_error
       ELSE mdef' = [NoDef EXCEPT !.name = t[2], !.own = Tokens({2})] /\ Done({1})
    /\ UNCHANGED <<safer_matches, window_matches, hotkeys, slits, plugins, core_config>>

(* MergeDirs, SubMenu, Execute, Func and Separator: all but the last keep   *)
(* every text but their own name.  Without a menu to add to there is no     *)
(* root to dereference.                                                     *)
LooseArity == [MergeDirs |-> {4}, SubMenu |-> {3}, Execute |-> 3 .. 5, Func |-> {4},
               Separator |-> {1}]    \* mutant: Execute without a file
Arity == [MergeDirs |-> {4}, SubMenu |-> {3}, Execute |-> {4, 5}, Func |-> {4}, Separator |-> {1}]
Built(kind, args, keeps) == [kind |-> kind, args |-> args, own |-> Tokens(keeps)]
MenuItem(t) ==
    /\ IF Len(t) \notin Arity[t[1]] THEN config_error /\ UNCHANGED mdef
       ELSE IF mdef.name = Null THEN Crash /\ UNCHANGED mdef
       ELSE /\ mdef' = [mdef EXCEPT !.items = Append(@, Built(t[1], Tail(t), 2 .. Len(t)))]
            /\ Done({1})
    /\ UNCHANGED <<menu_defs, safer_matches, window_matches, hotkeys, slits, plugins, core_config>>

SaferExec(t) ==
    /\ IF Len(t) # 3 \/ At(t, 3) \notin DOMAIN Patterns THEN config_error /\ UNCHANGED safer_matches
       ELSE /\ safer_matches' = Append(safer_matches, [level |-> Level(t[2]), re |-> t[3]])
            /\ Done({1, 2, 3})
    /\ UNCHANGED <<menu_defs, mdef, window_matches, hotkeys, slits, plugins, core_config>>

(* HOTKEY: register_hotkey puts it in the place of an earlier one.          *)
GreedyKeeps(t) == 4 .. Len(t)    \* mutant: the word Func is kept, and freed
HotkeyKeeps(t) == {1, 5} \cup
    (IF t[4] = "Func" THEN {6} \cap DOMAIN t
     ELSE IF Len(t) = 7 THEN {6, 7} ELSE {6} \cap DOMAIN t)
HotkeyArgs(t) == IF t[4] = "Func" THEN <<t[5], At(t, 6)>>
                 ELSE <<t[5], At(t, 6), IF Len(t) = 7 THEN t[7] ELSE "">>
HOTKEY(t) ==
    /\ IF Len(t) < 5 \/ At(t, 4) \notin {"Func", "Execute"} THEN config_error /\ UNCHANGED hotkeys
       ELSE /\ LET key == <<resolve_hotkey_modifier(t[2]), resolve_hotkey_name(t[3])>>
               IN hotkeys' = [k \in DOMAIN hotkeys \cup {key} |->
                      IF k = key THEN Built(t[4], HotkeyArgs(t), HotkeyKeeps(t)) ELSE hotkeys[k]]
            /\ Done({2, 3, 4})
    /\ UNCHANGED <<menu_defs, mdef, safer_matches, window_matches, slits, plugins, core_config>>

SLIT(t) ==
    /\ IF Len(t) \notin {2, 3} THEN config_error /\ UNCHANGED slits
       ELSE /\ slits' = Append(slits,
                 IF Len(t) = 3 THEN [align |-> resolve_grav(t[2]), grav |-> resolve_grav(t[3]),
                                     name |-> Null, config |-> <<>>]
                 ELSE [align |-> "RIGHT", grav |-> "BOTTOM", name |-> t[2], config |-> <<>>])
            /\ Done(DOMAIN t)
    /\ UNCHANGED <<menu_defs, mdef, safer_matches, window_matches, hotkeys, plugins, core_config>>

(* core_get_plugin_string: the first SET line, the registry, the default.   *)
Setting(name, value) == [name |-> name, value |-> value]
FirstSet(found) == Min(found)
core_get_plugin_string(plugin, settings, name) ==
    LET found == {i \in DOMAIN settings : settings[i].name = name}
    IN IF found # {} THEN settings[FirstSet(found)].value
       ELSE IF <<plugin, name>> \in DOMAIN Registry THEN Registry[<<plugin, name>>] ELSE Null

(* LOAD: core_load_plugin calls initialize, which reads settings and may    *)
(* register a menu, before the plugin is in the list.                       *)
LOAD(t) ==
    /\ IF Len(t) # 2 THEN config_error /\ UNCHANGED <<plugins, menu_defs>>
       ELSE /\ Done({1, 2})
            /\ IF t[2] \notin DOMAIN Plugins THEN UNCHANGED <<plugins, menu_defs>>
               ELSE /\ plugins' = Append(plugins, [name |-> t[2], slit |-> Len(slits), config |-> <<>>,
                          early |-> [s \in Plugins[t[2]].early |-> core_get_plugin_string(t[2], <<>>, s)]])
                    /\ menu_defs' = IF Plugins[t[2]].menu = Null THEN menu_defs
                          ELSE Append(menu_defs, [NoDef EXCEPT !.name = Plugins[t[2]].menu, !.plugin = TRUE])
    /\ UNCHANGED <<mdef, safer_matches, window_matches, hotkeys, slits, core_config>>

MATCH(t) ==
    /\ IF Len(t) < 5 \/ At(t, 4) \notin DOMAIN Patterns THEN config_error /\ UNCHANGED window_matches
       ELSE /\ window_matches' = Append(window_matches,
                 [type |-> t[2], prop |-> t[3], re |-> t[4], func |-> t[5], arg |-> At(t, 6),
                  own |-> Tokens({2, 3, 5, 6} \cap DOMAIN t)])
            /\ Done({1, 4})
    /\ UNCHANGED <<menu_defs, mdef, safer_matches, hotkeys, slits, plugins, core_config>>

(* SET: for the latest slit, the core, or the first plugin of that name.    *)
First(name) == Min({p \in DOMAIN plugins : plugins[p].name = name})
SET(t) ==
    LET s == Setting(At(t, 3), At(t, 4)) IN
    /\ IF Len(t) # 4 THEN config_error /\ UNCHANGED <<slits, core_config, plugins>>
       ELSE IF t[2] = "slit" /\ slits = <<>> THEN Crash /\ UNCHANGED <<slits, core_config, plugins>>
       ELSE /\ Done(1 .. 4)
            /\ slits' = IF t[2] = "slit" THEN [slits EXCEPT ![Len(slits)].config = Append(@, s)] ELSE slits
            /\ core_config' = IF t[2] = "core" THEN Append(core_config, s) ELSE core_config
            /\ plugins' = IF t[2] \notin {"slit", "core"} /\ \E p \in DOMAIN plugins : plugins[p].name = t[2]
                          THEN [plugins EXCEPT ![First(t[2])].config = Append(@, s)] ELSE plugins
    /\ UNCHANGED <<menu_defs, mdef, safer_matches, window_matches, hotkeys>>

LineTypes == {"CONTEXTMENU", "SaferExec", "HOTKEY", "SLIT", "LOAD", "MATCH", "SET"} \cup DOMAIN Arity
parse_context_menu(t) ==
    \/ t = <<>> /\ Done({}) /\ UNCHANGED config
    \/ t # <<>> /\ \/ t[1] = "CONTEXTMENU" /\ CONTEXTMENU(t)
                   \/ t[1] \in DOMAIN Arity /\ MenuItem(t)
                   \/ t[1] = "SaferExec" /\ SaferExec(t)
                   \/ t[1] = "HOTKEY" /\ HOTKEY(t)
                   \/ t[1] = "SLIT" /\ SLIT(t)
                   \/ t[1] = "LOAD" /\ LOAD(t)
                   \/ t[1] = "MATCH" /\ MATCH(t)
                   \/ t[1] = "SET" /\ SET(t)
                   \/ t[1] \notin LineTypes /\ config_error /\ UNCHANGED config

(* An empty line is passed over with the end of the one before it, and is   *)
(* not counted.                                                            *)
ReadLine ==
    /\ phase = "parsing" /\ Len(file) < MaxLines
    /\ \E line \in family :
          /\ file' = Append(file, line)
          /\ IF line = <<>> /\ file # <<>>
             THEN UNCHANGED <<config, lineno, phase, boxes, freed_tokens>>
             ELSE lineno' = lineno + 1 /\ parse_context_menu(tokenize_line(line))
    /\ UNCHANGED <<family, did>>
AnswerBox == phase = "box" /\ phase' = "parsing"
             /\ UNCHANGED <<config, family, file, lineno, boxes, freed_tokens, did>>
EndOfFile ==
    /\ phase = "parsing" /\ phase' = "running"
    /\ menu_defs' = wrap_up_vec /\ mdef' = NoDef
    /\ UNCHANGED <<safer_matches, window_matches, hotkeys, slits, plugins, core_config,
                   family, file, lineno, boxes, freed_tokens, did>>

-----------------------------------------------------------------------------
(* What uses the configuration, in the loop of a box or later.              *)
Uses(what, of, result) ==
    /\ phase \in {"box", "running"} /\ Len(did) < MaxUses
    /\ did' = Append(did, [what |-> what, of |-> of, result |-> result, read |-> lineno,
                         ended |-> phase = "running"])
    /\ UNCHANGED <<config, family, file, lineno, phase, boxes, freed_tokens>>

(* apply_window_match, for a new window.                                    *)
Applies(rule, w) == /\ rule.type = "CREATE"
                    /\ rule.prop \in {"CAPTION", "MODULE", "CLASS"}
                    /\ NewWindows[w][rule.prop] \in Patterns[rule.re]
apply_window_match(w) ==
    LET rules == {i \in DOMAIN window_matches : Applies(window_matches[i], w)}
    IN [n \in 1 .. Cardinality(rules) |->
           LET r == window_matches[NthOf(rules, n)] IN <<r.func, r.arg>>]
MatchWindow == \E w \in DOMAIN NewWindows : Uses("window", w, apply_window_match(w))

(* core_execute: the first rule whose pattern matches gives the level.      *)
core_execute(command) ==
    LET rules == {i \in DOMAIN safer_matches : command \in Patterns[safer_matches[i].re]}
    IN <<IF rules = {} THEN "full" ELSE safer_matches[Min(rules)].level>>
Execute == \E c \in Programs : Uses("program", c, core_execute(c))

(* A plugin that was loaded (the first of its name), or the core, looks a   *)
(* setting up; or uses what it read as it started.                          *)
LookUp ==
    \/ \E p \in DOMAIN plugins : \E s \in Settings :
          /\ p = First(plugins[p].name)
          /\ Uses("setting", <<plugins[p].name, s>>,
                  <<core_get_plugin_string(plugins[p].name, plugins[p].config, s)>>)
    \/ \E s \in Settings : Uses("setting", <<"core", s>>, <<core_get_plugin_string("core", core_config, s)>>)
    \/ \E p \in DOMAIN plugins : \E s \in DOMAIN plugins[p].early :
          Uses("early", <<plugins[p].name, s>>, <<plugins[p].early[s]>>)

(* realize_menu_by_name, and handle_hotkey.                                 *)
realize_menu_by_name(name) ==
    LET found == {i \in DOMAIN menu_defs : menu_defs[i].name = name}
        menu == menu_defs[Min(found)]
    IN IF found = {} THEN <<"none">>
       ELSE IF menu.plugin THEN <<"plugin">>
       ELSE [i \in DOMAIN menu.items |-> <<menu.items[i].kind>> \o menu.items[i].args]
OpenMenu == \E name \in MenuNames : Uses("menu", name, realize_menu_by_name(name))
UseHotkey == \E k \in DOMAIN hotkeys :
    Uses("hotkey", k, <<hotkeys[k].kind, hotkeys[k].args[1], hotkeys[k].args[2]>>)

(* unregister_hotkeys and contextmenu_shutdown.                             *)
Items(menu) == menu.own \cup UNION {menu.items[i].own : i \in DOMAIN menu.items}
OwnedByHotkeys == UNION {hotkeys[k].own : k \in DOMAIN hotkeys}
OwnedByMenus == UNION {Items(menu_defs[i]) : i \in DOMAIN menu_defs}
OwnedByMatches == UNION {window_matches[i].own : i \in DOMAIN window_matches}
Shutdown ==
    /\ phase = "running" /\ phase' = "ended"
    /\ freed_tokens' = freed_tokens \cup OwnedByHotkeys \cup OwnedByMenus \cup OwnedByMatches
    /\ hotkeys' = <<>> /\ menu_defs' = <<>> /\ window_matches' = <<>> /\ safer_matches' = <<>>
    /\ plugins' = <<>> /\ slits' = <<>> /\ core_config' = <<>>
    /\ UNCHANGED <<mdef, family, file, lineno, boxes, did>>

InitRules ==
    /\ menu_defs = <<>> /\ mdef = NoDef /\ safer_matches = <<>> /\ window_matches = <<>>
    /\ hotkeys = <<>> /\ slits = <<>> /\ plugins = <<>> /\ core_config = <<>>
    /\ family \in Families /\ file = <<>> /\ lineno = 0 /\ phase = "parsing"
    /\ boxes = <<>> /\ freed_tokens = {} /\ did = <<>>
NextRules == ReadLine \/ AnswerBox \/ EndOfFile \/ MatchWindow \/ Execute \/ LookUp
        \/ OpenMenu \/ UseHotkey \/ Shutdown
SpecRules == InitRules /\ [][NextRules]_rules_vars
-----------------------------------------------------------------------------
View == INSTANCE RulesView WITH Modifiers <- resolve_hotkey_modifier, Key <- resolve_hotkey_name,
                                Windows <- NewWindows
Counted == {i \in DOMAIN file : i = 1 \/ file[i] # <<>>}
Texts(n) == [k \in 1 .. n |-> tokenize_line(file[NthOf(Counted, k)])]

(* Whatever is done with the configuration, while a box is up in the middle *)
(* of the file or later, comes out as the lines read by then say, each line *)
(* for itself: lines that were refused change nothing, no line undoes or    *)
(* hides another but by the rules for doubles (parse_context_menu and the   *)
(* look-ups of wezdesk.cpp).  A plugin joins the latest slit, and does not  *)
(* see settings that come after its LOAD line as it starts.                 *)
UsesAsWritten ==
    /\ \A i \in DOMAIN did :
          LET d == did[i]
              ls == Texts(d.read)
          IN d.result =
             CASE d.what = "window" -> View!Window(ls, d.of)
               [] d.what = "program" -> View!Program(ls, d.of)
               [] d.what = "setting" -> <<View!Setting(ls, d.of[1], d.of[2])>>
               [] d.what = "early" -> <<View!Stored(d.of[1], d.of[2])>>
               [] d.what = "menu" -> View!Menu(ls, d.of, d.ended)
               [] d.what = "hotkey" -> View!Hotkey(ls, d.of[1], d.of[2])
    /\ \A p \in DOMAIN plugins : plugins[p].slit \in View!SlitsOf(Texts(lineno), plugins[p].name)

(* There is one box for each line that is refused, with its number among    *)
(* the lines that are not empty, in their order; and the program stops on   *)
(* no line but an item without a menu and a SET slit without a slit.        *)
BoxesAsWritten ==
    LET ls == Texts(lineno) IN
    /\ ToSet(boxes) = View!Bad(ls) /\ \A i, j \in DOMAIN boxes : i < j => boxes[i] < boxes[j]
    /\ \A k \in DOMAIN ls : View!Fatal(ls, k) <=> (phase = "crashed" /\ k = lineno)

(* The tokens of each owner; and those that may never be freed.             *)
Owners == {hotkeys[k].own : k \in DOMAIN hotkeys} \cup {Items(menu_defs[i]) : i \in DOMAIN menu_defs}
          \cup {window_matches[i].own : i \in DOMAIN window_matches} \cup {Items(mdef)}
MayStay(k, t) == \/ ~View!Good(t)
                 \/ t[1] \in {"MATCH", "HOTKEY"} /\ Len(t) > 6
                 \/ t[1] = "HOTKEY" /\ \E j \in k + 1 .. lineno :
                       /\ View!Good(Texts(j)[j]) /\ View!Is(Texts(j)[j], "HOTKEY")
                       /\ resolve_hotkey_modifier(Texts(j)[j][2]) = resolve_hotkey_modifier(t[2])
                       /\ resolve_hotkey_name(Texts(j)[j][3]) = resolve_hotkey_name(t[3])
(* The types of the variables.                                              *)
RulesTypes ==
    /\ phase \in {"parsing", "box", "running", "ended", "crashed"}
    /\ lineno <= Len(file) /\ Len(file) <= MaxLines /\ Len(did) <= MaxUses
    /\ \A t \in freed_tokens : t[1] \in 1 .. lineno /\ t[2] \in 1 .. MAX_TOKENS
    /\ \A p \in DOMAIN plugins : plugins[p].name \in DOMAIN Plugins /\ plugins[p].slit <= Len(slits)
(* Every token is freed once: none that was freed is still in use, none has *)
(* two owners, and in the end nothing is left but the tokens of lines that  *)
(* were refused, those behind the last one that counts, and those of hot    *)
(* keys that gave way to others (the frees of parse_context_menu,           *)
(* contextmenu_shutdown, unregister_hotkeys, ~SlitAction).                  *)
OwnedOnce ==
    /\ RulesTypes
    /\ (UNION Owners) \cap freed_tokens = {}
    /\ \A a, b \in Owners : a # b => a \cap b = {}
    /\ phase = "ended" =>
          \A k \in 1 .. lineno : \A i \in DOMAIN Texts(k)[k] :
              <<k, i>> \in freed_tokens \/ MayStay(k, Texts(k)[k])
=============================================================================
