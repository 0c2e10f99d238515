----------------------------- MODULE RulesView -----------------------------
(* What a configuration file means: each line by itself, with the lines it    *)
(* refers to found by their places in the file.  LS are the lines, as texts.  *)
EXTENDS Naturals, Sequences, FiniteSets, Subsequences
CONSTANTS Patterns, Plugins, Registry, Windows, Null,
          Modifiers(_), Key(_), Level(_)

Lengths == [CONTEXTMENU |-> {2}, MergeDirs |-> {4}, SubMenu |-> {3}, Execute |-> {4, 5}, Func |-> {4},
            Separator |-> {1}, SaferExec |-> {3}, HOTKEY |-> 5 .. 10, SLIT |-> {2, 3}, LOAD |-> {2},
            MATCH |-> 5 .. 10, SET |-> {4}]
Items == {"MergeDirs", "SubMenu", "Execute", "Func", "Separator"}
Is(t, command) == t # <<>> /\ t[1] = command
Good(t) ==
    \/ t = <<>>
    \/ /\ t[1] \in DOMAIN Lengths
       /\ Len(t) \in Lengths[t[1]]
       /\ t[1] = "HOTKEY" => t[4] \in {"Func", "Execute"}
       /\ t[1] = "SaferExec" => t[3] \in DOMAIN Patterns
       /\ t[1] = "MATCH" => t[4] \in DOMAIN Patterns
Bad(ls) == {k \in DOMAIN ls : ~Good(ls[k])}
Lines(ls, command) == {k \in DOMAIN ls : Is(ls[k], command) /\ Good(ls[k])}
Earliest(ks) == CHOOSE k \in ks : \A j \in ks : k <= j
Latest(ks) == CHOOSE k \in ks : \A j \in ks : j <= k

(* A menu goes up to the next CONTEXTMENU line, or to the end of the file; a  *)
(* plugin has its menu when it is loaded.  Of two menus of a name the one     *)
(* that is complete first counts.                                            *)
Heads(ls) == {k \in DOMAIN ls : Is(ls[k], "CONTEXTMENU")}
Head_(ls, k) == Latest({j \in Heads(ls) : j <= k})
Complete(ls, k) ==
    IF Is(ls[k], "LOAD") THEN k
    ELSE LET next == {j \in Heads(ls) : j > k} IN IF next = {} THEN Len(ls) + 1 ELSE Earliest(next)
Defines(ls, k, name) ==
    \/ k \in Lines(ls, "CONTEXTMENU") /\ ls[k][2] = name
    \/ k \in Lines(ls, "LOAD") /\ ls[k][2] \in DOMAIN Plugins /\ Plugins[ls[k][2]].menu = name
IsItem(t) == t # <<>> /\ t[1] \in Items /\ Good(t)
Menu(ls, name, ended) ==
    LET defs == {k \in DOMAIN ls : Defines(ls, k, name) /\ (ended \/ Complete(ls, k) <= Len(ls))}
        def == CHOOSE k \in defs : \A j \in defs : Complete(ls, k) <= Complete(ls, j)
        items == {k \in DOMAIN ls : k > def /\ k < Complete(ls, def) /\ IsItem(ls[k])}
    IN IF defs = {} THEN <<"none">> ELSE IF Is(ls[def], "LOAD") THEN <<"plugin">>
       ELSE [n \in 1 .. Cardinality(items) |-> ls[NthOf(items, n)]]
(* An item line needs a menu, and SET slit a slit: the program ends there.    *)
Fatal(ls, k) ==
    \/ /\ IsItem(ls[k])
       /\ \/ \A j \in Heads(ls) : j > k
          \/ ~Good(ls[Head_(ls, k)])
    \/ /\ k \in Lines(ls, "SET") /\ ls[k][2] = "slit"
       /\ \A j \in Lines(ls, "SLIT") : j > k

(* The last line for a key counts.                                            *)
Hotkey(ls, mods, key) ==
    LET lines == {k \in Lines(ls, "HOTKEY") : Modifiers(ls[k][2]) = mods /\ Key(ls[k][3]) = key}
    IN IF lines = {} THEN <<"none">>
       ELSE LET t == ls[Latest(lines)] IN IF Len(t) = 5 THEN <<t[4], t[5], Null>> ELSE <<t[4], t[5], t[6]>>

(* The first rule for a command counts, and all rules for a window.           *)
Program(ls, command) ==
    LET rules == {k \in Lines(ls, "SaferExec") : command \in Patterns[ls[k][3]]}
    IN <<IF rules = {} THEN "full" ELSE Level(ls[Earliest(rules)][2])>>
Window(ls, w) ==
    LET rules == {k \in Lines(ls, "MATCH") : /\ ls[k][2] = "CREATE"
                                             /\ ls[k][3] \in DOMAIN Windows[w]
                                             /\ Windows[w][ls[k][3]] \in Patterns[ls[k][4]]}
    IN [i \in 1 .. Cardinality(rules) |->
           LET t == ls[NthOf(rules, i)]
           IN <<t[5], IF Len(t) = 5 THEN Null ELSE t[6]>>]

(* The first SET line after the plugin is loaded counts.  What it reads as it *)
(* starts no line can change.                                                 *)
Loads(ls) == {k \in Lines(ls, "LOAD") : ls[k][2] \in DOMAIN Plugins}
Stored(plugin, name) == IF <<plugin, name>> \in DOMAIN Registry THEN Registry[<<plugin, name>>] ELSE Null
Setting(ls, of, name) ==   \* OF is core, or the name of a plugin loaded
    LET loads == {k \in Loads(ls) : ls[k][2] = of}
        sets == {k \in Lines(ls, "SET") : /\ ls[k][2] = of /\ ls[k][3] = name
                                          /\ of # "core" => \E j \in loads : j < k}
    IN IF sets # {} THEN ls[Earliest(sets)][4] ELSE Stored(of, name)
(* The slit of the plugins of that name.                                      *)
SlitsOf(ls, of) == {Cardinality({j \in Lines(ls, "SLIT") : j < k}) : k \in {l \in Loads(ls) : ls[l][2] = of}}
=============================================================================
