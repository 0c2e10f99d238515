------------------------------ MODULE MCRules ------------------------------
(* Files of a few kinds: lines that act on each other, whole and broken.     *)
EXTENDS Rules, TLC

L(words) == [i \in DOMAIN words |-> Word(words[i])]
Comment == <<Hash("#x")>>
Broken == L(<<"CONTEXTMENU">>)
Menu(name) == L(<<"CONTEXTMENU", name>>)
Func(arg) == <<Word("Func"), Quoted("caption"), Word("quit"), Word(arg)>>
Load(p) == L(<<"LOAD", p>>)
Set(of, s, v) == L(<<"SET", of, s, v>>)

MenuFile == {Menu("root"), Menu("slit"), Broken, Func("x"), L(<<"Separator">>), Load("putty"),
             <<Word("SubMenu"), Const("$CAPTION"), Word("putty")>>, <<>>}
ItemFile == {Menu("putty"), L(<<"MergeDirs", "c", "d1", "d2">>), L(<<"Execute", "c", "open", "f">>),
             L(<<"Execute", "c", "open", "f", "args">>), L(<<"Execute", "c", "open">>), Load("putty"),
             <<Word("Func"), Quoted("caption"), Hash("#comment")>>}
RuleFile == {L(<<"MATCH", "CREATE", "CAPTION", "p1", "place", "2">>), L(<<"MATCH", "CREATE", "CLASS", "p2", "flash">>),
             L(<<"MATCH", "CREATE", "CAPTION", "bad", "place", "3">>), L(<<"MATCH", "OTHER", "CAPTION", "p1", "place">>),
             L(<<"SaferExec", "CONSTRAINED", "p1">>), L(<<"SaferExec", "UNTRUSTED", "p2">>), L(<<"SaferExec", "p1">>)}
SlitFile == {L(<<"SLIT", "default">>), L(<<"SLIT", "TOP", "MIDDLE">>), L(<<"SLIT">>), Load("clock"), Load("none"),
             Set("slit", "Floating", "1"), Set("clock", "DateFormat", "a"), Set("clock", "Font", "b"),
             Set("clock", "Font", "c"), Comment}
KeyFile == {L(<<"HOTKEY", "CTRL|ALT", "F1", "Func", "quit">>), L(<<"HOTKEY", "ALT", "F1", "Func", "place", "1">>),
            L(<<"HOTKEY", "", "F1", "Execute", "open", "f">>),
            L(<<"HOTKEY", "CONTROL", "R", "Execute", "open", "f", "args">>),
            L(<<"HOTKEY", "W|ALT", "R", "Func", "place", "1", "2", "3", "4", "5", "6">>),
            <<Word("HOTKEY"), Word("WIN"), Hash("#91"), Word("Func"), Word("quit")>>,
            L(<<"HOTKEY", "WIN", "R", "Show", "root">>), <<>>}
CoreFile == {Set("core", "Font", "a"), Set("core", "Font", "b"), L(<<"SET", "core", "Font">>),
             L(<<"MaximumWorkspaces", "4">>), Load("clock"), Load("putty"), Set("putty", "Font", "c")}
MCFamilies == {MenuFile, ItemFile, RuleFile, SlitFile, KeyFile, CoreFile}

MCValue == "$CAPTION" :> "caption"
MCPatterns == ("p1" :> {"hello", "browser"}) @@ ("p2" :> {"browser", "Edit", "mail"})
MCPlugins == ("clock" :> [menu |-> Null, early |-> {"DateFormat"}]) @@
             ("putty" :> [menu |-> "putty", early |-> {}])
MCRegistry == (<<"clock", "DateFormat">> :> "r") @@ (<<"core", "Font">> :> "s")
Window(caption, class) == ("CAPTION" :> caption) @@ ("MODULE" :> "m") @@ ("CLASS" :> class)
MCWindows == ("w1" :> Window("hello", "Edit")) @@ ("w2" :> Window("other", "Edit"))
MCPrograms == {"browser", "mail", "game"}
=============================================================================
