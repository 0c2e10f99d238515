------------------------------ MODULE MCMenus ------------------------------
(* The root menu with a sub-menu, a merged directory and a plugin's menu.  *)
EXTENDS Menus, TLC
CONSTANTS w1, w2
MCDefs == ("root" :> << [kind |-> "sub", arg |-> "more"], [kind |-> "dir", arg |-> "none"],
                        [kind |-> "sub", arg |-> "putty"] >>) @@
          ("more" :> << [kind |-> "place", arg |-> "none"], [kind |-> "ask", arg |-> "none"] >>)
MCPluginMenus == "putty" :> {"session"}
MCHotkeyLines == << [key |-> "a", kind |-> "ask", arg |-> "none"],
                    [key |-> "b", kind |-> "place", arg |-> "none"],
                    [key |-> "a", kind |-> "show", arg |-> "root"] >>

(* One window, in the foreground; the other one may come.                  *)
MCInit == Init /\ alive = {w1} /\ foreground = w1
MCSpec == MCInit /\ [][Next]_vars /\ Fairness
=============================================================================
