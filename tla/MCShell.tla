------------------------------ MODULE MCShell ------------------------------
(* A plugin that loads, one of another version, and every hot key.         *)
EXTENDS Shell, TLC
CONSTANTS loads, broken, run1, link2, vetoed
MCConfig == << [op |-> "LOAD", arg |-> loads], [op |-> "HOTKEY", arg |-> "restart"],
               [op |-> "HOTKEY", arg |-> "switch"], [op |-> "LOAD", arg |-> broken] >>
MCSources == [s \in SourceNames |->
    CASE s = "HKLM/Run" -> <<run1>> [] s = "HKCU/Run" -> <<vetoed>>
      [] s = "My/Startup" -> <<link2>> [] OTHER -> <<>>]
MCSafer == << {run1}, {link2} >>
MCVetoes == (loads :> {vetoed}) @@ (broken :> {})

(* The clock is about to wrap when the shell starts; a user starts it in a *)
(* system it has never been installed in, a logon in one where it has.     *)
Installed == [mapping |-> "USR", shell |-> "evil", desktop |-> 1]
MCInit == Init /\ now = Wrap - 1
MCNext == Next /\ (phase = "off" /\ phase' # "off" => registry = IF run_startup' THEN Installed ELSE Fresh)
MCSpec == MCInit /\ [][MCNext]_vars /\ Fairness
=============================================================================
