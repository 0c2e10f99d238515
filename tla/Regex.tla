------------------------------- MODULE Regex -------------------------------
(* wezdesk_re (re.cpp): the regular expressions of the shell, of MATCH and     *)
(* SAFEREXEC lines and of plugins.                                             *)
(*                                                                             *)
(* A line of the configuration is "/pattern/flags" (any delimiter).  compile   *)
(* takes it apart, compiles and studies the pattern and makes room for the     *)
(* captures; match says how many captures a subject gives, and its callers ask *)
(* if that is more than 0.  The texts are sequences of one-byte characters, so *)
(* the conversion to UTF-8 is left out.                                        *)
EXTENDS PcreMatch
LOCAL View == INSTANCE RegexView

CONSTANTS Families,   \* what lines are made of: [tokens, flags, subjects]
          MaxTokens   \* bound on the length of a pattern
ASSUME FamiliesAssumption == \A f \in Families : DOMAIN f = {"tokens", "flags", "subjects"}
ASSUME MaxTokensAssumption == MaxTokens \in Nat

VARIABLES
    family,    \* of the line
    pattern,   \* the tokens between the delimiters
    flags,     \* the flags after them
    re,        \* what compile made of it, with the study; NoRe before
    found      \* what match said of a subject; NotYet before
vars == <<family, pattern, flags, re, found>>

NoRe == [ok |-> FALSE, err |-> "not compiled"]
NotYet == [subject |-> <<>>, rc |-> -2, start |-> 0, end |-> 0]
Init ==
    /\ family \in Families
    /\ pattern = <<>>
    /\ flags \in family.flags
    /\ re = NoRe /\ found = NotYet

(* The user writes the line.                                                  *)
Write ==
    /\ re = NoRe /\ Len(pattern) < MaxTokens
    /\ \E tok \in family.tokens : pattern' = Append(pattern, tok)
    /\ UNCHANGED <<family, flags, re, found>>

(* A flag that is not an option of pcre is passed over; X changes nothing     *)
(* that is modelled.                                                          *)
Options(letters) == letters \cap {"i", "m", "s", "x", "A", "D", "U"}
Studied(r) ==
    IF r.ok THEN [code |-> r, study |-> pcre_study(r)] @@ [ok |-> TRUE, err |-> ""]
    ELSE [ok |-> FALSE, err |-> r.err]
compile ==
    /\ re = NoRe
    /\ re' = Studied(pcre_compile(pattern, Options(flags)))
    /\ UNCHANGED <<family, pattern, flags, found>>

(* Calls do not depend on one another (pcre_exec resets the captures), so one *)
(* call on each expression is enough.                                         *)
match_subject ==
    /\ re.ok /\ found = NotYet
    /\ \E s \in family.subjects :
          found' = [subject |-> s] @@ pcre_exec(re.code, re.study, s)
    /\ UNCHANGED <<family, pattern, flags, re>>

(* The expression is deleted, and the line read again, as after a change.     *)
Delete ==
    /\ re # NoRe
    /\ re' = NoRe /\ found' = NotYet
    /\ UNCHANGED <<family, pattern, flags>>

Next == Write \/ compile \/ match_subject \/ Delete
Spec == Init /\ [][Next]_vars

------------------------------------------------------------------------------
(* compile refuses exactly the patterns that mean nothing: groups not closed, *)
(* a repeat of nothing, a reference to no group, a look behind of no fixed    *)
(* length (pcre.c, the errors of both passes; re.cpp compile, which shows the *)
(* error box).                                                                *)
RefusesOnlyBad ==
    re # NoRe => re.ok = View!WellFormed(pattern, Options(flags))

Agrees(m) ==
    /\ (found.rc > 0) = m.found
    /\ m.found => found.start = m.start /\ found.end = m.end

(* match says that a subject matches just when it does, and the match is the  *)
(* leftmost and best one: neither back-tracking over shared captures nor what *)
(* pcre_compile and pcre_study find out, the first byte, the required byte,   *)
(* the start of line, the set of first bytes or being anchored, may lose or   *)
(* shift it (pcre.c match and pcre_exec).                                     *)
MatchesMeaning ==
    found # NotYet => Agrees(View!Meaning(pattern, Options(flags), found.subject))
=============================================================================
