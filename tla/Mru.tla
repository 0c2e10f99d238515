--------------------------------- MODULE Mru ---------------------------------
(***************************************************************************)
(* The RunMRU registry key as launch() of launcher.cpp keeps it: MRUList   *)
(* is a word of letters, most recent first, and each letter names a value  *)
(* that holds a command.  Letters are numbers, 'a' is 1.                   *)
(***************************************************************************)
EXTENDS Naturals, Sequences

CONSTANTS
    MaxMru,     \* letters in use (26 in the code)
    NoValue     \* what is read for a letter that has no value

ASSUME MaxMruAssumption == MaxMru \in Nat \ {0}

Letters == 1..MaxMru

\* Where the scan of MRUList ends with a match; 0 if there is none, or if a
\* letter without a value stops it first.
Found(mrulist, values, cmd) ==
    IF \E i \in DOMAIN mrulist :
        /\ values[mrulist[i]] = cmd
        /\ \A j \in 1..(i - 1) : values[mrulist[j]] \notin {cmd, NoValue}
    THEN CHOOSE i \in DOMAIN mrulist :
        /\ values[mrulist[i]] = cmd
        /\ \A j \in 1..(i - 1) : values[mrulist[j]] \notin {cmd, NoValue}
    ELSE 0

BumpedShort(mrulist, i) ==            \* mutant: the shift stops one short
    [n \in DOMAIN mrulist |->
        IF n = 1 THEN mrulist[i] ELSE IF n < i THEN mrulist[n - 1] ELSE mrulist[n]]

\* abcdef becomes cabdef when the match is at c.
Bumped(mrulist, i) ==
    [n \in DOMAIN mrulist |->
        IF n = 1 THEN mrulist[i] ELSE IF n <= i THEN mrulist[n - 1] ELSE mrulist[n]]

\* The letter for a command that is not in the list: the next one, or the one
\* of the command that is kicked out.
NewName(mrulist) ==
    IF Len(mrulist) = MaxMru THEN mrulist[MaxMru] ELSE Len(mrulist) + 1

Added(mrulist) ==
    [n \in 1..(IF Len(mrulist) = MaxMru THEN MaxMru ELSE Len(mrulist) + 1) |->
        IF n = 1 THEN NewName(mrulist) ELSE mrulist[n - 1]]
=============================================================================
