------------------------------- MODULE MruView -------------------------------
(***************************************************************************)
(* What a list of recently run commands promises: each command is in it    *)
(* once, the last one run comes first, and the oldest make room.           *)
(***************************************************************************)
EXTENDS Naturals, Sequences, Subsequences

CONSTANTS Commands, MaxMru

VARIABLE recent

\* A set that holds the one list of the others, in their order.
Without(s, c) ==
    {[k \in DOMAIN p |-> s[p[k]]] : p \in Ascending({i \in DOMAIN s : s[i] # c})}
Shortened(s) == SubSeq(s, 1, IF Len(s) > MaxMru THEN MaxMru ELSE Len(s))

Init ==
    /\ recent \in Seq(Commands)
    /\ Len(recent) <= MaxMru
    /\ \A i, j \in DOMAIN recent : recent[i] = recent[j] => i = j

Run(c) == \E others \in Without(recent, c) : recent' = Shortened(<<c>> \o others)

Next == \E c \in Commands : Run(c)

Spec == Init /\ [][Next]_recent
=============================================================================
