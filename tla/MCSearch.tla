------------------------------ MODULE MCSearch ------------------------------
(* A folder of links and documents, programs on a PATH that names their        *)
(* directory twice, a link in two places, and an index with a file that is gone.*)
EXTENDS Search, TLC

Entry(name) == [name |-> name, hidden |-> FALSE]
Hidden(name) == [name |-> name, hidden |-> TRUE]
C == <<"c:">>
Docs == C \o <<"\\", "docs">>
Bin == C \o <<"\\", "bin">>
Dot == Docs \o <<"\\", ".", "svn">>
Mail == Bin \o <<"\\", "mail", ".exe">>
MCTree ==
    C :> << Entry(<<"docs">>), Entry(<<"bin">>), Hidden(<<"boot", ".exe">>) >> @@
    Docs :> << Entry(<<".", "svn">>), Entry(<<"mail", ".lnk">>), Entry(<<"mail", "box", ".txt">>) >> @@
    Bin :> << Entry(<<"mail", ".lnk">>), Entry(<<"mail", ".exe">>), Entry(<<"box", ".txt">>) >> @@
    Dot :> << Entry(<<"mail", ".url">>) >>
MCPATH == <<Bin, Bin>>
MCPATHEXT == <<".com", ".exe">>
MCSpecial == <<Docs>>
MCTarget == (Docs \o <<"\\", "mail", ".lnk">>) :> Mail @@ (Bin \o <<"\\", "mail", ".lnk">>) :> Mail
MCGone == << [path |-> Docs \o <<"\\", "old", "mail", ".lnk">>, shown |-> <<"old", "mail">>] >>
MCRunMru == << [letter |-> 1, line |-> <<"mail">>], [letter |-> 2, line |-> <<"box", " ", "mail">>],
               [letter |-> 3, line |-> Docs] >>
MCMRUList == <<2, 1>>
MCTyped == { <<"mail">>, Docs \o <<"\\">>, <<" ", "\"", "box", " ", "\"", " ", "old">>, <<"box">> }
Alphabet == << "", "\\", ".", "box", "bin", "boot", "c:", "docs", "explorer", "mail", "old", "svn", ".com", ".exe", ".lnk", ".txt", ".url", " ", "\"" >>
MCCode == [c \in Range(Alphabet) |-> CHOOSE i \in DOMAIN Alphabet : Alphabet[i] = c]
=============================================================================
