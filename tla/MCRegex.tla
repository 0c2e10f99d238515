------------------------------ MODULE MCRegex ------------------------------
(* Lines of a few kinds: each family brings together constructs that act on    *)
(* the same thing, with the subjects that tell their meanings apart.           *)
EXTENDS Regex

a == Chr("a")
b == Chr("b")
Close == Tok("close")
Alt == Tok("alt")
Dot == Tok("any")
Circ == Tok("circ")
Doll == Tok("doll")
Star == Rep(0, -1, "greedy")
LazyStar == Rep(0, -1, "lazy")
Plus == Rep(1, -1, "greedy")
Query == Rep(0, 1, "greedy")
Upto(n) == Rep(0, n, "greedy")
Exact(n) == Rep(n, n, "greedy")
Possess == Rep(0, -1, "possessive")
Fam(tokens, opts, subjects) == [tokens |-> tokens, flags |-> opts, subjects |-> subjects]

(* Which character comes first, and which must come: alternatives and repeats.*)
Bytes == Fam({a, b, Open("bra"), Close, Alt, Star, Query}, {{}, {"i"}},
             {<<"b", "a">>, <<"A", "b", "b">>, <<"a", "b", "a">>})
Counts == Fam({a, b, Open("cap"), Close, Exact(2), Upto(2), Plus}, {{}, {"U"}},
              {<<"a", "b", "a", "b">>, <<"b", "a", "a">>})
Captures == Fam({a, Dot, Open("cap"), Close, Alt, Ref(1), LazyStar}, {{}},
                {<<"a", "a">>, <<"b", "a", "b">>, <<"a", "b", "b", "a">>})
Lines == Fam({a, Dot, Circ, Doll, Alt, Star, Esc("Z")}, {{}, {"m"}, {"s"}, {"D"}, {"A"}},
             {<<"b", "a">>, <<"a", Newline>>, <<"b", Newline, "a">>})
Kinds == Fam({Class({"a"}, {}, TRUE), Class({"a", "b"}, {}, FALSE), Class({}, {"d"}, TRUE), Esc("w"), Esc("b"), Plus},
             {{}, {"i"}}, {<<"A", "-", "b">>, <<"1", " ", "a">>})
Looks == Fam({a, b, Open("back"), Open("assertnot"), Close, Alt, Star}, {{}},
             {<<"a", "b">>, <<"b", "a", "b">>})
Single == Fam({a, b, Open("once"), Open("cap"), Close, Possess, Alt}, {{}},
              {<<"a", "a", "b">>, <<"b", "a">>})
Conds == Fam({a, b, Cond(1), Open("cap"), Close, Alt, Query}, {{}}, {<<"a", "b">>, <<"b">>})
Settings == Fam({a, b, Opt({"i"}, {}), OptGroup({"i"}, {}), Close, Chr(" "), Alt}, {{}, {"x"}},
                {<<"A", "b">>, <<"b", "A">>, <<"a", "B">>})
Ahead == Fam({a, b, Open("assert"), Open("backnot"), Close, Plus}, {{}}, {<<"b", "a", "b">>, <<"a", "a">>})
Classes == Fam({Class({"a", "b"}, {}, FALSE), Class({"a"}, {"d"}, TRUE), Esc("d"), Rep(0, 1, "lazy"),
                Rep(2, -1, "lazy"), Rep(1, 2, "greedy"), Ref(1)}, {{}, {"U"}},
               {<<"a", "b", "1">>, <<"1", "-", "b">>})
(* Each name of POSIX once, some after characters and some negated.           *)
Names(classes) == Fam(classes \cup {Star}, {{}, {"i"}}, {<<"A", "-", "b", "1">>, <<" ", Newline, "a">>})
Posix1 == Names({PosixClass({}, <<Posix("upper", FALSE), Posix("punct", FALSE)>>, FALSE),
                 PosixClass({"1"}, <<Posix("alpha", TRUE)>>, FALSE),
                 PosixClass({"a"}, <<Posix("blank", FALSE), Posix("digit", FALSE)>>, TRUE),
                 PosixClass({"-"}, <<Posix("lower", TRUE), Posix("alnum", FALSE)>>, FALSE)})
Posix2 == Names({PosixClass({}, <<Posix("blank", TRUE), Posix("word", FALSE)>>, FALSE),
                 PosixClass({" "}, <<Posix("graph", TRUE), Posix("space", FALSE)>>, TRUE),
                 PosixClass({}, <<Posix("xdigit", FALSE), Posix("cntrl", FALSE)>>, FALSE),
                 PosixClass({}, <<Posix("ascii", TRUE), Posix("print", TRUE)>>, FALSE),
                 PosixClass({"a"}, <<Posix("letters", FALSE)>>, FALSE)})
MCFamilies == {Bytes, Counts, Captures, Lines, Kinds, Looks, Single, Conds, Settings, Ahead, Classes,
               Posix1, Posix2}

=============================================================================
