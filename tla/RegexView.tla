------------------------------ MODULE RegexView ------------------------------
(* What a regular expression means, said without a program: a pattern is a     *)
(* tree, and each node has, from a place in the subject and with the captures  *)
(* so far, a list of the ways in which it can match, best first.  pcre_compile *)
(* and pcre_exec have to agree with it, whatever they know of the first        *)
(* character, of a character that must appear, or of line starts.              *)
EXTENDS PcreCompile

One(set) == [n |-> "one", set |-> set]
Place(e, multi, endonly) == [n |-> "place", e |-> e, multi |-> multi, endonly |-> endonly]
Here(p, env) == <<[p |-> p, env |-> env]>>

(*------------------------------ the tree ---------------------------------*)
(* Branches(p, s): from token s.i to the end of the group, with s.opts and    *)
(* s.count capturing groups before it.                                        *)
CharSet(c, opts) == IF "i" \in opts THEN {c, fcc(c)} ELSE {c}
Letters == {"a", "b", "A", "B"}
NamedSet ==
    [alpha |-> Letters, lower |-> {"a", "b"}, upper |-> {"A", "B"}, alnum |-> Letters \cup {"1"},
     ascii |-> Chars, blank |-> {" "}, cntrl |-> {Newline}, digit |-> {"1"},
     graph |-> Letters \cup {"1", "-"}, print |-> Chars \ {Newline}, punct |-> {"-"},
     space |-> {" ", Newline}, word |-> Letters \cup {"1"}, xdigit |-> Letters \cup {"1"}]
Named(x, opts) ==
    LET name == {c \in Chars : x.name \in DOMAIN NamedSet /\ c \in NamedSet[x.name]}
        set == UNION {CharSet(c, opts) : c \in name}
    IN IF x.neg THEN Chars \ set ELSE set
Node(tok, opts) ==
    CASE tok.t = "chr" -> One(CharSet(tok.c, opts))
      [] tok.t = "any" -> One(IF "s" \in opts THEN Chars ELSE Chars \ {Newline})
      [] tok.t = "class" -> One(LET all == UNION {CharSet(c, opts) : c \in tok.chars}
                                           \cup UNION {TypeOf(e) : e \in tok.types}
                                           \cup UNION {Named(x, opts) : x \in Range(tok.posix)}
                                IN IF tok.neg THEN Chars \ all ELSE all)
      [] tok.t \in {"circ", "doll"} -> Place(tok.t, "m" \in opts, "D" \in opts)
      [] tok.t = "esc" -> IF tok.e \in {"d", "D", "s", "S", "w", "W"} THEN One(TypeOf(tok.e))
                          ELSE Place(tok.e, FALSE, FALSE)
      [] tok.t = "ref" -> [n |-> "ref", num |-> tok.n, caseless |-> "i" \in opts]

Ignored(tok, opts) == tok.t = "chr" /\ "x" \in opts /\ tok.c \in cbits.s
RECURSIVE Branches(_, _)
(* The last node of a branch takes a repeat; an assertion of a place does not.*)
CanRepeat(s) == s.cur # <<>> /\ s.fresh
Repeated(s, tok) ==
    [s EXCEPT !.cur[Len(s.cur)] =
        [n |-> "rep", x |-> @, min |-> tok.min, max |-> tok.max,
         how |-> IF tok.how = "possessive" \/ "U" \notin s.opts THEN tok.how
                 ELSE IF tok.how = "lazy" THEN "greedy" ELSE "lazy"], !.fresh = FALSE]
Opened(p, s) ==
    LET tok == p[s.i]
        inner == IF tok.kind = "opts" THEN (s.opts \cup tok.set) \ tok.unset ELSE s.opts
        num == IF tok.kind = "cap" THEN s.count + 1 ELSE s.count
        r == Branches(p, [i |-> s.i + 1, opts |-> inner, count |-> num,
                          alts |-> <<>>, cur |-> <<>>, fresh |-> FALSE, bad |-> FALSE])
    IN IF r.bad \/ r.i > Len(p) THEN [s EXCEPT !.bad = TRUE]
       ELSE [s EXCEPT !.i = r.i + 1, !.count = r.count, !.fresh = tok.kind \notin Asserts,
             !.cur = Append(@, [n |-> tok.kind, num |-> num, cond |-> tok.n, alts |-> r.alts])]
Branches(p, s) ==
    LET tok == p[s.i]
        closed == [s EXCEPT !.alts = Append(@, s.cur), !.cur = <<>>, !.fresh = FALSE]
    IN IF s.bad \/ s.i > Len(p) THEN closed
       ELSE IF tok.t = "close" THEN closed
       ELSE IF tok.t = "alt" THEN Branches(p, [closed EXCEPT !.i = @ + 1])
       ELSE IF tok.t = "open" THEN Branches(p, Opened(p, s))
       ELSE IF tok.t = "opt"
       THEN Branches(p, [s EXCEPT !.i = @ + 1, !.opts = (@ \cup tok.set) \ tok.unset, !.fresh = FALSE])
       ELSE IF tok.t = "rep"
       THEN IF CanRepeat(s) THEN Branches(p, [Repeated(s, tok) EXCEPT !.i = @ + 1])
            ELSE [s EXCEPT !.bad = TRUE]
       ELSE IF Ignored(tok, s.opts) THEN Branches(p, [s EXCEPT !.i = @ + 1])
       ELSE Branches(p, [s EXCEPT !.i = @ + 1, !.cur = Append(@, Node(tok, s.opts)),
                         !.fresh = Node(tok, s.opts).n # "place"])
Tree(p, opts) == Branches(p, [i |-> 1, opts |-> opts, count |-> 0, alts |-> <<>>,
                              cur |-> <<>>, fresh |-> FALSE, bad |-> FALSE])

(*----------------------------- its matches -------------------------------*)
AtPlace(x, s, p) ==
    LET word(q) == q \in 1 .. Len(s) /\ s[q] \in cbits.w
        last == p = Len(s) \/ (p = Len(s) - 1 /\ s[p + 1] = Newline)
    IN CASE x.e = "circ" -> p = 0 \/ (x.multi /\ s[p] = Newline)
         [] x.e = "doll" -> p = Len(s) \/ (IF x.multi THEN s[p + 1] = Newline ELSE ~x.endonly /\ last)
         [] x.e \in {"A", "G"} -> p = 0
         [] x.e = "z" -> p = Len(s)
         [] x.e = "Z" -> last
         [] x.e = "b" -> word(p) # word(p + 1)
         [] x.e = "B" -> word(p) = word(p + 1)
SameText(a, b, caseless) ==
    /\ Len(a) = Len(b)
    /\ \A k \in DOMAIN a : a[k] = b[k] \/ (caseless /\ lcc(a[k]) = lcc(b[k]))
Then(ways, next(_)) == FlattenSeq([k \in DOMAIN ways |-> next(ways[k])])
FirstWay(ways) == IF ways = <<>> THEN <<>> ELSE <<Head(ways)>>

RECURSIVE Ways(_, _, _, _), RepWays(_, _, _, _, _)
SeqWays(nodes, s, p, env) ==
    FoldLeft(LAMBDA ways, x : Then(ways, LAMBDA r : Ways(x, s, r.p, r.env)), Here(p, env), nodes)
AltWays(alts, s, p, env) ==
    FlattenSeq([k \in DOMAIN alts |-> SeqWays(alts[k], s, p, env)])
BackWays(alts, s, p, env) ==   \* ways that end here
    SelectSeq(FlattenSeq([k \in 1 .. p + 1 |-> AltWays(alts, s, p + 1 - k, env)]), LAMBDA r : r.p = p)
IsSet(env, num) == num \in DOMAIN env /\ env[num] # <<>>
RefWays(x, s, p, env) ==
    IF ~IsSet(env, x.num) THEN <<>>
    ELSE LET text == SubSeq(s, env[x.num][1] + 1, env[x.num][2])
             to == p + Len(text)
         IN IF to <= Len(s) /\ SameText(text, SubSeq(s, p + 1, to), x.caseless)
            THEN Here(to, env) ELSE <<>>
(* A repeat without limit stops after a round that took nothing.              *)
RepWays(x, min, s, p, env) ==
    LET unlimited == x.max = -1
        left == IF unlimited THEN -1 ELSE x.max - 1
        again == Then(Ways(x.x, s, p, env), LAMBDA r :
                    IF unlimited /\ min <= 1 /\ r.p = p THEN <<r>>
                    ELSE RepWays([x EXCEPT !.max = left], IF min = 0 THEN 0 ELSE min - 1, s, r.p, r.env))
    IN IF x.max = 0 THEN Here(p, env)
       ELSE IF min > 0 THEN again
       ELSE IF x.how = "lazy" THEN Here(p, env) \o again ELSE again \o Here(p, env)
CondWays(x, s, p, env) ==
    LET yes == x.alts[1]
        holds == IF x.cond >= 0 THEN IsSet(env, x.cond)
                 ELSE Ways(Head(yes), s, p, env) # <<>>
    IN IF holds THEN SeqWays(IF x.cond >= 0 THEN yes ELSE Tail(yes), s, p, env)
       ELSE IF Len(x.alts) > 1 THEN SeqWays(x.alts[2], s, p, env) ELSE Here(p, env)
Ways(x, s, p, env) ==
    LET inner == FirstWay(AltWays(x.alts, s, p, env))
        behind == FirstWay(BackWays(x.alts, s, p, env))
        look(ways) == Then(ways, LAMBDA r : Here(p, r.env))
    IN CASE x.n = "one" -> IF p < Len(s) /\ s[p + 1] \in x.set THEN Here(p + 1, env) ELSE <<>>
         [] x.n = "place" -> IF AtPlace(x, s, p) THEN Here(p, env) ELSE <<>>
         [] x.n = "ref" -> RefWays(x, s, p, env)
         [] x.n = "rep" -> IF x.how = "possessive" THEN FirstWay(RepWays(x, x.min, s, p, env))
                           ELSE RepWays(x, x.min, s, p, env)
         [] x.n \in {"bra", "opts"} -> AltWays(x.alts, s, p, env)
         [] x.n = "cap" -> Then(AltWays(x.alts, s, p, env),
                                LAMBDA r : Here(r.p, [r.env EXCEPT ![x.num] = <<p, r.p>>]))
         [] x.n = "once" -> inner
         [] x.n = "cond" -> CondWays(x, s, p, env)
         [] x.n = "assert" -> look(inner)
         [] x.n = "back" -> look(behind)
         [] x.n = "assertnot" -> IF inner = <<>> THEN Here(p, env) ELSE <<>>
         [] x.n = "backnot" -> IF behind = <<>> THEN Here(p, env) ELSE <<>>

(* The match of a pattern: the best one at the first place that has one, and  *)
(* under A at the start only.                                                 *)
NotFound == [found |-> FALSE, start |-> 0, end |-> 0]
Meaning(p, opts, s) ==
    LET t == Tree(p, opts)
        ways(start) == AltWays(t.alts, s, start, [n \in 1 .. t.count |-> <<>>])
        starts == {q \in 0 .. (IF "A" \in opts THEN 0 ELSE Len(s)) : ways(q) # <<>>}
        start == CHOOSE q \in starts : \A r \in starts : q <= r
    IN IF starts = {} THEN NotFound
       ELSE [found |-> TRUE, start |-> start, end |-> Head(ways(start)).p]

(* A pattern is well formed if its groups are closed, nothing but an item is  *)
(* repeated, references are to groups it has, a conditional group has at most *)
(* two branches, a class has names it knows, and a look behind is of one      *)
(* length in each branch.                                                     *)
RECURSIVE Lengths(_)   \* the lengths a node can match, or {-1}
SeqLengths(nodes) ==
    FoldLeft(LAMBDA ls, x : IF -1 \in ls \cup Lengths(x) THEN {-1}
             ELSE {a + b : a \in ls, b \in Lengths(x)}, {0}, nodes)
Lengths(x) ==
    CASE x.n = "one" -> {1}
      [] x.n = "ref" -> {-1}
      [] x.n = "rep" -> IF x.min # x.max THEN {-1} ELSE SeqLengths([k \in 1 .. x.min |-> x.x])
      [] x.n \in {"place"} \cup Asserts -> {0}
      [] OTHER -> UNION {SeqLengths(x.alts[k]) : k \in DOMAIN x.alts}
FixedLengths(alts) == \A k \in DOMAIN alts : SeqLengths(alts[k]) # {-1} /\ Cardinality(SeqLengths(alts[k])) = 1
RECURSIVE GroupsFine(_)
GroupsFine(alts) ==
    \A k \in DOMAIN alts : \A j \in DOMAIN alts[k] :
        LET y == alts[k][j]
            x == IF y.n = "rep" THEN y.x ELSE y
        IN "alts" \in DOMAIN x =>
              /\ GroupsFine(x.alts)
              /\ x.n = "cond" => Len(x.alts) <= 2
              /\ x.n \in {"back", "backnot"} => FixedLengths(x.alts)
WellFormed(p, opts) ==
    LET t == Tree(p, opts)
    IN /\ ~t.bad /\ t.i > Len(p)
       /\ \A i \in DOMAIN p :
            /\ p[i].t = "ref" => p[i].n <= t.count
            /\ p[i].t = "class" => \A x \in Range(p[i].posix) : x.name \in DOMAIN NamedSet
       /\ GroupsFine(t.alts)
=============================================================================
