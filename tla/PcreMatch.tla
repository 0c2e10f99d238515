------------------------------ MODULE PcreMatch ------------------------------
(* match and pcre_exec, the interpreter of compiled code (pcre/pcre.c), in the *)
(* UTF-8 mode that re.cpp always asks for.                                     *)
(*                                                                             *)
(* A call of match is a frame: the items still to do (k, where the end of a    *)
(* group is an item of its own), the place in the subject, offset_top, the     *)
(* options now and at the call (original_ims), the places at which the open    *)
(* groups were entered (eptrb), and whether it is the condition of a group.    *)
(* The captures (offset_vector) belong to all the calls: v goes into a call    *)
(* and comes out of it, whether it succeeds or fails.  re.cpp gives room for   *)
(* every capture, so no overflow of the vector is modelled; nor is the limit   *)
(* of ten million calls, and what is left out of PcreCompile.                  *)
EXTENDS PcreInfo

At(s, p) == s[p + 1]
Ket(g) == [op |-> "ket", g |-> g]
Prio(greedy, a, b) == IF greedy THEN <<a, b>> ELSE <<b, a>>
Fail0(v) == [ok |-> FALSE, end |-> 0, top |-> 0, v |-> v]
Done(f, v) == [ok |-> TRUE, end |-> f.pos, top |-> f.top, v |-> v]

(* RMATCH, for a group or for something else.                                 *)
Call(f, k, pos) == [f EXCEPT !.k = k, !.pos = pos, !.oims = f.ims, !.cond = FALSE]
CallGroup(f, k) == [Call(f, k, f.pos) EXCEPT !.b = <<f.pos>> \o @]
Frames(f, g, rest) == [n \in DOMAIN g.alts |-> CallGroup(f, g.alts[n] \o <<Ket(g)>> \o rest)]

(*------------------------ one character, and repeats ---------------------*)
TestChar(x, c, caseless) == IF caseless THEN lcc(c) = lcc(x.c) ELSE c = x.c
TestNot(x, c, caseless) == IF caseless THEN lcc(c) # lcc(x.c) ELSE c # x.c
TestType(x, c, ims) == IF x.e = "any" THEN "s" \in ims \/ c # Newline ELSE c \in TypeOf(x.e)
Test(x, c, caseless, ims) ==
    CASE x.op = "char" -> TestChar(x, c, caseless)
      [] x.op = "not" -> TestNot(x, c, "i" \in ims)
      [] x.op = "class" -> c \in x.set
      [] x.op = "type" -> TestType(x, c, ims)
RECURSIVE Run(_, _, _, _)
Run(s, x, p, ims) ==   \* how many characters from P on match the item
    IF p < Len(s) /\ Test(x, At(s, p), "i" \in ims, ims) THEN 1 + Run(s, x, p + 1, ims) ELSE 0

Least(a, b) == IF a < b THEN a ELSE b
INT_MAX == 1000
rep_min(x) == CASE x.op = "plus" -> 1 [] x.op = "exact" -> x.n [] x.op = "cr" -> x.min [] OTHER -> 0
rep_max(x) == CASE x.op \in {"star", "plus"} -> INT_MAX [] x.op = "query" -> 1
            [] x.op = "cr" -> IF x.max = -1 THEN INT_MAX ELSE x.max [] OTHER -> x.n

(* How far a lazy repeat can get beyond the minimum: a negated character is   *)
(* not taken at the end of the subject, and \w takes any character.           *)
LazyNot(s, x, p, ims) ==
    LET n == Run(s, x, p, ims) IN IF n > 0 /\ p + n = Len(s) THEN n - 1 ELSE n
LazyType(s, x, p, ims) ==
    IF x.e = "w" /\ p < Len(s) THEN Len(s) - p ELSE Run(s, x, p, ims)
LazyRun(s, r, p, ims) ==
    Least(rep_max(r) - rep_min(r),
          CASE r.x.op = "not" -> LazyNot(s, r.x, p, ims)
            [] r.x.op = "type" -> LazyType(s, r.x, p, ims)
            [] OTHER -> Run(s, r.x, p, ims))
(* A greedy one that has a limit takes as many dots as that under DOTALL,     *)
(* whether or not there are so many characters.                               *)
GreedyRun(s, r, p, ims) ==
    IF r.x.op = "type" /\ r.x.e = "any" /\ "s" \in ims /\ rep_max(r) < INT_MAX
    THEN rep_max(r) - rep_min(r)
    ELSE Least(rep_max(r) - rep_min(r), Run(s, r.x, p, ims))

(* The places at which a repeat tries what follows, in its order.             *)
Tries(lazy, from, n, step) ==
    LET places == [k \in 1 .. n + 1 |-> from + (k - 1) * step]
    IN IF lazy THEN places ELSE Reverse(places)
RepeatPlaces(s, f, r) ==
    LET from == f.pos + rep_min(r)
    IN IF from > Len(s) \/ Run(s, r.x, f.pos, f.ims) < rep_min(r) THEN <<>>
       ELSE IF rep_min(r) = rep_max(r) THEN <<from>>
       ELSE Tries(r.lazy, from, IF r.lazy THEN LazyRun(s, r, from, f.ims)
                                ELSE GreedyRun(s, r, from, f.ims), 1)
ClassPlaces(s, f, r) ==
    LET n == Run(s, r.x, f.pos, f.ims)
    IN IF n < rep_min(r) THEN <<>>
       ELSE Tries(r.lazy, f.pos + rep_min(r), Least(rep_max(r), n) - rep_min(r), 1)

(* match_ref; a reference to a group that is not set is too long to match.    *)
RefLength(s, f, v, n) ==
    IF 2 * n >= f.top \/ v.cap[n][1] < 0 THEN Len(s) - f.pos + 1 ELSE v.cap[n][2] - v.cap[n][1]
match_ref(s, v, n, p, length, ims) ==
    /\ length <= Len(s) - p
    /\ \A k \in 0 .. length - 1 :
          LET a == At(s, v.cap[n][1] + k)
              b == At(s, p + k)
          IN IF "i" \in ims THEN lcc(a) = lcc(b) ELSE a = b
RECURSIVE RefRun(_, _, _, _, _, _)
RefRun(s, v, n, p, length, ims) ==
    IF length > 0 /\ match_ref(s, v, n, p, length, ims)
    THEN 1 + RefRun(s, v, n, p + length, length, ims) ELSE 0
RefPlaces(s, f, v, r) ==
    LET length == RefLength(s, f, v, r.x.n)
        run == RefRun(s, v, r.x.n, f.pos, length, f.ims)
    IN IF length = 0 THEN <<f.pos>>
       ELSE IF run < rep_min(r) THEN <<>>
       ELSE Tries(r.lazy, f.pos + rep_min(r) * length, Least(rep_max(r), run) - rep_min(r), length)

(*------------------------------ assertions -------------------------------*)
IsWord(s, p) == p >= 0 /\ p < Len(s) /\ At(s, p) \in cbits.w
AtEnd(s, p) == p >= Len(s)
BeforeLastNewline(s, p) == p = Len(s) - 1 /\ At(s, p) = Newline
Holds(md, x, f) ==
    LET s == md.s
        p == f.pos
    IN CASE x.op = "circ" -> p = 0 \/ ("m" \in f.ims /\ p <= Len(s) /\ At(s, p - 1) = Newline)
         [] x.op = "doll" -> IF "m" \in f.ims THEN p >= Len(s) \/ At(s, p) = Newline
                             ELSE AtEnd(s, p) \/ (~md.endonly /\ BeforeLastNewline(s, p))
         [] x.op \in {"A", "G"} -> p = 0
         [] x.op = "z" -> AtEnd(s, p)
         [] x.op = "Z" -> AtEnd(s, p) \/ BeforeLastNewline(s, p)
         [] x.op = "b" -> IsWord(s, p - 1) # IsWord(s, p)
         [] x.op = "B" -> IsWord(s, p - 1) = IsWord(s, p)

------------------------------------------------------------------------------
RECURSIVE match(_, _, _)
(* The calls that are tried one after the other until one succeeds.           *)
FirstOf(md, calls, v) ==
    FoldLeft(LAMBDA r, f : IF r.ok THEN r ELSE match(md, f, r.v), Fail0(v), calls)

(* A capturing bracket notes where it starts and, when all its alternatives   *)
(* fail, puts the capture back.                                               *)
Capture(md, g, rest, f, v) ==
    LET r == FirstOf(md, Frames(f, g, rest), [v EXCEPT !.open[g.n] = f.pos])
    IN IF r.ok THEN r
       ELSE [r EXCEPT !.v.cap[g.n] = v.cap[g.n], !.v.open[g.n] = v.open[g.n]]

(* A condition is a reference, set or not, or an assertion; if it is false    *)
(* the second alternative is taken, or what follows the group.                *)
Conditional(md, g, rest, f, v) ==
    LET first == g.alts[1]
        no == IF Len(g.alts) > 1 THEN g.alts[2] \o <<Ket(g)>> \o rest ELSE rest
    IN IF first[1].op = "cref"
       THEN LET set == 2 * first[1].n < f.top /\ v.cap[first[1].n][1] >= 0
            IN match(md, CallGroup(f, IF set THEN Tail(first) \o <<Ket(g)>> \o rest ELSE no), v)
       ELSE LET c == match(md, [CallGroup(f, <<first[1]>>) EXCEPT !.cond = TRUE, !.b = <<f.pos>>], v)
            IN match(md, CallGroup(f, IF c.ok THEN Tail(first) \o <<Ket(g)>> \o rest ELSE no), c.v)

(* An assertion is a match of its own: it ends at the end of the group.       *)
Inner(md, g, f, v) == FirstOf(md, Frames([f EXCEPT !.b = <<>>], g, <<>>), v)
Assertion(md, g, rest, f, v) ==
    LET r == Inner(md, g, f, v)
    IN IF r.ok # (g.op \in {"assert", "back"}) THEN Fail0(r.v)
       ELSE IF f.cond THEN [r EXCEPT !.ok = TRUE]
       ELSE match(md, [f EXCEPT !.k = rest, !.top = IF r.ok THEN r.top ELSE @], r.v)

(* After a group that loops: once more and then what follows, or the other    *)
(* way round if it is lazy.                                                   *)
Loop(md, g, rest, f, v) ==
    FirstOf(md, Prio(g.ket = "max", CallGroup(f, <<g>> \o rest), Call(f, rest, f.pos)), v)
EndOfGroup(md, g, rest, f, saved, v) ==
    IF g.ket = "ket" \/ f.pos = saved THEN match(md, [f EXCEPT !.k = rest], v)
    ELSE Loop(md, g, rest, f, v)
(* ONCE: the first way that matches, and no other.                            *)
Once(md, g, rest, f, v) ==
    LET r == FirstOf(md, Frames(f, g, <<>>), v)
        ims == IF rest # <<>> /\ Head(rest).op = "opt" THEN Head(rest).ims ELSE f.ims
        t == [f EXCEPT !.pos = r.end, !.top = r.top]
    IN IF ~r.ok THEN Fail0(r.v)
       ELSE EndOfGroup(md, g, rest,
                IF g.ket = "ket" \/ r.end = f.pos THEN t ELSE [t EXCEPT !.ims = ims], f.pos, r.v)

(* The end of a group: that of an assertion or of ONCE ends the match; a      *)
(* capture is set, and the options become those of the call again.            *)
KetOf(md, g, rest, f, v) ==
    LET saved == Head(f.b)
        w == [v EXCEPT !.cap[g.n] = <<v.open[g.n], f.pos>>]
        t == [f EXCEPT !.b = Tail(@), !.ims = f.oims]
    IN IF g.op \in Asserts \cup {"once"} THEN Done(f, v)
       ELSE IF g.op = "cap"
       THEN EndOfGroup(md, g, rest,
                [t EXCEPT !.top = IF @ <= 2 * g.n THEN 2 * g.n + 2 ELSE @], saved, w)
       ELSE EndOfGroup(md, g, rest, t, saved, v)

Optional(md, x, rest, f, v) ==   \* BRAZERO, BRAMINZERO: the next item may be left out
    IF x.lazy THEN LET r == match(md, CallGroup(f, Tail(rest)), v)
                   IN IF r.ok THEN r ELSE match(md, [f EXCEPT !.k = rest], r.v)
    ELSE LET r == match(md, CallGroup(f, rest), v)
         IN IF r.ok THEN r ELSE match(md, [f EXCEPT !.k = Tail(rest)], r.v)

match(md, f, v) ==
    LET x == Head(f.k)
        rest == Tail(f.k)
        On(p) == match(md, [f EXCEPT !.k = rest, !.pos = p], v)
        Calls(places, same) ==   \* in calls of match, or going on in this one
            IF same /\ places # <<>> THEN On(places[1])
            ELSE FirstOf(md, [n \in DOMAIN places |-> Call(f, rest, places[n])], v)
        IfTrue(holds, p) == IF holds THEN On(p) ELSE Fail0(v)
    IN CASE x.op = "cap" -> Capture(md, x, rest, f, v)
         [] x.op = "bra" -> FirstOf(md, Frames(f, x, rest), v)
         [] x.op = "cond" -> Conditional(md, x, rest, f, v)
         [] x.op = "cref" -> On(f.pos)
         [] x.op = "end" -> Done(f, v)
         [] x.op = "opt" -> match(md, [f EXCEPT !.k = rest, !.ims = x.ims], v)
         [] x.op \in Asserts -> Assertion(md, x, rest, f, v)
         [] x.op = "reverse" -> IfTrue(x.n <= f.pos, f.pos - x.n)
         [] x.op = "once" -> Once(md, x, rest, f, v)
         [] x.op = "brazero" -> Optional(md, x, rest, f, v)
         [] x.op = "ket" -> KetOf(md, x.g, rest, f, v)
         [] x.op \in {"circ", "doll", "A", "G", "z", "Z", "b", "B"} -> IfTrue(Holds(md, x, f), f.pos)
         [] x.op = "ref" ->
              LET length == RefLength(md.s, f, v, x.n)
              IN IfTrue(match_ref(md.s, v, x.n, f.pos, length, f.ims), f.pos + length)
         [] x.op = "cr" /\ x.x.op = "ref" -> 
              Calls(RefPlaces(md.s, f, v, x), rep_min(x) = rep_max(x) \/ RefLength(md.s, f, v, x.x.n) = 0)
         [] x.op = "cr" -> Calls(ClassPlaces(md.s, f, x), rep_min(x) = rep_max(x))
         [] x.op \in Repeats -> Calls(RepeatPlaces(md.s, f, x), rep_min(x) = rep_max(x))
         [] OTHER -> IfTrue(/\ f.pos < Len(md.s)
                            /\ Test(x, At(md.s, f.pos), x.op = "char" /\ x.nc, f.ims), f.pos + 1)

------------------------------------------------------------------------------
(* pcre_exec tries the places of the subject at which a match can start, as    *)
(* far as there is the byte that it requires (found last at REQPTR), unless    *)
(* the pattern is anchored.  Of the result its callers read the number of      *)
(* captures and one more: offset_top / 2, or PCRE_ERROR_NOMATCH.               *)
PCRE_ERROR_NOMATCH == [rc |-> -1, start |-> 0, end |-> 0]
FromStart(re, s, start) ==   \* match at START
    match([s |-> s, endonly |-> "D" \in re.opts],
          [k |-> <<Group("bra", 0, re.alts), Simple("end")>>, pos |-> start, top |-> 2,
           ims |-> re.opts \cap IMS, oims |-> re.opts \cap IMS, b |-> <<start>>, cond |-> FALSE],
          [cap |-> [n \in 1 .. re.top |-> <<-1, -1>>], open |-> [n \in 1 .. re.top |-> -1]])

CanStart(re, study, s, p) ==
    IF IsByte(re.first)
    THEN IF re.first.nc THEN lcc(At(s, p)) = lcc(re.first.c) ELSE At(s, p) = re.first.c
    ELSE IF re.startline THEN p = 0 \/ At(s, p - 1) = Newline
    ELSE ~re.anchored /\ study.ok => At(s, p) \in study.bits
SkipTo(re, study, s, start) ==   \* the next place at which a match can start, or the end
    LET places == {p \in start .. Len(s) - 1 : CanStart(re, study, s, p)}
    IN IF start > Len(s) THEN start
       ELSE IF re.startline /\ start = 0 THEN 0
       ELSE IF places = {} THEN Len(s) ELSE CHOOSE p \in places : \A q \in places : p <= q
ReqAt(re, s, p) ==   \* where the required byte is, from P on, or the end
    LET places == {q \in p .. Len(s) - 1 :
                    At(s, q) = re.req.c \/ (re.req.nc /\ At(s, q) = fcc(re.req.c))}
    IN IF places = {} THEN Len(s) ELSE CHOOSE q \in places : \A r \in places : q <= r

RECURSIVE ExecFrom(_, _, _, _, _)
ExecFrom(re, study, s, from, reqptr) ==
    LET start == SkipTo(re, study, s, from)
        p == start + (IF IsByte(re.first) THEN 1 ELSE 0)
        ptr == IF IsByte(re.req) /\ p > reqptr THEN ReqAt(re, s, p) ELSE reqptr
        r == FromStart(re, s, start)
    IN IF IsByte(re.req) /\ p > reqptr /\ ptr >= Len(s) THEN PCRE_ERROR_NOMATCH
       ELSE IF r.ok THEN [rc |-> r.top \div 2, start |-> start, end |-> r.end]
       ELSE IF re.anchored \/ start + 1 > Len(s) THEN PCRE_ERROR_NOMATCH
       ELSE ExecFrom(re, study, s, start + 1, ptr)
pcre_exec(re, study, s) == ExecFrom(re, study, s, 0, -1)
=============================================================================
