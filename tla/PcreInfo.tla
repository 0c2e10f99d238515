------------------------------ MODULE PcreInfo ------------------------------
(* What pcre_compile needs besides the code that PcreCompile writes            *)
(* (pcre/pcre.c, pcre/internal.h, pcre/study.c).  Before that, its first pass: *)
(* how many bytes the code may need.  If the estimate is too small, it gives   *)
(* up.  The pass keeps the length, the length of the last item, what a branch  *)
(* adds for its options, the brackets it is in, the options of the whole       *)
(* pattern and whether an item came before.  After that, what it and           *)
(* pcre_study find out about the code, so that pcre_exec need not try every    *)
(* place of the subject; and pcre_compile as a whole.                          *)
EXTENDS PcreCompile

Link == 1 + 2          \* 1+LINK_SIZE
Wrapped == 2 * Link    \* 2+2*LINK_SIZE: a group around something
Add(s, n) == [s EXCEPT !.length = @ + n]
OneItem(s, n) == [Add(s, n) EXCEPT !.last = 1]
ClassLength(tok) ==
    IF ~tok.neg /\ tok.types = {} /\ tok.posix = <<>> /\ Cardinality(tok.chars) = 1 THEN 3 ELSE 33

(*------------------------------- repeats ---------------------------------*)
(* A repeat in braces belongs to the class or the reference before it; the ?  *)
(* after * + ? or after a group is read as an item, and so is the + after a   *)
(* reference that is repeated.                                                *)
Short(tok) == <<tok.min, tok.max>> \in {<<0, -1>>, <<1, -1>>, <<0, 1>>}
Suffix(tok, lazy, possessive) ==
    IF tok.how = "lazy" THEN lazy ELSE IF tok.how = "possessive" THEN possessive ELSE 0
GroupCopies(dup, min, max) ==
    IF min = 0 THEN 1 + (IF max > 0 THEN (max - 1) * (dup + 1 + Wrapped) ELSE 0)
    ELSE (min - 1) * dup + (IF max > min THEN (max - min) * (dup + 1 + Wrapped) - Wrapped ELSE 0)
SingleCopies(last, min, max) ==
    (IF min = 1 THEN 0 ELSE IF min > 0 THEN 3 ELSE -last) + last + (IF max > 0 THEN 3 ELSE 1)
RepLength(s, before, tok) ==
    CASE before.t = "close" -> GroupCopies(s.dup, tok.min, tok.max) + Suffix(tok, 1, Wrapped)
      [] before.t # "close" /\ Short(tok) -> 1 + Suffix(tok, 1, Wrapped)
      [] before.t = "ref" /\ ~Short(tok) -> 5 + Suffix(tok, 0, 1)
      [] before.t = "class" /\ ~Short(tok) /\ ClassLength(before) > 3 -> 5 + Suffix(tok, 0, Wrapped)
      [] OTHER -> SingleCopies(s.last, tok.min, tok.max) + Suffix(tok, 0, Wrapped)

(*------------------------------- brackets --------------------------------*)
(* What a group adds to each of its branches: the step back of a look behind, *)
(* or a setting of options.                                                   *)
SetsIMS(tok) == tok.kind = "opts" /\ (tok.set \cup tok.unset) \cap IMS # {}
NewExtra(tok) == IF tok.kind \in {"back", "backnot"} THEN Link ELSE IF SetsIMS(tok) THEN 2 ELSE 0
OpenLength(tok) ==
    IF tok.kind \in {"back", "backnot"} \/ (tok.kind = "cond" /\ tok.n >= 0) THEN 3
    ELSE IF SetsIMS(tok) THEN 4 ELSE 0
FirstOpen(s, tok) ==
    LET t == Add(s, OpenLength(tok))
    IN [Add(t, Link) EXCEPT !.stack = Append(@, [length |-> t.length, extra |-> s.extra]),
                            !.extra = NewExtra(tok)]
FirstClose(s) ==
    LET t == Add(s, Link)
    IN IF s.stack = <<>> THEN [t EXCEPT !.dup = 0]
       ELSE [t EXCEPT !.dup = t.length - Last(s.stack).length,
                      !.extra = Last(s.stack).extra, !.stack = Front(s.stack)]

(* A setting before any item is one of the whole pattern, and no item.        *)
FirstOption(s, tok) ==
    IF ~s.item THEN [s EXCEPT !.opts = (@ \cup tok.set) \ tok.unset]
    ELSE IF (tok.set \cup tok.unset) \cap IMS = {} THEN s
    ELSE [Add(s, 4) EXCEPT !.extra = IF @ \in {0, Link} THEN @ + 2 ELSE @]

FirstItem(s, before, tok) ==
    CASE tok.t = "chr" -> OneItem(s, 2)
      [] tok.t \in {"any", "circ", "doll", "esc"} -> OneItem(s, 1)
      [] tok.t = "ref" -> OneItem(s, 3)
      [] tok.t = "class" -> Add(s, ClassLength(tok))
      [] tok.t = "rep" -> Add(s, RepLength(s, before, tok))
      [] tok.t = "alt" -> Add(s, Link + s.extra)
      [] tok.t = "open" -> FirstOpen(s, tok)
      [] tok.t = "close" -> FirstClose(s)
FirstToken(s, before, tok) ==
    IF tok.t = "chr" /\ tok.c \in cbits.s /\ "x" \in s.opts THEN s
    ELSE IF tok.t = "opt" THEN [FirstOption(s, tok) EXCEPT !.item = s.item]
    ELSE [FirstItem(s, before, tok) EXCEPT !.item = TRUE]
FirstPass(p, options) ==
    LET s == FoldLeft(LAMBDA r, i : FirstToken(r, IF i = 1 THEN Tok("start") ELSE p[i - 1], p[i]),
                      [length |-> Link, last |-> 0, extra |-> 0, dup |-> 0, stack |-> <<>>,
                       opts |-> options, item |-> FALSE],
                      [i \in DOMAIN p |-> i])
    IN [s EXCEPT !.length = @ + Link + 1]

(*----------------------------- the code itself ---------------------------*)
(* OP_LENGTHS, and the item that a repeat of a class or a reference keeps.    *)
RECURSIVE Size(_)
GroupSize(alts) ==
    FoldLeft(LAMBDA n, alt : n + Link + Size(alt), Link, alts)
ItemSize(x) ==
    CASE x.op \in Brackets \cup Asserts -> GroupSize(x.alts)
      [] x.op = "char" \/ x.op = "not" \/ x.op = "opt" -> 2
      [] x.op = "class" -> 33
      [] x.op \in {"ref", "cref", "reverse"} -> 3
      [] x.op \in {"star", "plus", "query"} -> 2
      [] x.op \in {"upto", "exact"} -> 4
      [] x.op = "cr" -> (IF x.x.op = "class" THEN 33 ELSE 3) + (IF Short(x) THEN 1 ELSE 5)
      [] OTHER -> 1
Size(code) == FoldLeft(LAMBDA n, x : n + ItemSize(x), 0, code)
CodeSize(alts) == GroupSize(alts) + 1

(*-------------------- what is found out about the code -------------------*)
(* first_significant_code: what a branch begins with, after the options (which *)
(* change those of the caller when BIT changes) and, if SKIP, after assertions *)
(* that say nothing of the first character.                                    *)
End == Simple("end")
Skipped(x, skip) ==
    \/ x.op \in {"opt", "cref"}
    \/ skip /\ x.op \in {"assertnot", "back", "backnot", "b", "B"}
RECURSIVE first_significant_code(_, _, _, _)
first_significant_code(code, opts, bit, skip) ==
    IF code = <<>> THEN [item |-> End, opts |-> opts]
    ELSE IF ~Skipped(Head(code), skip) THEN [item |-> Head(code), opts |-> opts]
    ELSE LET x == Head(code)
             new == IF x.op = "opt" /\ (bit \in x.ims) # (bit \in opts) THEN x.ims ELSE opts
         IN first_significant_code(Tail(code), IF bit = "" THEN opts ELSE new, bit, skip)

DotStar(x) == x.op = "star" /\ x.x.op = "type" /\ x.x.e = "any"
Enclosing == {"bra", "assert", "once", "cond", "cap"}
Numbered(x, map) == IF x.op = "cap" THEN map \cup {x.n} ELSE map

(* is_anchored goes through the alternatives with one set of options.         *)
RECURSIVE is_anchored(_, _, _, _)
AnchoredItem(f, map, refs) ==
    LET x == f.item
    IN IF x.op \in Enclosing THEN is_anchored(x.alts, f.opts, Numbered(x, map), refs)
       ELSE [ok |-> IF x.op = "star" /\ x.x.op = "type" /\ "s" \in f.opts
                    THEN DotStar(x) /\ map \cap refs = {}
                    ELSE x.op \in {"A", "G"} \/ (x.op = "circ" /\ "m" \notin f.opts),
             opts |-> f.opts]
is_anchored(alts, opts, map, refs) ==
    FoldLeft(LAMBDA r, alt : IF ~r.ok THEN r
             ELSE AnchoredItem(first_significant_code(alt, r.opts, "m", FALSE), map, refs),
             [ok |-> TRUE, opts |-> opts], alts)

RECURSIVE is_startline(_, _, _)
StartLineItem(x, map, refs) ==
    IF x.op \in Enclosing THEN is_startline(x.alts, Numbered(x, map), refs)
    ELSE \/ DotStar(x) /\ map \cap refs = {}
         \/ x.op = "circ"
is_startline(alts, map, refs) ==
    \A k \in DOMAIN alts :
        StartLineItem(first_significant_code(alts[k], {}, "", FALSE).item, map, refs)

(* find_firstassertedchar: the character all alternatives assert, or None.    *)
RECURSIVE find_firstassertedchar(_, _, _)
AssertedItem(r, f, inassert) ==
    LET x == f.item
        d == IF x.op \in Enclosing
             THEN find_firstassertedchar(x.alts, f.opts, x.op = "assert")
             ELSE IF inassert /\ x.op = "char"
             THEN [c |-> Byte(x.c, "i" \in f.opts, FALSE), opts |-> f.opts]
             ELSE IF inassert /\ x.op \in {"exact", "plus"} /\ x.x.op = "char"
             THEN [c |-> Byte(x.x.c, "i" \in f.opts, FALSE), opts |-> f.opts]
             ELSE [c |-> None, opts |-> f.opts]
    IN IF ~IsByte(d.c) THEN [d EXCEPT !.c = None]
       ELSE IF r.c.k = "unset" THEN d
       ELSE IF x.op \in Enclosing THEN IF d.c = r.c THEN d ELSE [d EXCEPT !.c = None]
       ELSE IF d.c.c = r.c.c /\ ~r.c.nc THEN [d EXCEPT !.c = r.c] ELSE [d EXCEPT !.c = None]
find_firstassertedchar(alts, opts, inassert) ==
    FoldLeft(LAMBDA r, alt : IF r.c.k = "none" THEN r
             ELSE AssertedItem(r, first_significant_code(alt, r.opts, "i", TRUE), inassert),
             [c |-> Unset, opts |-> opts], alts)

------------------------------------------------------------------------------
(* The references there are.                                                  *)
Refs(p) == {p[i].n : i \in {j \in DOMAIN p : p[j].t = "ref"}}

(* A byte without another case is not caseless.                               *)
Cased(b) == [b EXCEPT !.nc = @ /\ fcc(b.c) # b.c]
FirstByte(alts, opts, first) ==
    LET b == IF IsByte(first) THEN first ELSE find_firstassertedchar(alts, opts, FALSE).c
    IN IF IsByte(b) THEN Cased(b) ELSE None
ReqByte(req, anchored) == IF IsByte(req) /\ (~anchored \/ req.vary) THEN Cased(req) ELSE None

SecondPass(p, opts) ==
    compile_regex(p, [i |-> 1, opts |-> opts, brackets |-> 0, vary |-> FALSE],
                  opts \cap IMS, FALSE, <<>>)
ErrorOf(p, pass, r) ==
    IF r.err # "" THEN r.err
    ELSE IF r.i <= Len(p) THEN "unmatched )"
    ELSE IF CodeSize(r.alts) > pass.length THEN "code overflow"
    ELSE IF \E n \in Refs(p) : n > r.brackets THEN "no such subpattern" ELSE ""
Known(p, opts, r, anchored, first) ==
    [ok |-> TRUE, err |-> "", alts |-> r.alts, opts |-> opts, top |-> r.brackets,
     refs |-> Refs(p), anchored |-> anchored, first |-> first,
     startline |-> ~anchored /\ ~IsByte(first) /\ is_startline(r.alts, {}, Refs(p)),
     req |-> ReqByte(r.req, anchored)]
FirstKnown(p, opts, r, a) ==
    LET anchored == "A" \in opts \/ a.ok
    IN Known(p, opts, r, anchored,
             IF anchored THEN None ELSE FirstByte(r.alts, a.opts, r.first))
Verdict(err, p, opts, r) ==
    IF err # "" THEN [ok |-> FALSE, err |-> err]
    ELSE FirstKnown(p, opts, r, is_anchored(r.alts, opts, {}, Refs(p)))
BothPasses(p, pass, r) == Verdict(ErrorOf(p, pass, r), p, pass.opts, r)
AfterFirst(p, pass) == BothPasses(p, pass, SecondPass(p, pass.opts))
pcre_compile(p, options) == AfterFirst(p, FirstPass(p, options))

------------------------------------------------------------------------------
(* pcre_study: the characters a match can start with, or nothing.             *)
Fails == [ok |-> FALSE, bits |-> {}]
Bits(bits) == [ok |-> TRUE, bits |-> bits]
set_bit(c, caseless) == IF caseless THEN {c, fcc(c)} ELSE {c}
StartSet(x, caseless) ==
    CASE x.op = "char" -> set_bit(x.c, caseless)
      [] x.op = "type" -> TypeOf(x.e)
      [] x.op = "class" -> x.set
Startable(x) == x.op \in {"char", "class"} \/ (x.op = "type" /\ x.e # "any")
MayBeMissing(x) == x.op \in {"star", "query", "upto"} \/ (x.op = "cr" /\ x.min = 0)
RECURSIVE set_start_bits(_, _), StartOfBranch(_, _)
StartOfBranch(code, caseless) ==
    IF code = <<>> THEN Fails
    ELSE LET x == Head(code)
             rest(c) == StartOfBranch(Tail(code), c)
             also(bits, r) == IF r.ok THEN Bits(bits \cup r.bits) ELSE Fails
         IN IF x.op \in {"cap", "bra", "assert"} THEN set_start_bits(x.alts, caseless)
            ELSE IF x.op \in {"assertnot", "back", "backnot"} THEN rest(caseless)
            ELSE IF x.op = "opt" THEN rest("i" \in x.ims)
            ELSE IF x.op = "brazero"
            THEN LET g == set_start_bits(code[2].alts, caseless)
                 IN IF g.ok THEN also(g.bits, StartOfBranch(SubSeq(code, 3, Len(code)), caseless))
                    ELSE Fails
            ELSE IF x.op \in Repeats \cup {"cr"}
            THEN IF ~Startable(x.x) THEN Fails
                 ELSE IF MayBeMissing(x) THEN also(StartSet(x.x, caseless), rest(caseless))
                 ELSE Bits(StartSet(x.x, caseless))
            ELSE IF Startable(x) THEN Bits(StartSet(x, caseless)) ELSE Fails
set_start_bits(alts, caseless) ==
    LET bits == {StartOfBranch(alts[k], caseless) : k \in DOMAIN alts}
    IN IF Fails \in bits THEN Fails ELSE Bits(UNION {b.bits : b \in bits})
pcre_study(re) ==
    IF re.anchored \/ IsByte(re.first) \/ re.startline THEN Fails
    ELSE set_start_bits(re.alts, "i" \in re.opts)
=============================================================================
