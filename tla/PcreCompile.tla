----------------------------- MODULE PcreCompile -----------------------------
(* pcre_compile, the compiler of the regular expressions in MATCH rules and    *)
(* SAFEREXEC lines (pcre/pcre.c).                                              *)
(*                                                                             *)
(* A pattern is a sequence of tokens, one for each construct of the syntax     *)
(* (check_escape and read_repeat_counts are the reading of a token).  The      *)
(* code is a tree: a group holds the sequences of items of its alternatives,   *)
(* where the program has offsets between OP_BRA, OP_ALT and OP_KET.  Left      *)
(* out: recursion, named groups, call-outs, \C, \X, \p, \Q and characters of     *)
(* several bytes.                                                              *)
EXTENDS Integers, Sequences, FiniteSets, SequencesExt

(*-------------------------- character tables -----------------------------*)
(* maketables: lower case (lcc), the other case (fcc), and the classes.      *)
Lower == [c \in {"A", "B"} |-> IF c = "A" THEN "a" ELSE "b"]
Upper == [c \in {"a", "b"} |-> IF c = "a" THEN "A" ELSE "B"]
lcc(c) == IF c \in DOMAIN Lower THEN Lower[c] ELSE c
fcc(c) == IF c \in DOMAIN Lower THEN Lower[c] ELSE IF c \in DOMAIN Upper THEN Upper[c] ELSE c
Newline == "\n"
Chars == {"a", "b", "A", "B", "1", "-", " ", Newline}
cbits == [d |-> {"1"}, s |-> {" ", Newline}, w |-> {"a", "b", "A", "B", "1"},
          lower |-> DOMAIN Upper, upper |-> DOMAIN Lower, xdigit |-> {"a", "b", "A", "B", "1"},
          graph |-> Chars \ {" ", Newline}, print |-> Chars \ {Newline}, punct |-> {"-"},
          cntrl |-> {Newline}]
TypeOf(e) ==   \* the set of \d \D \s \S \w \W
    CASE e = "D" -> Chars \ cbits.d [] e = "S" -> Chars \ cbits.s
      [] e = "W" -> Chars \ cbits.w [] OTHER -> cbits[e]

(* The tables that make up each class [:name:] of POSIX.                      *)
posix_class_maps ==
    [alpha |-> <<"lower", "upper">>, lower |-> <<"lower">>, upper |-> <<"upper">>,
     alnum |-> <<"d", "lower", "upper">>, ascii |-> <<"print", "cntrl">>, blank |-> <<"s">>,
     cntrl |-> <<"cntrl">>, digit |-> <<"d">>, graph |-> <<"graph">>, print |-> <<"print">>,
     punct |-> <<"punct">>, space |-> <<"s">>, word |-> <<"w">>, xdigit |-> <<"xdigit">>]

(*------------------------------- tokens ----------------------------------*)
Chr(c) == [t |-> "chr", c |-> c]
Tok(t) == [t |-> t]                      \* any circ doll close alt
Class(chars, types, neg) ==
    [t |-> "class", chars |-> chars, types |-> types, neg |-> neg, posix |-> <<>>]
Posix(name, neg) == [name |-> name, neg |-> neg]      \* [:name:] or [:^name:]
PosixClass(chars, names, neg) ==                      \* the names after the characters
    [Class(chars, {}, neg) EXCEPT !.posix = names]
Esc(e) == [t |-> "esc", e |-> e]
Ref(n) == [t |-> "ref", n |-> n]
Open(kind) == [t |-> "open", kind |-> kind, n |-> 0]
Cond(n) == [t |-> "open", kind |-> "cond", n |-> n]      \* (?(n)
CondAssert == [t |-> "open", kind |-> "cond", n |-> -1]  \* (?( before (?=
Rep(min, max, how) == [t |-> "rep", min |-> min, max |-> max, how |-> how]
Opt(set, unset) == [t |-> "opt", set |-> set, unset |-> unset]
OptGroup(set, unset) == [t |-> "open", kind |-> "opts", n |-> 0, set |-> set, unset |-> unset]
IMS == {"i", "m", "s"}

(* The first and the required byte: unset, none, or a character with its      *)
(* flags REQ_CASELESS and REQ_VARY.                                           *)
Byte(c, nc, vary) == [k |-> "byte", c |-> c, nc |-> nc, vary |-> vary]
Unset == [k |-> "unset", c |-> "", nc |-> FALSE, vary |-> FALSE]
None == [k |-> "none", c |-> "", nc |-> FALSE, vary |-> FALSE]
IsByte(b) == b.k = "byte"
Plain(b) == [b EXCEPT !.vary = FALSE]

(*------------------------------- items -----------------------------------*)
Char(c, nc) == [op |-> "char", c |-> c, nc |-> nc]
Type(e) == [op |-> "type", e |-> e]      \* any, and the types of escapes
Simple(op) == [op |-> op]                \* circ doll sod som eod eodn wordb nwordb
Group(kind, n, alts) == [op |-> kind, n |-> n, alts |-> alts, ket |-> "ket"]
Ims(opts) == [op |-> "opt", ims |-> opts \cap IMS]
Brackets == {"bra", "cap", "once", "cond"}
Asserts == {"assert", "assertnot", "back", "backnot"}
Repeats == {"star", "plus", "query", "upto", "exact"}

------------------------------------------------------------------------------
(* compile_branch keeps: the token it is at, the code, the options, the       *)
(* number of brackets, whether something of variable length came before       *)
(* (req_varyopt), the first and the required byte, what they are if the last  *)
(* item is repeated zero times, and where the last item starts (0: there is   *)
(* none to repeat).                                                           *)
FirstNone(s) == IF s.first.k = "unset" THEN [s EXCEPT !.first = None] ELSE s
KeepZero(s) == [s EXCEPT !.zfirst = s.first, !.zreq = s.req]
Emit(s, item) == [s EXCEPT !.code = Append(@, item), !.prev = Len(s.code) + 1]
EmitMark(s, item) == [s EXCEPT !.code = Append(@, item), !.prev = 0]
Fail(s, err) == [s EXCEPT !.err = err]

OneChar(s, c) ==
    LET nc == "i" \in s.opts
        byte == Byte(c, nc, s.first.k # "unset" /\ s.vary)
        t == IF s.first.k = "unset"
             THEN [s EXCEPT !.zfirst = None, !.zreq = s.req, !.first = byte]
             ELSE [KeepZero(s) EXCEPT !.req = byte]
    IN Emit(t, Char(c, nc))
CompileCirc(s) ==
    EmitMark(IF "m" \in s.opts THEN FirstNone(s) ELSE s, Simple("circ"))
CompileDoll(s) == EmitMark(s, Simple("doll"))
CompileAny(s) == Emit(KeepZero(FirstNone(s)), Type("any"))

(* A class of one character is that character, or OP_NOT.                     *)
ClassTypes(tok) == UNION {TypeOf(e) : e \in tok.types}
ClassChars(s, tok) == tok.chars \cup (IF "i" \in s.opts THEN {fcc(c) : c \in tok.chars} ELSE {})
(* The tables of a POSIX class are put into the map one after the other: a    *)
(* negated one adds what is not in its first table, and takes away what is in *)
(* the others.  The vertical white space of [:blank:] is taken out again.     *)
Vertical == {Newline}
OrTable(bits, x, blank, i, table) ==
    IF ~x.neg THEN (bits \cup cbits[table]) \ blank
    ELSE (IF i = 1 THEN bits \cup (Chars \ cbits[table]) ELSE bits \ cbits[table]) \cup blank
OrPosix(s, bits, x) ==
    LET name == IF "i" \in s.opts /\ x.name \in {"lower", "upper"} THEN "alpha" ELSE x.name
        maps == posix_class_maps[name]
        blank == IF x.name = "blank" THEN Vertical ELSE {}
    IN FoldLeft(LAMBDA r, i : OrTable(r, x, blank, i, maps[i]), bits, [i \in DOMAIN maps |-> i])
ClassSet(s, tok) ==
    LET all == FoldLeft(LAMBDA bits, x : OrPosix(s, bits, x),
                        ClassTypes(tok) \cup ClassChars(s, tok), tok.posix)
    IN IF tok.neg THEN Chars \ all ELSE all
Unknown(tok) == \E k \in DOMAIN tok.posix : tok.posix[k].name \notin DOMAIN posix_class_maps
CompileClass(s, tok) ==
    IF Unknown(tok) THEN Fail(s, "unknown POSIX class name")
    ELSE IF Cardinality(tok.chars) + 2 * (Cardinality(tok.types) + Len(tok.posix)) = 1
    THEN LET c == CHOOSE x \in tok.chars : TRUE
         IN IF tok.neg THEN Emit(KeepZero(FirstNone(s)), [op |-> "not", c |-> c])
                       ELSE OneChar(s, c)
    ELSE Emit(KeepZero(FirstNone(s)), [op |-> "class", set |-> ClassSet(s, tok)])

CompileEsc(s, e) ==
    IF e \in {"d", "D", "s", "S", "w", "W"}
    THEN Emit(KeepZero(FirstNone(s)), Type(e))
    ELSE EmitMark(KeepZero(s), Simple(e))
CompileRef(s, n) == Emit(KeepZero(s), [op |-> "ref", n |-> n])

(* An option setting (?i) holds to the end of the group.                      *)
Changed(s, tok) == (s.opts \cup tok.set) \ tok.unset
CompileOpt(s, tok) ==
    LET new == Changed(s, tok)
    IN [s EXCEPT !.opts = new, !.prev = 0,
        !.code = IF new \cap IMS = s.opts \cap IMS THEN @ ELSE Append(@, Ims(new))]

(*------------------------------ repeats ----------------------------------*)
Repeat(op, x, n, lazy) == [op |-> op, x |-> x, n |-> n, lazy |-> lazy]
SingleRepeat(x, min, max, lazy) ==
    IF max = 0 THEN <<>>
    ELSE IF min = 0
    THEN <<IF max = -1 THEN Repeat("star", x, 0, lazy)
           ELSE IF max = 1 THEN Repeat("query", x, 0, lazy) ELSE Repeat("upto", x, max, lazy)>>
    ELSE IF min = 1
    THEN IF max = -1 THEN <<Repeat("plus", x, 0, lazy)>>
         ELSE IF max = 1 THEN <<x>> ELSE <<x, Repeat("upto", x, max - 1, lazy)>>
    ELSE <<Repeat("exact", x, min, FALSE)>> \o
         (IF max = -1 THEN <<Repeat("star", x, 0, lazy)>>
          ELSE IF max = min THEN <<>> ELSE <<Repeat("upto", x, max - min, lazy)>>)
ClassRepeat(x, min, max, lazy) ==
    IF max = 0 THEN <<>> ELSE <<[op |-> "cr", x |-> x, min |-> min, max |-> max, lazy |-> lazy]>>

(* A group is copied: the copies that may be left out nest in each other, and *)
(* the last copy loops when there is no limit.                                *)
BraZero(lazy) == [op |-> "brazero", lazy |-> lazy]
RECURSIVE Nest(_, _, _)
Nest(g, n, lazy) ==
    IF n = 0 THEN <<>>
    ELSE IF n = 1 THEN <<BraZero(lazy)>> \o g
    ELSE <<BraZero(lazy), Group("bra", 0, <<g \o Nest(g, n - 1, lazy)>>)>>
Copies(g, n) == FlattenSeq([k \in 1 .. n |-> g])
Looping(g, lazy) == [g EXCEPT ![1].ket = IF lazy THEN "min" ELSE "max"]
GroupRepeat(g, min, max, lazy) ==
    IF max = 0 THEN <<>>
    ELSE IF min = 0
    THEN IF max = -1 THEN <<BraZero(lazy)>> \o Looping(g, lazy) ELSE Nest(g, max, lazy)
    ELSE IF max = -1 THEN Copies(g, min - 1) \o Looping(g, lazy)
    ELSE Copies(g, min) \o Nest(g, max - min, lazy)

(* The bytes when an item is repeated: those from before the item if it may   *)
(* be missing; a character or the first one of a group becomes required if it *)
(* comes at least twice.                                                      *)
ForgottenZero(s, min, x) ==   \* mutant: bytes of an item that may be missing
    IF min > 1 /\ x.op = "char" THEN [s EXCEPT !.req = Byte(x.c, "i" \in s.opts, s.vary)] ELSE s
RepeatBytes(s, min, x) ==
    IF min = 0 THEN [s EXCEPT !.first = s.zfirst, !.req = s.zreq]
    ELSE IF min > 1 /\ x.op = "char"
    THEN [s EXCEPT !.req = Byte(x.c, "i" \in s.opts, s.vary)]
    ELSE IF min > 1 /\ x.op \in Brackets /\ s.groupset /\ ~IsByte(s.req)
    THEN [s EXCEPT !.req = s.first] ELSE s
Possessive(items) == <<Group("once", 0, <<items>>)>>
CompileRepeat(s, tok) ==
    IF s.prev = 0 THEN Fail(s, "nothing to repeat")
    ELSE LET g == SubSeq(s.code, s.prev, Len(s.code))
             x == g[1]
             lazy == tok.how # "possessive" /\ ((tok.how = "lazy") # ("U" \in s.opts))
             items == IF x.op \in {"char", "not", "type"}
                      THEN SingleRepeat(x, tok.min, tok.max, lazy)
                      ELSE IF x.op \in {"class", "ref"} THEN ClassRepeat(x, tok.min, tok.max, lazy)
                      ELSE GroupRepeat(g, tok.min, tok.max, lazy)
             ended == tok.max = 0 \/ (x.op \in {"char", "not", "type"} /\ tok.min = 1 /\ tok.max = 1)
         IN [RepeatBytes(s, tok.min, x) EXCEPT
                !.code = SubSeq(@, 1, s.prev - 1) \o
                         (IF tok.how = "possessive" /\ ~ended THEN Possessive(items) ELSE items),
                !.prev = 0, !.vary = @ \/ tok.min # tok.max]

------------------------------------------------------------------------------
(* find_fixedlength: the length of a branch of a lookbehind, -1 if it has     *)
(* none.  A loop around a group is not looked at.                             *)
RECURSIVE FixedLength(_)
FixedAlts(alts) ==
    LET lengths == {FixedLength(alts[k]) : k \in DOMAIN alts}
    IN IF Cardinality(lengths) = 1 THEN CHOOSE d \in lengths : TRUE ELSE -1
AnyRepeat(x) == IF x.op \in Repeats \cup {"char", "type"} THEN 1 ELSE 0   \* mutant: repeats not looked at
FixedItem(x) ==
    IF x.op \in {"bra", "cap", "once", "cond"} THEN FixedAlts(x.alts)
    ELSE IF x.op \in Asserts \cup {"reverse", "cref", "opt", "circ", "doll", "A", "G", "z", "Z", "b", "B"}
    THEN 0
    ELSE IF x.op \in {"char", "type", "class"} THEN 1
    ELSE IF x.op = "exact" THEN IF x.x.op = "not" THEN -1 ELSE x.n
    ELSE IF x.op = "cr" /\ x.x.op = "class" /\ x.min = x.max THEN x.min
    ELSE -1
FixedLength(code) ==
    IF code = <<>> THEN 0
    ELSE LET d == FixedItem(Head(code))
             e == FixedLength(Tail(code))
         IN IF d < 0 \/ e < 0 THEN -1 ELSE d + e

------------------------------------------------------------------------------
(* A group: its kind and number, the alternatives that compile_regex makes of *)
(* it, and what its bytes say of those of the branch around it.               *)
KindOf(tok) == IF tok.kind = "opts" THEN "bra" ELSE tok.kind
GroupBytes(s, kind, subfirst, subreq, tempvary) ==
    LET z == [s EXCEPT !.zreq = s.req, !.zfirst = s.first, !.groupset = FALSE]
    IN IF kind \in Brackets
       THEN LET f == IF s.first.k = "unset"
                     THEN [z EXCEPT !.first = IF IsByte(subfirst) THEN subfirst ELSE None,
                                    !.groupset = IsByte(subfirst), !.zfirst = None]
                     ELSE z
                r == IF s.first.k # "unset" /\ IsByte(subfirst) /\ ~IsByte(subreq)
                     THEN [subfirst EXCEPT !.vary = tempvary] ELSE subreq
            IN IF IsByte(r) THEN [f EXCEPT !.req = r] ELSE f
       ELSE IF kind = "assert" /\ IsByte(subreq) THEN [z EXCEPT !.req = subreq] ELSE z

(* The bytes of alternatives: the first byte of all, or none, and then it may *)
(* be required of all.                                                        *)
JoinBytes(r, b) ==
    LET split == IsByte(r.first) /\ r.first # b.first
        req == IF split /\ ~IsByte(r.req) THEN r.first ELSE r.req
        first == IF split THEN None ELSE r.first
        breq == IF ~IsByte(first) /\ IsByte(b.first) /\ ~IsByte(b.req) THEN b.first ELSE b.req
    IN [first |-> first,
        req |-> IF Plain(req) # Plain(breq) THEN None
                ELSE [req EXCEPT !.vary = @ \/ breq.vary]]

RECURSIVE compile_regex(_, _, _, _, _), compile_branch(_, _), Alternatives(_, _, _, _)
CompileGroup(p, s, tok) ==
    LET kind == KindOf(tok)
        n == s.brackets + (IF kind = "cap" THEN 1 ELSE 0)
        opts == IF tok.kind = "opts" THEN Changed(s, tok) ELSE s.opts
        r == compile_regex(p, [i |-> s.i + 1, opts |-> opts, brackets |-> n, vary |-> s.vary],
                           s.opts \cap IMS, kind \in {"back", "backnot"},
                           IF kind = "cond" /\ tok.n >= 0 THEN <<[op |-> "cref", n |-> tok.n]>> ELSE <<>>)
        few == kind = "cond" /\ Len(r.alts) = 1
        item == Group(kind, IF kind = "cap" THEN n ELSE 0, r.alts)
        t == GroupBytes(s, kind, IF few THEN None ELSE r.first, IF few THEN None ELSE r.req, s.vary)
    IN IF r.err # "" THEN Fail([s EXCEPT !.i = r.i], r.err)
       ELSE IF kind = "cond" /\ Len(r.alts) > 2 THEN Fail(s, "more than two branches")
       ELSE IF r.i > Len(p) THEN Fail(s, "missing )")
       ELSE [t EXCEPT !.code = @ \o <<item>> \o r.after, !.i = r.i, !.brackets = r.brackets,
                      !.vary = r.vary,
                      !.prev = IF kind \in Asserts THEN 0 ELSE Len(s.code) + 1]

CompileToken(p, s, tok) ==
    CASE tok.t = "chr" -> IF "x" \in s.opts /\ tok.c \in cbits.s THEN s ELSE OneChar(s, tok.c)
      [] tok.t = "any" -> CompileAny(s)
      [] tok.t = "circ" -> CompileCirc(s)
      [] tok.t = "doll" -> CompileDoll(s)
      [] tok.t = "class" -> CompileClass(s, tok)
      [] tok.t = "esc" -> CompileEsc(s, tok.e)
      [] tok.t = "ref" -> CompileRef(s, tok.n)
      [] tok.t = "rep" -> CompileRepeat(s, tok)
      [] tok.t = "opt" -> CompileOpt(s, tok)
      [] tok.t = "open" -> CompileGroup(p, s, tok)
NextToken(t) == IF t.err # "" THEN t ELSE [t EXCEPT !.i = @ + 1]
compile_branch(p, s) ==
    IF s.i > Len(p) \/ s.err # "" \/ p[s.i].t \in {"alt", "close"} THEN s
    ELSE compile_branch(p, NextToken(CompileToken(p, s, p[s.i])))

(* compile_regex, from token AT.I: the alternatives, each with the options    *)
(* that differ from those around it, and the distance a lookbehind goes back. *)
GoesBack(b, at, length) ==
    IF length < 0 THEN Fail(b, "lookbehind not of fixed length")
    ELSE [b EXCEPT !.code[at].n = length]
Measured(b, at) == IF b.err # "" THEN b ELSE GoesBack(b, at, FixedLength(b.code))
Branch(p, at, oldims, lookbehind, skip) ==
    LET ims == skip \o (IF at.opts \cap IMS # oldims THEN <<Ims(at.opts)>> ELSE <<>>)
        start == ims \o (IF lookbehind THEN <<[op |-> "reverse", n |-> 0]>> ELSE <<>>)
        state == [i |-> at.i, code |-> start, opts |-> at.opts,
                  brackets |-> at.brackets, vary |-> at.vary, err |-> "", first |-> Unset,
                  req |-> Unset, zfirst |-> Unset, zreq |-> Unset, prev |-> 0, groupset |-> FALSE]
    IN IF lookbehind THEN Measured(compile_branch(p, state), Len(start)) ELSE compile_branch(p, state)
WithBranch(r, b, bytes) ==
    [r EXCEPT !.i = b.i, !.opts = b.opts, !.brackets = b.brackets, !.vary = b.vary, !.err = b.err,
              !.alts = Append(@, b.code), !.first = bytes.first, !.req = bytes.req]
Also(r, b) == WithBranch(r, b, JoinBytes(r, b))
Alternatives(p, r, oldims, lookbehind) ==
    IF r.err # "" \/ r.i > Len(p) \/ p[r.i].t # "alt" THEN r
    ELSE Alternatives(p, Also(r, Branch(p, [r EXCEPT !.i = @ + 1], oldims, lookbehind, <<>>)),
                      oldims, lookbehind)
FirstAlternative(b) ==
    [i |-> b.i, opts |-> b.opts, brackets |-> b.brackets, vary |-> b.vary,
     err |-> b.err, alts |-> <<b.code>>, first |-> b.first, req |-> b.req]
AtClose(p, r, oldims) ==
    [i |-> r.i, brackets |-> r.brackets, vary |-> r.vary, err |-> r.err, alts |-> r.alts,
     first |-> r.first, req |-> r.req,
     after |-> IF r.opts \cap IMS # oldims /\ r.i <= Len(p) /\ p[r.i].t = "close"
               THEN <<[op |-> "opt", ims |-> oldims]>> ELSE <<>>]
compile_regex(p, at, oldims, lookbehind, skip) ==
    LET first == FirstAlternative(Branch(p, at, oldims, lookbehind, skip))
    IN AtClose(p, Alternatives(p, first, oldims, lookbehind), oldims)
=============================================================================
