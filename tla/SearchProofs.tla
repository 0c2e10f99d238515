----------------------------- MODULE SearchProofs -----------------------------
(***************************************************************************)
(* Proofs about Search, for any files, texts, links, commands and rows:    *)
(* the list of a settled launcher is complete, without doubles and in      *)
(* order, the selected item is in the frame, a line runs as it reads and   *)
(* the cursor keys walk through the directories.                           *)
(*                                                                         *)
(* None but the last two is inductive.  A list is followed from the search *)
(* that makes it through the message that carries it into the window:      *)
(* Represents says which of the candidates it stands for so far, Underway  *)
(* how far the newest search is, and NewestSomewhere that its list is not  *)
(* lost.  The icons, which the window adds while it paints, are left out   *)
(* of it (Bare).  The rest is about the operators of Search: what is cut   *)
(* out of a text, what the sort leaves, which rows are in view.            *)
(***************************************************************************)
EXTENDS Search, FiniteSetTheorems, SequenceTheorems, WellFoundedInduction, TLAPS

-----------------------------------------------------------------------------
(* Places in a list.                                                       *)
\* A set of numbers that is not empty has a least one.
LEMMA LeastPlace ==
    ASSUME NEW I \in SUBSET Nat, I # {}
    PROVE  Min(I) \in I /\ \A j \in I : Min(I) <= j
PROOF
<1>1. IsWellFoundedOn(OpToRel(<, Nat), Nat)
    BY NatLessThanWellFounded
<1>2. PICK i \in I : \A j \in I : ~(<<j, i>> \in OpToRel(<, Nat))
    BY <1>1, WFMin
<1>3. \A j \in I : ~(j < i)
    BY <1>2 DEF OpToRel
<1>4. \A j \in I : i <= j
    BY <1>3
<1>. QED
    BY <1>4 DEF Min

\* One with a bound has a greatest one.
LEMMA GreatestPlace ==
    ASSUME NEW n \in Nat, NEW I \in SUBSET (1..n), I # {}
    PROVE  Max(I) \in I /\ \A j \in I : Max(I) >= j
PROOF
<1>. DEFINE J == {m \in Nat : \A j \in I : j <= m}
<1>1. n \in J /\ J \in SUBSET Nat
    OBVIOUS
<1>2. PICK m \in J : \A k \in J : m <= k
    BY <1>1, LeastPlace
<1>3. m \in I
    <2>1. SUFFICES ASSUME m \notin I PROVE FALSE
        OBVIOUS
    <2>2. PICK i \in I : TRUE
        OBVIOUS
    <2>3. m - 1 \in J
        BY <2>1, <2>2
    <2>. QED
        BY <1>2, <2>3
<1>4. \A j \in I : m >= j
    OBVIOUS
<1>. QED
    BY <1>3, <1>4 DEF Max

\* The numbers up to n.
LEMMA Numbers ==
    ASSUME NEW n \in Nat
    PROVE  IsFiniteSet(1..n) /\ Cardinality(1..n) = n
  BY FS_Interval

\* As many places as numbers, no number twice: each number is taken.
LEMMA EveryNumberTaken ==
    ASSUME NEW n \in Nat, NEW S, IsFiniteSet(S), Cardinality(S) = n,
           NEW f \in [S -> 1..n], \A i, j \in S : f[i] = f[j] => i = j,
           NEW k \in 1..n
    PROVE  \E i \in S : f[i] = k
PROOF
<1>1. IsFiniteSet(1..n) /\ Cardinality(1..n) = n
    BY Numbers
<1>2. f \in Injection(S, 1..n)
    BY DEF Injection, IsInjective
<1>3. f \in Surjection(S, 1..n)
    BY <1>1, <1>2, FS_Injection
<1>. QED
    BY <1>3 DEF Surjection

\* The number of elements of a part that has not all of them.
LEMMA SmallerPart ==
    ASSUME NEW T, IsFiniteSet(T), NEW S \in SUBSET T, NEW x \in T, x \notin S
    PROVE  IsFiniteSet(S) /\ Cardinality(S) \in Nat /\ Cardinality(T) \in Nat
           /\ Cardinality(S) < Cardinality(T)
PROOF
<1>1. IsFiniteSet(S) /\ Cardinality(S) <= Cardinality(T) /\ Cardinality(S) # Cardinality(T)
    BY FS_Subset
<1>2. Cardinality(S) \in Nat /\ Cardinality(T) \in Nat
    BY <1>1, FS_CardinalityType
<1>. QED
    BY <1>1, <1>2

\* The elements taken out of a list are elements of it.
LEMMA AtIs ==
    ASSUME NEW S, NEW s \in Seq(S), NEW I \in SUBSET (DOMAIN s)
    PROVE  /\ At(s, I) \in Seq(S)
           /\ \A n \in DOMAIN At(s, I) : \E i \in I : At(s, I)[n] = s[i]
PROOF
<1>. DEFINE c == Cardinality(I)
            Low(i) == {j \in I : j <= i}
            f == [i \in I |-> Rank(I, i)]
<1>0. DOMAIN s = 1..Len(s) /\ Len(s) \in Nat
    BY LenProperties
<1>a. IsFiniteSet(1..Len(s)) /\ I \in SUBSET (1..Len(s))
    BY <1>0, FS_Interval
<1>1. IsFiniteSet(I) /\ c \in Nat
    BY <1>a, FS_Subset, FS_CardinalityType
<1>2. ASSUME NEW i \in I PROVE Rank(I, i) \in 1..c
    <2>1. Low(i) \in SUBSET I /\ i \in Low(i)
        BY <1>0
    <2>. HIDE DEF Low
    <2>2. IsFiniteSet(Low(i)) /\ Cardinality(Low(i)) <= c
        BY <1>1, <2>1, FS_Subset
    <2>3. Cardinality(Low(i)) \in Nat /\ Cardinality(Low(i)) # 0
        BY <2>1, <2>2, FS_CardinalityType, FS_EmptySet
    <2>4. Cardinality(Low(i)) \in 1..c
        BY <1>1, <2>2, <2>3
    <2>. QED
        BY <2>4 DEF Rank, Low
<1>3. ASSUME NEW i \in I, NEW j \in I, i < j PROVE Rank(I, i) # Rank(I, j)
    <2>1. Low(i) \subseteq Low(j) /\ j \in Low(j) /\ j \notin Low(i) /\ Low(j) \in SUBSET I
        BY <1>0, <1>3
    <2>. HIDE DEF Low
    <2>2. IsFiniteSet(Low(j))
        BY <1>1, <2>1, FS_Subset
    <2>3. Cardinality(Low(i)) # Cardinality(Low(j))
        BY <2>1, <2>2, FS_Subset
    <2>. QED
        BY <2>3 DEF Rank, Low
<1>4. \A i, j \in I : Rank(I, i) = Rank(I, j) => i = j
    <2>1. \A i, j \in I : i < j \/ j < i \/ i = j
        BY <1>0
    <2>. QED
        BY <1>3, <2>1
<1>5. f \in [I -> 1..c] /\ \A i, j \in I : f[i] = f[j] => i = j
    BY <1>2, <1>4
<1>6. ASSUME NEW n \in 1..c PROVE NthOf(I, n) \in I
    <2>. HIDE DEF c
    <2>1. \E i \in I : f[i] = n
        <3>. HIDE DEF f
        <3>. QED
            BY <1>1, <1>5, EveryNumberTaken DEF c
    <2>2. \E i \in I : Rank(I, i) = n
        BY <2>1
    <2>. QED
        BY <2>2 DEF NthOf
<1>7. \A n \in 1..c : s[NthOf(I, n)] \in S
    BY <1>0, <1>6, ElementOfSeq
<1>. DEFINE at == [n \in 1..c |-> s[NthOf(I, n)]]
<1>8. at \in [1..c -> S] /\ DOMAIN at = 1..c
    BY <1>7
<1>9. at \in Seq(S)
    <2>. HIDE DEF at, c
    <2>. QED
        BY <1>1, <1>8, SeqDef
<1>10. At(s, I) = at
    BY DEF At
<1>. QED
    BY <1>6, <1>8, <1>9, <1>10

-----------------------------------------------------------------------------
(* Texts.                                                                  *)
\* Lists are equal when they are as long and have the same elements.
LEMMA SameList ==
    ASSUME NEW S, NEW s \in Seq(S), NEW T, NEW t \in Seq(T), Len(s) = Len(t),
           \A i \in 1..Len(s) : s[i] = t[i]
    PROVE  s = t
PROOF
<1>1. s \in Seq(S \cup T) /\ t \in Seq(S \cup T)
    BY SeqMonotonic
<1>. QED
    BY <1>1, SeqEqual

\* A part of a text.
LEMMA PartIs ==
    ASSUME NEW S, NEW s \in Seq(S), NEW m \in 1..(Len(s) + 1), NEW n \in 0..Len(s)
    PROVE  /\ SubSeq(s, m, n) \in Seq(S)
           /\ Len(SubSeq(s, m, n)) = IF m <= n THEN n - m + 1 ELSE 0
           /\ \A i \in 1..(n - m + 1) : SubSeq(s, m, n)[i] = s[m + i - 1]
PROOF
<1>1. Len(s) \in Nat
    BY LenProperties
<1>2. m \in Int /\ n \in Int /\ \A i \in m..n : s[i] \in S
    BY <1>1, ElementOfSeq
<1>. QED
    BY <1>2, SubSeqProperties

\* A text is what is before a place and what is behind it.
LEMMA Cut ==
    ASSUME NEW S, NEW s \in Seq(S), NEW k \in 0..Len(s)
    PROVE  s = SubSeq(s, 1, k) \o SubSeq(s, k + 1, Len(s))
PROOF
<1>1. Len(s) \in Nat
    BY LenProperties
<1>2. 1 \in 1..(Len(s) + 1) /\ k \in (1 - 1)..Len(s) /\ Len(s) \in k..Len(s)
    BY <1>1
<1>3. SubSeq(s, 1, k) \o SubSeq(s, k + 1, Len(s)) = SubSeq(s, 1, Len(s))
    BY <1>2, ConcatAdjacentSubSeq
<1>. QED
    BY <1>3, SubSeqFull

\* The last backslash.
LEMMA LastSlashIs ==
    ASSUME NEW S, NEW t \in Seq(S)
    PROVE  /\ LastSlash(t) \in 0..Len(t)
           /\ LastSlash(t) > 0 => t[LastSlash(t)] = Slash
           /\ \A j \in 1..Len(t) : j > LastSlash(t) => t[j] # Slash
PROOF
<1>. DEFINE I == {i \in 1..Len(t) : t[i] = Slash}
<1>1. Len(t) \in Nat
    BY LenProperties
<1>2. LastSlash(t) = IF I # {} THEN Max(I) ELSE 0
    BY DEF LastSlash, SelectLastInSeq
<1>3. I # {} => Max(I) \in I /\ \A j \in I : Max(I) >= j
    <2>1. I \in SUBSET (1..Len(t))
        OBVIOUS
    <2>. HIDE DEF I
    <2>. QED
        BY <1>1, <2>1, GreatestPlace
<1>4. CASE I = {}
    BY <1>1, <1>2, <1>4
<1>5. CASE I # {}
    <2>1. LastSlash(t) \in I /\ \A j \in I : LastSlash(t) >= j
        <3>. HIDE DEF I
        <3>. QED
            BY <1>2, <1>3, <1>5
    <2>. QED
        BY <1>1, <2>1
<1>. QED
    BY <1>4, <1>5

\* Blanks at the front, and what they are taken off.
LEMMA SkipBlanksIs ==
    ASSUME NEW S, NEW t \in Seq(S)
    PROVE  \E k \in 0..Len(t) :
             /\ SkipBlanks(t) = SubSeq(t, k + 1, Len(t))
             /\ SkipBlanks(t) \in Seq(S)
             /\ SubSeq(t, 1, k) = [i \in 1..k |-> Blank]
             /\ SkipBlanks(t) # <<>> => Head(SkipBlanks(t)) # Blank
             /\ t # <<>> /\ t[1] = Blank => k > 0
PROOF
<1>. DEFINE I == {i \in 1..Len(t) : t[i] # Blank}
            m == IF I = {} THEN Len(t) ELSE Min(I) - 1
<1>1. Len(t) \in Nat
    BY LenProperties
<1>2. I # {} => Min(I) \in I /\ \A j \in I : Min(I) <= j
    <2>1. I \in SUBSET Nat
        OBVIOUS
    <2>. HIDE DEF I
    <2>. QED
        BY <2>1, LeastPlace
<1>3. m \in 0..Len(t) /\ \A i \in 1..m : t[i] = Blank
    <2>1. CASE I = {}
        BY <1>1, <2>1
    <2>2. CASE I # {}
        <3>1. Min(I) \in 1..Len(t) /\ \A j \in I : Min(I) <= j
            BY <1>2, <2>2
        <3>2. m = Min(I) - 1
            BY <2>2
        <3>3. ASSUME NEW i \in 1..m PROVE t[i] = Blank
            <4>1. i \in 1..Len(t) /\ i \notin I
                <5>. HIDE DEF m, I
                <5>. QED
                    BY <1>1, <3>1, <3>2
            <4>. QED
                BY <4>1
        <3>. HIDE DEF m, I
        <3>. QED
            BY <1>1, <3>1, <3>2, <3>3
    <2>. QED
        BY <2>1, <2>2
<1>4. SkipBlanks(t) = IF I = {} THEN <<>> ELSE SubSeq(t, m + 1, Len(t))
    <2>1. SelectInSeq(t, LAMBDA c : c # Blank) = IF I # {} THEN Min(I) ELSE 0
        BY DEF SelectInSeq
    <2>2. SkipBlanks(t) = LET i == IF I # {} THEN Min(I) ELSE 0
                          IN  IF i = 0 THEN <<>> ELSE SubSeq(t, i, Len(t))
        BY <2>1 DEF SkipBlanks
    <2>3. I # {} => Min(I) # 0 /\ Min(I) = Min(I) - 1 + 1
        BY <1>2
    <2>. QED
        BY <2>2, <2>3
<1>5. m + 1 \in 1..(Len(t) + 1) /\ Len(t) \in 0..Len(t)
    BY <1>1, <1>3
<1>6. SkipBlanks(t) = SubSeq(t, m + 1, Len(t)) /\ SkipBlanks(t) \in Seq(S)
    <2>1. I = {} => SubSeq(t, m + 1, Len(t)) = <<>>
        BY <1>1, SubSeqEmpty
    <2>2. SkipBlanks(t) = SubSeq(t, m + 1, Len(t))
        BY <1>4, <2>1
    <2>. HIDE DEF m
    <2>. QED
        BY <1>5, <2>2, PartIs
<1>7. SubSeq(t, 1, m) = [i \in 1..m |-> Blank]
    <2>. DEFINE p == SubSeq(t, 1, m)
                b == [i \in 1..m |-> Blank]
    <2>1. 1 \in 1..(Len(t) + 1) /\ m \in 0..Len(t)
        BY <1>1, <1>3
    <2>2. p \in Seq(S) /\ Len(p) = m /\ \A i \in 1..m : p[i] = t[i]
        <3>. HIDE DEF m, I
        <3>1. Len(p) = (IF 1 <= m THEN m - 1 + 1 ELSE 0) /\ p \in Seq(S)
              /\ \A i \in 1..(m - 1 + 1) : p[i] = t[1 + i - 1]
            BY <2>1, PartIs
        <3>. QED
            BY <1>1, <2>1, <3>1
    <2>3. \A i \in 1..m : p[i] = Blank
        BY <1>3, <2>2
    <2>4. b \in Seq({Blank}) /\ Len(b) = m /\ \A i \in 1..m : b[i] = Blank
        <3>. HIDE DEF m
        <3>. QED
            BY <2>1
    <2>. HIDE DEF p, b, m, I
    <2>5. p = b
        BY <2>2, <2>3, <2>4, SameList
    <2>. QED
        BY <2>5 DEF p, b
<1>8. ASSUME SkipBlanks(t) # <<>> PROVE Head(SkipBlanks(t)) # Blank
    <2>1. I # {}
        BY <1>4, <1>8
    <2>2. m + 1 \in I
        BY <1>2, <2>1
    <2>3. m + 1 \in 1..Len(t) /\ t[m + 1] # Blank
        BY <2>2
    <2>4. Head(SubSeq(t, m + 1, Len(t))) = t[m + 1]
        <3>. HIDE DEF m
        <3>. QED
            BY <1>1, <2>3, HeadTailOfSubSeq
    <2>. QED
        BY <1>6, <2>3, <2>4
<1>9. ASSUME t # <<>>, t[1] = Blank PROVE m > 0
    <2>1. Len(t) > 0
        BY <1>1, <1>9, EmptySeq
    <2>2. I # {} => Min(I) # 1
        BY <1>2, <1>9
    <2>3. I # {} => Min(I) \in 1..Len(t)
        BY <1>2
    <2>. QED
        BY <1>1, <2>1, <2>2, <2>3
<1>. HIDE DEF m
<1>. QED
    BY <1>3, <1>6, <1>7, <1>8, <1>9

-----------------------------------------------------------------------------
(* What crack_args makes of a line.                                        *)
ARGS == {<<>>} \cup {<<t>> : t \in TEXT}
ArgsOf(args) == IF args = <<>> THEN <<>> ELSE Head(args)

\* The first place of x in b; 0 when there is none.
FirstOf(b, x) == LET I == {i \in 1..Len(b) : b[i] = x} IN IF I # {} THEN Min(I) ELSE 0

LEMMA FirstOfIs ==
    ASSUME NEW S, NEW b \in Seq(S), NEW x
    PROVE  /\ FirstOf(b, x) \in 0..Len(b)
           /\ FirstOf(b, x) = 0 => \A j \in 1..Len(b) : b[j] # x
           /\ FirstOf(b, x) > 0 => b[FirstOf(b, x)] = x
           /\ \A j \in 1..Len(b) : j < FirstOf(b, x) => b[j] # x
PROOF
<1>. DEFINE I == {i \in 1..Len(b) : b[i] = x}
<1>1. Len(b) \in Nat
    BY LenProperties
<1>2. FirstOf(b, x) = IF I # {} THEN Min(I) ELSE 0
    BY DEF FirstOf
<1>3. I # {} => Min(I) \in I /\ \A j \in I : Min(I) <= j
    <2>1. I \in SUBSET Nat
        OBVIOUS
    <2>. HIDE DEF I
    <2>. QED
        BY <2>1, LeastPlace
<1>4. CASE I = {}
    BY <1>1, <1>2, <1>4
<1>5. CASE I # {}
    <2>1. FirstOf(b, x) \in I /\ \A j \in I : FirstOf(b, x) <= j
        <3>. HIDE DEF I
        <3>. QED
            BY <1>2, <1>3, <1>5
    <2>2. FirstOf(b, x) \in 1..Len(b) /\ b[FirstOf(b, x)] = x
        BY <2>1
    <2>3. ASSUME NEW j \in 1..Len(b), j < FirstOf(b, x) PROVE b[j] # x
        <3>1. j \notin I
            BY <2>1, <2>2, <2>3
        <3>. QED
            BY <3>1
    <2>. QED
        BY <1>1, <2>2, <2>3
<1>. QED
    BY <1>4, <1>5

\* A text that begins with c.
LEMMA BeginsIs ==
    ASSUME NEW S, NEW s \in Seq(S), NEW c, IsPrefix(<<c>>, s)
    PROVE  s # <<>> /\ 1 \in 1..Len(s) /\ s[1] = c
PROOF
<1>1. Len(s) \in Nat /\ Len(<<c>>) = 1
    BY LenProperties
<1>2. 1 <= Len(s) /\ SubSeq(<<c>>, 1, 1) = SubSeq(s, 1, 1)
    BY <1>1 DEF IsPrefix
<1>3. SubSeq(s, 1, 1)[1] = s[1]
    <2>1. 1 \in 1..(Len(s) + 1) /\ 1 \in 0..Len(s) /\ 1 \in 1..(1 - 1 + 1) /\ 1 + 1 - 1 = 1
        BY <1>1, <1>2
    <2>. QED
        BY <2>1, PartIs
<1>4. SubSeq(<<c>>, 1, 1)[1] = c
    <2>1. <<c>> \in Seq({c}) /\ 1 \in 1..(Len(<<c>>) + 1) /\ 1 \in 0..Len(<<c>>)
          /\ 1 \in 1..(1 - 1 + 1) /\ 1 + 1 - 1 = 1
        BY <1>1
    <2>2. SubSeq(<<c>>, 1, 1)[1] = <<c>>[1]
        BY <2>1, PartIs
    <2>. QED
        BY <2>2
<1>. QED
    BY <1>1, <1>2, <1>3, <1>4, EmptySeq

\* What is left of the blanks does not begin with one.
LEMMA NoBlankFirst ==
    ASSUME NEW S, NEW s \in Seq(S), s # <<>> => Head(s) # Blank
    PROVE  ~IsPrefix(<<Blank>>, s)
PROOF
<1>1. SUFFICES ASSUME IsPrefix(<<Blank>>, s) PROVE FALSE
    OBVIOUS
<1>2. s # <<>> /\ s[1] = Blank
    BY <1>1, BeginsIs
<1>. QED
    BY <1>2

\* As many blanks as there are in a line.
LEMMA BlanksIs ==
    ASSUME NEW n \in Nat, NEW k \in 0..n
    PROVE  [i \in 1..k |-> Blank] \in Blanks(n)
  BY DEF Blanks

\* crack_args, with the place it looks for named.
Body(t) == LET s == SkipBlanks(t) IN IF s # <<>> /\ Head(s) = Quote THEN Tail(s) ELSE s
Quoted(t) == SkipBlanks(t) # <<>> /\ Head(SkipBlanks(t)) = Quote
EndOf(t) == FirstOf(Body(t), IF Quoted(t) THEN Quote ELSE Blank)
Behind(t) == SubSeq(Body(t), IF Quoted(t) THEN EndOf(t) + 1 ELSE EndOf(t), Len(Body(t)))
RestOf(t) == IF EndOf(t) = 0 THEN <<>> ELSE SkipBlanks(Behind(t))

LEMMA CrackedAre ==
    ASSUME NEW t
    PROVE  crack_args(t) =
             [cmd |-> SubSeq(Body(t), 1, IF EndOf(t) = 0 THEN Len(Body(t)) ELSE EndOf(t) - 1),
              args |-> IF RestOf(t) = <<>> THEN <<>> ELSE <<RestOf(t)>>]
PROOF
<1>1. SelectInSeq(Body(t), LAMBDA c : c = IF Quoted(t) THEN Quote ELSE Blank) = EndOf(t)
    BY DEF SelectInSeq, EndOf, FirstOf
<1>2. crack_args(t) =
        LET i == SelectInSeq(Body(t), LAMBDA c : c = IF Quoted(t) THEN Quote ELSE Blank)
            rest == IF i = 0 THEN <<>>
                    ELSE SkipBlanks(SubSeq(Body(t), IF Quoted(t) THEN i + 1 ELSE i, Len(Body(t))))
        IN  [cmd |-> SubSeq(Body(t), 1, IF i = 0 THEN Len(Body(t)) ELSE i - 1),
             args |-> IF rest = <<>> THEN <<>> ELSE <<rest>>]
    BY DEF crack_args, Body, Quoted
<1>. QED
    BY <1>1, <1>2 DEF RestOf, Behind

\* Texts behind each other, whichever are joined first.
ThreeJoined(a, b, c) == (a \o b) \o c = a \o (b \o c)
FourJoined(a, b, c, d) == a \o (b \o (c \o d)) = a \o b \o c \o d
SixJoined(a, b, c, d, e, f) ==
    a \o (b \o (c \o (d \o (e \o f)))) = a \o b \o c \o d \o e \o f

LEMMA TwoTexts ==
    ASSUME NEW S, NEW a \in Seq(S), NEW b \in Seq(S)
    PROVE  a \o b \in Seq(S)
  BY ConcatProperties

LEMMA ThreeTexts ==
    ASSUME NEW S, NEW a \in Seq(S), NEW b \in Seq(S), NEW c \in Seq(S)
    PROVE  ThreeJoined(a, b, c)
  BY ConcatAssociative DEF ThreeJoined

LEMMA FourTexts ==
    ASSUME NEW S, NEW a \in Seq(S), NEW b \in Seq(S), NEW c \in Seq(S), NEW d \in Seq(S)
    PROVE  FourJoined(a, b, c, d)
PROOF
<1>1. a \o b \in Seq(S) /\ c \o d \in Seq(S)
    BY TwoTexts, Zenon
<1>2. PICK x \in Seq(S) : x = c \o d
    BY <1>1, Zenon
<1>3. PICK y \in Seq(S) : y = a \o b
    BY <1>1, Zenon
<1>4. ThreeJoined(a, b, x) /\ ThreeJoined(y, c, d)
    BY ThreeTexts, Zenon
<1>. QED
    BY <1>2, <1>3, <1>4, Zenon DEF ThreeJoined, FourJoined

LEMMA SixTexts ==
    ASSUME NEW S, NEW a \in Seq(S), NEW b \in Seq(S), NEW c \in Seq(S), NEW d \in Seq(S),
           NEW e \in Seq(S), NEW f \in Seq(S)
    PROVE  SixJoined(a, b, c, d, e, f)
PROOF
<1>. DEFINE x == d \o (e \o f)
            y == a \o b \o c
<1>1. x \in Seq(S) /\ y \in Seq(S)
    <2>1. e \o f \in Seq(S) /\ a \o b \in Seq(S)
        BY TwoTexts, Zenon
    <2>. HIDE DEF x, y
    <2>2. x \in Seq(S)
        BY <2>1, TwoTexts, Zenon DEF x
    <2>3. y \in Seq(S)
        BY <2>1, TwoTexts, Zenon DEF y
    <2>. QED
        BY <2>2, <2>3
<1>. HIDE DEF x, y
<1>2. FourJoined(a, b, c, x) /\ FourJoined(y, d, e, f)
    BY <1>1, FourTexts, Zenon
<1>3. a \o (b \o (c \o x)) = y \o x
    BY <1>2, Zenon DEF FourJoined, y
<1>4. y \o x = y \o d \o e \o f
    BY <1>2, Zenon DEF FourJoined, x
<1>5. a \o (b \o (c \o x)) = y \o d \o e \o f
    BY <1>3, <1>4, Zenon
<1>. QED
    BY <1>5, Zenon DEF x, y, SixJoined

\* A line is cut where it means to be.
LEMMA CrackMeans ==
    ASSUME NEW t \in TEXT
    PROVE  /\ crack_args(t).cmd \in TEXT /\ crack_args(t).args \in ARGS
           /\ crack_args(t) = [cmd |-> crack_args(t).cmd, args |-> crack_args(t).args]
           /\ ~IsPrefix(<<Blank>>, ArgsOf(crack_args(t).args))
           /\ Means(t, crack_args(t).cmd, ArgsOf(crack_args(t).args))
PROOF
<1>. DEFINE s == SkipBlanks(t)
            b == Body(t)
            e == EndOf(t)
            cmd == SubSeq(b, 1, IF e = 0 THEN Len(b) ELSE e - 1)
            rest == RestOf(t)
            args == IF rest = <<>> THEN <<>> ELSE <<rest>>
<1>0. Len(t) \in Nat /\ t \in Seq(Pieces) /\ TEXT = Seq(Pieces)
    BY LenProperties DEF TEXT
<1>1. crack_args(t).cmd = cmd /\ crack_args(t).args = args
      /\ crack_args(t) = [cmd |-> crack_args(t).cmd, args |-> crack_args(t).args]
    BY CrackedAre
<1>2. PICK k \in 0..Len(t) :
         /\ s = SubSeq(t, k + 1, Len(t)) /\ s \in Seq(Pieces)
         /\ SubSeq(t, 1, k) = [i \in 1..k |-> Blank]
         /\ s # <<>> => Head(s) # Blank
    BY <1>0, SkipBlanksIs
<1>. DEFINE lead == [i \in 1..k |-> Blank]
<1>. HIDE DEF s, b, e, cmd, rest
<1>3. lead \in Blanks(Len(t)) /\ t = lead \o s /\ lead \in Seq(Pieces)
    <2>1. lead \in Blanks(Len(t))
        BY <1>0, BlanksIs
    <2>2. t = SubSeq(t, 1, k) \o SubSeq(t, k + 1, Len(t))
        BY <1>0, Cut
    <2>3. 1 \in 1..(Len(t) + 1) /\ k \in 0..Len(t)
        BY <1>0
    <2>4. SubSeq(t, 1, k) \in Seq(Pieces)
        BY <1>0, <2>3, PartIs
    <2>. QED
        BY <1>2, <2>1, <2>2, <2>4
<1>. HIDE DEF lead
<1>4. b \in Seq(Pieces) /\ Len(b) \in Nat /\ Len(b) <= Len(s) /\ Len(s) \in Nat /\ Len(s) <= Len(t)
    <2>1. Len(s) <= Len(t) /\ Len(s) \in Nat
        <3>1. k + 1 \in 1..(Len(t) + 1) /\ Len(t) \in 0..Len(t)
            BY <1>0
        <3>2. Len(s) = IF k + 1 <= Len(t) THEN Len(t) - (k + 1) + 1 ELSE 0
            BY <1>0, <1>2, <3>1, PartIs
        <3>. QED
            BY <1>0, <3>2
    <2>2. b = s \/ (b = Tail(s) /\ s # <<>>)
        BY DEF b, s, Body
    <2>3. b \in Seq(Pieces) /\ Len(b) <= Len(s)
        <3>1. CASE b = s
            BY <1>2, <2>1, <3>1
        <3>2. CASE b = Tail(s) /\ s # <<>>
            <4>1. b \in Seq(Pieces) /\ Len(b) = Len(s) - 1
                BY <1>2, <3>2, HeadTailProperties
            <4>. QED
                BY <2>1, <4>1
        <3>. QED
            BY <2>2, <3>1, <3>2
    <2>4. Len(b) \in Nat
        BY <2>3, LenProperties
    <2>. QED
        BY <2>1, <2>3, <2>4
<1>5. e = FirstOf(b, IF Quoted(t) THEN Quote ELSE Blank) /\ e \in 0..Len(b)
    <2>1. e = FirstOf(b, IF Quoted(t) THEN Quote ELSE Blank)
        BY DEF e, b, EndOf
    <2>. QED
        BY <1>4, <2>1, FirstOfIs
<1>6. cmd \in Seq(Pieces) /\ (e = 0 => cmd = b)
      /\ (e > 0 => cmd = SubSeq(b, 1, e - 1) /\ Len(cmd) = e - 1
                   /\ \A j \in 1..(e - 1) : cmd[j] = b[j])
    <2>1. CASE e = 0
        <3>1. cmd = b
            BY <1>4, <2>1, SubSeqFull DEF cmd
        <3>. QED
            BY <1>4, <2>1, <3>1
    <2>2. CASE e # 0
        <3>1. 1 \in 1..(Len(b) + 1) /\ e - 1 \in 0..Len(b) /\ cmd = SubSeq(b, 1, e - 1)
            BY <1>4, <1>5, <2>2 DEF cmd
        <3>2. cmd \in Seq(Pieces) /\ Len(cmd) = (IF 1 <= e - 1 THEN e - 1 - 1 + 1 ELSE 0)
              /\ \A j \in 1..(e - 1 - 1 + 1) : cmd[j] = b[1 + j - 1]
            BY <1>4, <3>1, PartIs
        <3>. QED
            BY <1>4, <1>5, <2>2, <3>1, <3>2
    <2>. QED
        BY <2>1, <2>2
<1>7. rest \in Seq(Pieces) /\ (rest # <<>> => Head(rest) # Blank) /\ (e = 0 => rest = <<>>)
      /\ (e > 0 => \E gap \in Blanks(Len(t)) :
                       /\ gap \in Seq(Pieces)
                       /\ Behind(t) = gap \o rest /\ Behind(t) \in Seq(Pieces)
                       /\ ~Quoted(t) => gap # <<>>)
    <2>1. CASE e = 0
        BY <2>1, EmptySeq DEF rest, RestOf, e
    <2>2. CASE e # 0
        <3>. DEFINE u == Behind(t)
                    m == IF Quoted(t) THEN e + 1 ELSE e
        <3>1. rest = SkipBlanks(u) /\ u = SubSeq(b, m, Len(b))
            BY <2>2 DEF rest, RestOf, e, Behind, b
        <3>2. m \in 1..(Len(b) + 1) /\ Len(b) \in 0..Len(b) /\ e \in 1..Len(b)
            BY <1>4, <1>5, <2>2
        <3>. HIDE DEF u, m
        <3>3. u \in Seq(Pieces) /\ Len(u) = (IF m <= Len(b) THEN Len(b) - m + 1 ELSE 0)
              /\ \A i \in 1..(Len(b) - m + 1) : u[i] = b[m + i - 1]
            BY <1>4, <3>1, <3>2, PartIs
        <3>4. Len(u) \in Nat /\ Len(u) <= Len(t)
            BY <1>4, <1>0, <3>2, <3>3
        <3>5. PICK g \in 0..Len(u) :
                 /\ rest = SubSeq(u, g + 1, Len(u)) /\ rest \in Seq(Pieces)
                 /\ SubSeq(u, 1, g) = [i \in 1..g |-> Blank]
                 /\ rest # <<>> => Head(rest) # Blank
                 /\ u # <<>> /\ u[1] = Blank => g > 0
            BY <3>1, <3>3, SkipBlanksIs
        <3>. DEFINE gap == [i \in 1..g |-> Blank]
        <3>6. gap \in Blanks(Len(t))
            BY <1>0, <3>4, BlanksIs
        <3>7. u = gap \o rest /\ gap \in Seq(Pieces)
            <4>1. u = SubSeq(u, 1, g) \o SubSeq(u, g + 1, Len(u))
                BY <3>3, Cut
            <4>2. 1 \in 1..(Len(u) + 1)
                BY <3>4
            <4>3. SubSeq(u, 1, g) \in Seq(Pieces)
                BY <3>3, <4>2, PartIs
            <4>. QED
                BY <3>5, <4>1, <4>3
        <3>8. ASSUME ~Quoted(t) PROVE gap # <<>>
            <4>1. m = e /\ b[e] = Blank
                BY <1>4, <1>5, <2>2, <3>2, <3>8, FirstOfIs DEF m
            <4>2. 1 \in 1..(Len(b) - m + 1) /\ m + 1 - 1 = e
                BY <1>4, <3>2, <4>1
            <4>3. u[1] = Blank /\ Len(u) > 0
                BY <3>2, <3>3, <4>1, <4>2
            <4>4. g > 0
                BY <3>5, <4>3, EmptySeq
            <4>5. gap[1] = Blank /\ Len(gap) = g
                BY <3>4, <4>4
            <4>. QED
                BY <4>4, <4>5, EmptySeq
        <3>. QED
            BY <2>2, <3>3, <3>5, <3>6, <3>7, <3>8 DEF u
    <2>. QED
        BY <2>1, <2>2
<1>8. args \in ARGS /\ ArgsOf(args) = rest
    BY <1>0, <1>7 DEF ARGS, ArgsOf
<1>9. ~IsPrefix(<<Blank>>, rest)
    BY <1>7, NoBlankFirst
<1>10. Means(t, cmd, rest)
    <2>1. <<>> \in Blanks(Len(t)) /\ <<>> \in Seq(Pieces)
        <3>1. [i \in 1..0 |-> Blank] = <<>>
            OBVIOUS
        <3>2. 0 \in 0..Len(t)
            BY <1>0
        <3>. QED
            BY <1>0, <3>1, <3>2, BlanksIs, EmptySeq
    <2>2. CASE ~Quoted(t)
        <3>1. b = s /\ (s # <<>> => Head(s) # Quote)
            BY <2>2 DEF b, s, Body, Quoted
        <3>2. ~Contains(cmd, Blank)
            <4>1. e = FirstOf(b, Blank)
                BY <1>5, <2>2
            <4>2. ASSUME NEW j \in 1..Len(cmd) PROVE cmd[j] # Blank
                <5>1. CASE e = 0
                    BY <1>4, <1>6, <4>1, <4>2, <5>1, FirstOfIs
                <5>2. CASE e # 0
                    <6>1. j \in 1..Len(b) /\ j < e /\ cmd[j] = b[j]
                        BY <1>4, <1>5, <1>6, <4>2, <5>2
                    <6>. QED
                        BY <1>4, <4>1, <6>1, FirstOfIs
                <5>. QED
                    BY <5>1, <5>2
            <4>. QED
                BY <4>2 DEF Contains
        <3>3. ~IsPrefix(<<Quote>>, cmd)
            <4>1. SUFFICES ASSUME IsPrefix(<<Quote>>, cmd) PROVE FALSE
                OBVIOUS
            <4>2. cmd # <<>> /\ 1 \in 1..Len(cmd) /\ cmd[1] = Quote
                BY <1>6, <4>1, BeginsIs
            <4>3. cmd[1] = b[1] /\ Len(b) > 0
                BY <1>4, <1>5, <1>6, <4>2
            <4>4. b # <<>> /\ Head(b) = b[1]
                BY <1>4, <4>3, EmptySeq
            <4>. QED
                BY <3>1, <4>2, <4>3, <4>4
        <3>4. CASE e = 0
            <4>1. t = lead \o cmd \o <<>> \o rest
                BY <1>3, <1>4, <1>6, <1>7, <2>1, <3>1, <3>4, ConcatEmptySeq, ConcatProperties
            <4>. QED
                BY <1>3, <1>7, <2>1, <3>2, <3>3, <3>4, <4>1 DEF Means
        <3>5. CASE e # 0
            <4>0. e > 0
                BY <1>5, <1>4, <3>5
            <4>1. PICK gap \in Blanks(Len(t)) : gap \in Seq(Pieces) /\ Behind(t) = gap \o rest /\ gap # <<>>
                BY <1>7, <2>2, <4>0
            <4>2. Behind(t) = SubSeq(b, e, Len(b))
                BY <2>2 DEF Behind, b, e
            <4>3. b = cmd \o Behind(t)
                <5>1. e - 1 \in 0..Len(b) /\ e - 1 + 1 = e
                    BY <1>4, <1>5, <4>0
                <5>2. b = SubSeq(b, 1, e - 1) \o SubSeq(b, e - 1 + 1, Len(b))
                    BY <1>4, <5>1, Cut
                <5>. QED
                    BY <1>6, <4>0, <4>2, <5>1, <5>2
            <4>4. t = lead \o (cmd \o (gap \o rest))
                BY <1>3, <3>1, <4>1, <4>3
            <4>5. t = lead \o cmd \o gap \o rest
                <5>1. FourJoined(lead, cmd, gap, rest)
                    BY <1>3, <1>6, <1>7, <4>1, FourTexts
                <5>. QED
                    BY <4>4, <5>1, Zenon DEF FourJoined
            <4>. QED
                BY <1>3, <3>2, <3>3, <4>1, <4>5 DEF Means
        <3>. QED
            BY <3>4, <3>5
    <2>3. CASE Quoted(t)
        <3>1. b = Tail(s) /\ s # <<>> /\ Head(s) = Quote
            BY <2>3 DEF b, s, Body, Quoted
        <3>2. s = <<Quote>> \o b /\ <<Quote>> \in Seq(Pieces)
            <4>1. Quote \in Pieces
                BY <1>2, <3>1, HeadTailProperties
            <4>2. <<Quote>> \in Seq(Pieces) /\ Len(<<Quote>>) = 1 /\ <<Quote>>[1] = Quote
                BY <4>1
            <4>. DEFINE qb == <<Quote>> \o b
            <4>3. qb \in Seq(Pieces) /\ Len(qb) = 1 + Len(b)
                  /\ \A i \in 1..(1 + Len(b)) : qb[i] = IF i <= 1 THEN Quote ELSE b[i - 1]
                BY <1>4, <4>2, ConcatProperties
            <4>4. Len(b) = Len(s) - 1 /\ \A i \in 1..Len(b) : b[i] = s[i + 1]
                BY <1>2, <3>1, HeadTailProperties
            <4>5. s[1] = Quote /\ Len(s) = 1 + Len(b)
                BY <1>2, <1>4, <3>1, <4>4
            <4>. HIDE DEF qb
            <4>6. ASSUME NEW i \in 1..Len(s) PROVE s[i] = qb[i]
                <5>1. CASE i = 1
                    BY <1>4, <4>3, <4>5, <5>1
                <5>2. CASE i # 1
                    <6>1. i - 1 \in 1..Len(b) /\ i \in 1..(1 + Len(b)) /\ ~(i <= 1) /\ i - 1 + 1 = i
                        BY <1>4, <4>5, <4>6, <5>2
                    <6>. QED
                        BY <4>3, <4>4, <6>1
                <5>. QED
                    BY <5>1, <5>2
            <4>7. Len(s) = Len(qb)
                BY <4>3, <4>5
            <4>8. s = qb
                <5>1. s \in Seq(Pieces) /\ qb \in Seq(Pieces)
                    BY <1>2, <4>3
                <5>. QED
                    BY <4>6, <4>7, <5>1, SeqEqual
            <4>. QED
                BY <4>2, <4>8 DEF qb
        <3>3. ~Contains(cmd, Quote)
            <4>1. e = FirstOf(b, Quote)
                BY <1>5, <2>3
            <4>2. ASSUME NEW j \in 1..Len(cmd) PROVE cmd[j] # Quote
                <5>1. CASE e = 0
                    BY <1>4, <1>6, <4>1, <4>2, <5>1, FirstOfIs
                <5>2. CASE e # 0
                    <6>1. j \in 1..Len(b) /\ j < e /\ cmd[j] = b[j]
                        BY <1>4, <1>5, <1>6, <4>2, <5>2
                    <6>. QED
                        BY <1>4, <4>1, <6>1, FirstOfIs
                <5>. QED
                    BY <5>1, <5>2
            <4>. QED
                BY <4>2 DEF Contains
        <3>4. CASE e = 0
            <4>1. t = lead \o <<Quote>> \o cmd
                <5>1. ThreeJoined(lead, <<Quote>>, b)
                    BY <1>3, <1>4, <3>2, ThreeTexts, Zenon
                <5>2. t = lead \o (<<Quote>> \o b) /\ cmd = b
                    BY <1>3, <1>6, <3>2, <3>4
                <5>. QED
                    BY <5>1, <5>2, Zenon DEF ThreeJoined
            <4>. QED
                BY <1>3, <1>7, <2>1, <3>3, <3>4, <4>1 DEF Means
        <3>5. CASE e # 0
            <4>0. e > 0 /\ e \in 1..Len(b)
                BY <1>5, <1>4, <3>5
            <4>1. PICK gap \in Blanks(Len(t)) : gap \in Seq(Pieces) /\ Behind(t) = gap \o rest
                BY <1>7, <4>0
            <4>2. Behind(t) = SubSeq(b, e + 1, Len(b)) /\ Behind(t) \in Seq(Pieces)
                BY <1>7, <2>3, <4>0 DEF Behind, b, e
            <4>3. b = cmd \o (<<Quote>> \o Behind(t))
                <5>1. e - 1 \in 0..Len(b) /\ e - 1 + 1 = e
                    BY <1>4, <4>0
                <5>2. b = SubSeq(b, 1, e - 1) \o SubSeq(b, e, Len(b))
                    BY <1>4, <5>1, Cut
                <5>3. Len(b) \in e..Len(b)
                    BY <1>4, <4>0
                <5>4. SubSeq(b, e, Len(b)) = <<b[e]>> \o SubSeq(b, e + 1, Len(b))
                    BY <1>4, <4>0, <5>3, SubSeqRecursiveFirst
                <5>5. b[e] = Quote
                    BY <1>4, <1>5, <2>3, <4>0, FirstOfIs
                <5>. QED
                    BY <1>6, <4>0, <4>2, <5>2, <5>4, <5>5
            <4>4. t = lead \o (<<Quote>> \o (cmd \o (<<Quote>> \o (gap \o rest))))
                BY <1>3, <3>2, <4>1, <4>3
            <4>5. t = lead \o <<Quote>> \o cmd \o <<Quote>> \o gap \o rest
                <5>. DEFINE q == <<Quote>>
                <5>1. q \in Seq(Pieces)
                    BY <3>2
                <5>. HIDE DEF q
                <5>2. SixJoined(lead, q, cmd, q, gap, rest)
                    BY <1>3, <1>6, <1>7, <4>1, <5>1, SixTexts
                <5>3. t = lead \o (q \o (cmd \o (q \o (gap \o rest))))
                    BY <4>4, Zenon DEF q
                <5>4. t = lead \o q \o cmd \o q \o gap \o rest
                    BY <5>2, <5>3, Zenon DEF SixJoined
                <5>. QED
                    BY <5>4, Zenon DEF q
            <4>. QED
                BY <1>3, <3>3, <4>1, <4>5 DEF Means
        <3>. QED
            BY <3>4, <3>5
    <2>. QED
        BY <2>2, <2>3
<1>. QED
    BY <1>0, <1>1, <1>6, <1>8, <1>9, <1>10

-----------------------------------------------------------------------------
(* The order of the list, and what the sort makes of it.                   *)
\* An item of RunMRU has what its line is cut into.
ITEM ==
    {item \in [show : TEXT, cmd : TEXT, args : ARGS, weight : Int, mru : BOOLEAN, icon : TEXT] :
        item.mru => crack_args(item.show) = [cmd |-> item.cmd, args |-> item.args]}

\* s is before t, and n pieces of them are the same.
Parts(s, t, n) ==
    /\ n \in 0..Len(s) /\ n < Len(t)
    /\ \A k \in 1..n : s[k] = t[k]
    /\ n = Len(s) \/ Code[s[n + 1]] < Code[t[n + 1]]

\* Fronts are equal when their pieces are.
LEMMA SameFront ==
    ASSUME NEW s \in TEXT, NEW t \in TEXT, NEW n \in 0..Len(s), n <= Len(t)
    PROVE  SubSeq(s, 1, n) = SubSeq(t, 1, n) <=> \A k \in 1..n : s[k] = t[k]
PROOF
<1>. DEFINE u == SubSeq(s, 1, n)
            v == SubSeq(t, 1, n)
<1>1. Len(s) \in Nat /\ Len(t) \in Nat /\ s \in Seq(Pieces) /\ t \in Seq(Pieces)
    BY LenProperties DEF TEXT
<1>2. 1 \in 1..(Len(s) + 1) /\ 1 \in 1..(Len(t) + 1) /\ n \in 0..Len(t)
    BY <1>1
<1>3. u \in Seq(Pieces) /\ Len(u) = n /\ \A k \in 1..n : u[k] = s[k]
    <2>1. u \in Seq(Pieces) /\ Len(u) = (IF 1 <= n THEN n - 1 + 1 ELSE 0)
          /\ \A k \in 1..(n - 1 + 1) : u[k] = s[1 + k - 1]
        BY <1>1, <1>2, PartIs
    <2>. HIDE DEF u
    <2>. QED
        BY <1>1, <2>1
<1>4. v \in Seq(Pieces) /\ Len(v) = n /\ \A k \in 1..n : v[k] = t[k]
    <2>1. v \in Seq(Pieces) /\ Len(v) = (IF 1 <= n THEN n - 1 + 1 ELSE 0)
          /\ \A k \in 1..(n - 1 + 1) : v[k] = t[1 + k - 1]
        BY <1>1, <1>2, PartIs
    <2>. HIDE DEF v
    <2>. QED
        BY <1>1, <2>1
<1>. HIDE DEF u, v
<1>5. ASSUME u = v PROVE \A k \in 1..n : s[k] = t[k]
    BY <1>3, <1>4, <1>5
<1>6. ASSUME \A k \in 1..n : s[k] = t[k] PROVE u = v
    <2>1. \A k \in 1..Len(u) : u[k] = v[k]
        BY <1>3, <1>4, <1>6
    <2>. QED
        BY <1>3, <1>4, <2>1, SeqEqual
<1>. QED
    BY <1>5, <1>6 DEF u, v

LEMMA BeforeParts ==
    ASSUME NEW s \in TEXT, NEW t \in TEXT
    PROVE  ShownBefore(s, t) <=> \E n \in 0..Len(s) : Parts(s, t, n)
PROOF
<1>1. Len(s) \in Nat /\ Len(t) \in Nat
    BY LenProperties DEF TEXT
<1>2. ASSUME NEW n \in 0..Len(s), n < Len(t)
      PROVE  SubSeq(s, 1, n) = SubSeq(t, 1, n) <=> \A k \in 1..n : s[k] = t[k]
    <2>1. n <= Len(t)
        BY <1>1, <1>2
    <2>. QED
        BY <2>1, SameFront
<1>3. ASSUME NEW n \in 0..Len(s)
      PROVE  Parts(s, t, n) <=>
                /\ n < Len(t)
                /\ SubSeq(s, 1, n) = SubSeq(t, 1, n)
                /\ n = Len(s) \/ Code[s[n + 1]] < Code[t[n + 1]]
    BY <1>2, <1>3 DEF Parts
<1>. QED
    BY <1>3 DEF ShownBefore

\* Pieces are numbered.
LEMMA CodesAre ==
    ASSUME NEW s \in TEXT
    PROVE  /\ Len(s) \in Nat
           /\ \A k \in 1..Len(s) : s[k] \in Pieces /\ Code[s[k]] \in Nat
  BY TextAssumption, LenProperties, ElementOfSeq DEF TEXT

\* It is an order of the texts, and any two of them have one.
LEMMA TextsOrdered ==
    /\ \A s \in TEXT : ~ShownBefore(s, s)
    /\ \A s, t, u \in TEXT : ShownBefore(s, t) /\ ShownBefore(t, u) => ShownBefore(s, u)
    /\ \A s, t \in TEXT : s = t \/ ShownBefore(s, t) \/ ShownBefore(t, s)
PROOF
<1>1. ASSUME NEW s \in TEXT, ShownBefore(s, s) PROVE FALSE
    <2>1. PICK n \in 0..Len(s) : Parts(s, s, n)
        BY <1>1, BeforeParts
    <2>2. n < Len(s) /\ (n = Len(s) \/ Code[s[n + 1]] < Code[s[n + 1]])
        BY <2>1 DEF Parts
    <2>3. n + 1 \in 1..Len(s)
        BY <2>2, CodesAre
    <2>4. Code[s[n + 1]] \in Nat
        BY <2>3, CodesAre
    <2>. QED
        BY <2>2, <2>4, CodesAre
<1>2. ASSUME NEW s \in TEXT, NEW t \in TEXT, NEW u \in TEXT, ShownBefore(s, t), ShownBefore(t, u)
      PROVE  ShownBefore(s, u)
    <2>1. PICK n \in 0..Len(s) : Parts(s, t, n)
        BY <1>2, BeforeParts
    <2>2. PICK m \in 0..Len(t) : Parts(t, u, m)
        BY <1>2, BeforeParts
    <2>3. Len(s) \in Nat /\ Len(t) \in Nat /\ Len(u) \in Nat
        BY CodesAre
    <2>4. CASE n <= m /\ n = Len(s)
        <3>1. \A k \in 1..n : s[k] = u[k]
            BY <2>1, <2>2, <2>3, <2>4 DEF Parts
        <3>2. n < Len(u)
            BY <2>1, <2>2, <2>3, <2>4 DEF Parts
        <3>3. Parts(s, u, n)
            BY <2>4, <3>1, <3>2 DEF Parts
        <3>. QED
            BY <3>3, BeforeParts
    <2>5. CASE n <= m /\ n # Len(s)
        <3>1. \A k \in 1..n : s[k] = u[k]
            BY <2>1, <2>2, <2>3, <2>5 DEF Parts
        <3>2. n < Len(u) /\ n < Len(t) /\ n < Len(s) /\ Code[s[n + 1]] < Code[t[n + 1]]
            BY <2>1, <2>2, <2>3, <2>5 DEF Parts
        <3>3. Code[s[n + 1]] \in Nat /\ Code[t[n + 1]] \in Nat /\ Code[u[n + 1]] \in Nat
            <4>1. n + 1 \in 1..Len(s) /\ n + 1 \in 1..Len(t) /\ n + 1 \in 1..Len(u)
                BY <2>3, <3>2
            <4>. QED
                BY <4>1, CodesAre
        <3>4. Code[s[n + 1]] < Code[u[n + 1]]
            <4>1. CASE n < m
                <5>1. n + 1 \in 1..m
                    BY <2>3, <4>1
                <5>2. t[n + 1] = u[n + 1]
                    BY <2>2, <5>1 DEF Parts
                <5>. QED
                    BY <3>2, <5>2
            <4>2. CASE n = m
                <5>1. Code[t[n + 1]] < Code[u[n + 1]]
                    BY <2>2, <2>3, <3>2, <4>2 DEF Parts
                <5>. QED
                    BY <3>2, <3>3, <5>1
            <4>. QED
                BY <2>3, <2>5, <4>1, <4>2
        <3>5. Parts(s, u, n)
            BY <3>1, <3>2, <3>4 DEF Parts
        <3>. QED
            BY <3>5, BeforeParts
    <2>6. CASE m < n
        <3>1. \A k \in 1..m : s[k] = u[k]
            BY <2>1, <2>2, <2>3, <2>6 DEF Parts
        <3>2. m < Len(u) /\ m < Len(t) /\ m < Len(s)
            BY <2>1, <2>2, <2>3, <2>6 DEF Parts
        <3>3. Code[t[m + 1]] < Code[u[m + 1]]
            BY <2>2, <2>3, <3>2 DEF Parts
        <3>4. s[m + 1] = t[m + 1]
            <4>1. m + 1 \in 1..n
                BY <2>3, <2>6
            <4>. QED
                BY <2>1, <4>1 DEF Parts
        <3>5. m \in 0..Len(s)
            BY <2>3, <3>2
        <3>6. Parts(s, u, m)
            BY <3>1, <3>2, <3>3, <3>4, <3>5 DEF Parts
        <3>. QED
            BY <3>5, <3>6, BeforeParts
    <2>. QED
        BY <2>3, <2>4, <2>5, <2>6
<1>3. ASSUME NEW s \in TEXT, NEW t \in TEXT, s # t PROVE ShownBefore(s, t) \/ ShownBefore(t, s)
    <2>. DEFINE D == {k \in 1..Len(s) : k > Len(t) \/ s[k] # t[k]}
    <2>1. Len(s) \in Nat /\ Len(t) \in Nat
        BY CodesAre
    <2>2. CASE D = {}
        <3>1. \A k \in 1..Len(s) : k <= Len(t) /\ s[k] = t[k]
            BY <2>1, <2>2
        <3>2. Len(s) < Len(t)
            <4>1. Len(s) <= Len(t)
                BY <2>1, <3>1
            <4>2. Len(s) # Len(t)
                BY <1>3, <3>1, SeqEqual DEF TEXT
            <4>. QED
                BY <2>1, <4>1, <4>2
        <3>3. Len(s) \in 0..Len(s)
            BY <2>1
        <3>4. Parts(s, t, Len(s))
            BY <2>1, <3>1, <3>2, <3>3 DEF Parts
        <3>. QED
            BY <3>3, <3>4, BeforeParts
    <2>3. CASE D # {}
        <3>. DEFINE d == Min(D)
        <3>1. d \in D /\ \A j \in D : d <= j
            <4>1. D \in SUBSET Nat
                BY <2>1
            <4>. HIDE DEF D
            <4>. QED
                BY <2>3, <4>1, LeastPlace
        <3>. HIDE DEF d
        <3>2. d \in 1..Len(s) /\ (d > Len(t) \/ s[d] # t[d])
            BY <3>1
        <3>3. ASSUME NEW k \in 1..(d - 1) PROVE k <= Len(t) /\ s[k] = t[k]
            <4>1. k \in 1..Len(s) /\ ~(d <= k)
                BY <2>1, <3>2
            <4>2. k \notin D
                BY <3>1, <4>1
            <4>. QED
                BY <2>1, <4>1, <4>2
        <3>4. d - 1 \in 0..Len(s) /\ d - 1 <= Len(t) /\ d - 1 + 1 = d /\ d - 1 < Len(s)
            BY <2>1, <3>2, <3>3
        <3>5. CASE d > Len(t)
            <4>1. d - 1 = Len(t) /\ Len(t) \in 0..Len(t)
                BY <2>1, <3>2, <3>4, <3>5
            <4>2. Parts(t, s, Len(t))
                BY <2>1, <3>3, <3>4, <4>1 DEF Parts
            <4>. QED
                BY <4>1, <4>2, BeforeParts
        <3>6. CASE ~(d > Len(t))
            <4>1. d \in 1..Len(t) /\ s[d] # t[d]
                BY <2>1, <3>2, <3>6
            <4>2. s[d] \in Pieces /\ t[d] \in Pieces /\ Code[s[d]] \in Nat /\ Code[t[d]] \in Nat
                BY <3>2, <4>1, CodesAre
            <4>3. Code[s[d]] # Code[t[d]]
                BY <4>1, <4>2, TextAssumption
            <4>4. d - 1 \in 0..Len(t) /\ d - 1 < Len(t)
                BY <2>1, <3>4, <4>1
            <4>5. CASE Code[s[d]] < Code[t[d]]
                <5>1. Parts(s, t, d - 1)
                    BY <3>3, <3>4, <4>4, <4>5 DEF Parts
                <5>. QED
                    BY <3>4, <5>1, BeforeParts
            <4>6. CASE Code[t[d]] < Code[s[d]]
                <5>1. Parts(t, s, d - 1)
                    BY <3>3, <3>4, <4>4, <4>6 DEF Parts
                <5>. QED
                    BY <4>4, <5>1, BeforeParts
            <4>. QED
                BY <4>2, <4>3, <4>5, <4>6
        <3>. QED
            BY <3>5, <3>6
    <2>. QED
        BY <2>2, <2>3
<1>. QED
    BY <1>1, <1>2, <1>3

\* Items are ordered by weight, and those of a weight by what is shown.
SameKey(a, b) == a.weight = b.weight /\ a.show = b.show

LEMMA ItemsOrdered ==
    /\ \A a \in ITEM : ~compare_items(a, a)
    /\ \A a, b, c \in ITEM : compare_items(a, b) /\ compare_items(b, c) => compare_items(a, c)
    /\ \A a, b \in ITEM : SameKey(a, b) \/ compare_items(a, b) \/ compare_items(b, a)
    /\ \A a, b, c \in ITEM : SameKey(a, b) => /\ compare_items(a, c) = compare_items(b, c)
                                              /\ compare_items(c, a) = compare_items(c, b)
PROOF
<1>1. \A a \in ITEM : a.weight \in Int /\ a.show \in TEXT
    BY DEF ITEM
<1>2. \A a \in ITEM : ~compare_items(a, a)
    BY <1>1, TextsOrdered DEF compare_items
<1>3. ASSUME NEW a \in ITEM, NEW b \in ITEM, NEW c \in ITEM, compare_items(a, b), compare_items(b, c)
      PROVE  compare_items(a, c)
    <2>1. a.weight \in Int /\ b.weight \in Int /\ c.weight \in Int
          /\ a.show \in TEXT /\ b.show \in TEXT /\ c.show \in TEXT
        BY <1>1
    <2>2. CASE a.weight = b.weight /\ b.weight = c.weight
        <3>1. ShownBefore(a.show, b.show) /\ ShownBefore(b.show, c.show)
            BY <1>3, <2>1, <2>2 DEF compare_items
        <3>2. ShownBefore(a.show, c.show)
            BY <2>1, <3>1, TextsOrdered
        <3>. QED
            BY <2>2, <3>2 DEF compare_items
    <2>3. CASE ~(a.weight = b.weight /\ b.weight = c.weight)
        <3>1. a.weight < c.weight
            BY <1>3, <2>1, <2>3 DEF compare_items
        <3>. QED
            BY <3>1 DEF compare_items
    <2>. QED
        BY <2>2, <2>3
<1>4. ASSUME NEW a \in ITEM, NEW b \in ITEM
      PROVE  SameKey(a, b) \/ compare_items(a, b) \/ compare_items(b, a)
    <2>1. a.weight \in Int /\ b.weight \in Int /\ a.show \in TEXT /\ b.show \in TEXT
        BY <1>1
    <2>2. a.show = b.show \/ ShownBefore(a.show, b.show) \/ ShownBefore(b.show, a.show)
        BY <2>1, TextsOrdered
    <2>3. a.weight = b.weight \/ a.weight < b.weight \/ b.weight < a.weight
        BY <2>1
    <2>. QED
        BY <2>2, <2>3 DEF compare_items, SameKey
<1>5. ASSUME NEW a \in ITEM, NEW b \in ITEM, NEW c \in ITEM, SameKey(a, b)
      PROVE  /\ compare_items(a, c) = compare_items(b, c)
             /\ compare_items(c, a) = compare_items(c, b)
    BY <1>5 DEF compare_items, SameKey
<1>. QED
    BY <1>2, <1>3, <1>4, <1>5

\* With its ties broken by the places, it is an order of the places.
LEMMA PlacesOrdered ==
    ASSUME NEW list \in Seq(ITEM), NEW up \in BOOLEAN
    PROVE  /\ \A i \in DOMAIN list : ~GoesBefore(list, up, i, i)
           /\ \A i, j, k \in DOMAIN list :
                 GoesBefore(list, up, i, j) /\ GoesBefore(list, up, j, k) => GoesBefore(list, up, i, k)
           /\ \A i, j \in DOMAIN list : i # j => GoesBefore(list, up, i, j) \/ GoesBefore(list, up, j, i)
           /\ \A i, j \in DOMAIN list : GoesBefore(list, up, i, j) => ~compare_items(list[j], list[i])
PROOF
<1>0. \A i \in DOMAIN list : i \in Int /\ list[i] \in ITEM
    BY LenProperties, ElementOfSeq
<1>1. ASSUME NEW i \in DOMAIN list PROVE ~GoesBefore(list, up, i, i)
    <2>1. ~compare_items(list[i], list[i]) /\ ~(i < i) /\ ~(i > i)
        BY <1>0, ItemsOrdered
    <2>. QED
        BY <2>1 DEF GoesBefore
<1>2. ASSUME NEW i \in DOMAIN list, NEW j \in DOMAIN list, NEW k \in DOMAIN list,
             GoesBefore(list, up, i, j), GoesBefore(list, up, j, k)
      PROVE  GoesBefore(list, up, i, k)
    <2>1. i \in Int /\ j \in Int /\ k \in Int
          /\ list[i] \in ITEM /\ list[j] \in ITEM /\ list[k] \in ITEM
        BY <1>0
    <2>2. CASE compare_items(list[i], list[j]) /\ compare_items(list[j], list[k])
        BY <2>1, <2>2, ItemsOrdered DEF GoesBefore
    <2>3. CASE compare_items(list[i], list[j]) /\ ~compare_items(list[j], list[k])
        <3>1. SameKey(list[j], list[k])
            BY <1>2, <2>1, <2>3, ItemsOrdered DEF GoesBefore
        <3>2. compare_items(list[i], list[k])
            BY <2>1, <2>3, <3>1, ItemsOrdered
        <3>. QED
            BY <3>2 DEF GoesBefore
    <2>4. CASE ~compare_items(list[i], list[j]) /\ compare_items(list[j], list[k])
        <3>1. SameKey(list[i], list[j])
            BY <1>2, <2>1, <2>4, ItemsOrdered DEF GoesBefore
        <3>2. compare_items(list[i], list[k])
            BY <2>1, <2>4, <3>1, ItemsOrdered
        <3>. QED
            BY <3>2 DEF GoesBefore
    <2>5. CASE ~compare_items(list[i], list[j]) /\ ~compare_items(list[j], list[k])
        <3>1. SameKey(list[i], list[j]) /\ SameKey(list[j], list[k])
            BY <1>2, <2>1, <2>5, ItemsOrdered DEF GoesBefore
        <3>2. ~compare_items(list[k], list[i])
            BY <2>1, <3>1, ItemsOrdered DEF SameKey
        <3>3. IF up THEN i < j /\ j < k ELSE i > j /\ j > k
            BY <1>2, <2>5 DEF GoesBefore
        <3>4. IF up THEN i < k ELSE i > k
            BY <2>1, <3>3
        <3>. QED
            BY <3>2, <3>4 DEF GoesBefore
    <2>. QED
        BY <2>2, <2>3, <2>4, <2>5
<1>3. ASSUME NEW i \in DOMAIN list, NEW j \in DOMAIN list, i # j
      PROVE  GoesBefore(list, up, i, j) \/ GoesBefore(list, up, j, i)
    <2>1. i < j \/ j < i
        BY <1>0, <1>3
    <2>2. i \in Int /\ j \in Int
        BY <1>0
    <2>. QED
        BY <2>1, <2>2 DEF GoesBefore
<1>4. ASSUME NEW i \in DOMAIN list, NEW j \in DOMAIN list, GoesBefore(list, up, i, j)
      PROVE  ~compare_items(list[j], list[i])
    <2>1. list[i] \in ITEM /\ list[j] \in ITEM
        BY <1>0
    <2>2. CASE compare_items(list[i], list[j])
        <3>1. SUFFICES ASSUME compare_items(list[j], list[i]) PROVE FALSE
            OBVIOUS
        <3>2. compare_items(list[i], list[i])
            BY <2>1, <2>2, <3>1, ItemsOrdered
        <3>. QED
            BY <2>1, <3>2, ItemsOrdered
    <2>. QED
        BY <1>4, <2>2 DEF GoesBefore
<1>. QED
    BY <1>1, <1>2, <1>3, <1>4

\* The sorted list has each place of the list once, and is in order.
Reorders(p, list) ==
    /\ p \in [DOMAIN list -> DOMAIN list]
    /\ \A m, n \in DOMAIN list : p[m] = p[n] => m = n
    /\ \A i \in DOMAIN list : \E n \in DOMAIN list : p[n] = i
InOrder(list) == \A i, j \in DOMAIN list : i < j => ~compare_items(list[j], list[i])

LEMMA SortedIs ==
    ASSUME NEW list \in Seq(ITEM), NEW up \in BOOLEAN
    PROVE  /\ \E p : Reorders(p, list) /\ Sorted(list, up) = [n \in DOMAIN list |-> list[p[n]]]
           /\ Sorted(list, up) \in Seq(ITEM) /\ DOMAIN Sorted(list, up) = DOMAIN list
           /\ InOrder(Sorted(list, up))
PROOF
<1>. DEFINE D == DOMAIN list
            place(i) == Place(list, up, i)
            Lower(i) == {j \in D : GoesBefore(list, up, j, i)}
            f == [i \in D |-> place(i)]
            p == [n \in D |-> CHOOSE i \in D : place(i) = n]
<1>1. D = 1..Len(list) /\ Len(list) \in Nat
    BY LenProperties
<1>2. IsFiniteSet(D) /\ Cardinality(D) = Len(list)
    <2>1. IsFiniteSet(1..Len(list)) /\ Cardinality(1..Len(list)) = Len(list)
        BY <1>1, Numbers
    <2>. QED
        BY <1>1, <2>1
<1>3. \A i \in D : place(i) = 1 + Cardinality(Lower(i))
    BY DEF Place
<1>4. ASSUME NEW i \in D PROVE place(i) \in 1..Len(list) /\ IsFiniteSet(Lower(i)) /\ Cardinality(Lower(i)) \in Nat
    <2>1. Lower(i) \in SUBSET D /\ i \notin Lower(i)
        BY PlacesOrdered
    <2>. HIDE DEF Lower, D
    <2>2. IsFiniteSet(Lower(i)) /\ Cardinality(Lower(i)) \in Nat /\ Cardinality(Lower(i)) < Cardinality(D)
        BY <1>2, <2>1, SmallerPart
    <2>. QED
        BY <1>1, <1>2, <1>3, <2>2
<1>5. ASSUME NEW i \in D, NEW j \in D, GoesBefore(list, up, i, j) PROVE place(i) < place(j)
    <2>1. Lower(i) \in SUBSET Lower(j) /\ i \in Lower(j) /\ i \notin Lower(i)
        BY <1>5, PlacesOrdered
    <2>. HIDE DEF Lower, D
    <2>2. IsFiniteSet(Lower(j))
        BY <1>4
    <2>3. Cardinality(Lower(i)) \in Nat /\ Cardinality(Lower(j)) \in Nat
          /\ Cardinality(Lower(i)) < Cardinality(Lower(j))
        BY <2>1, <2>2, SmallerPart
    <2>. QED
        BY <1>3, <2>3
<1>6. \A i, j \in D : place(i) = place(j) => i = j
    <2>1. ASSUME NEW i \in D, NEW j \in D, i # j PROVE place(i) # place(j)
        <3>1. GoesBefore(list, up, i, j) \/ GoesBefore(list, up, j, i)
            BY <2>1, PlacesOrdered
        <3>2. place(i) < place(j) \/ place(j) < place(i)
            BY <1>5, <3>1
        <3>3. place(i) \in Int /\ place(j) \in Int
            <4>1. place(i) \in 1..Len(list) /\ place(j) \in 1..Len(list)
                BY <1>4
            <4>. HIDE DEF place
            <4>. QED
                BY <1>1, <4>1
        <3>. QED
            BY <3>2, <3>3
    <2>. QED
        BY <2>1
<1>7. f \in [D -> 1..Len(list)] /\ \A i, j \in D : f[i] = f[j] => i = j
    BY <1>4, <1>6
<1>8. \A n \in D : \E i \in D : place(i) = n
    <2>1. \A i \in D : f[i] = place(i)
        OBVIOUS
    <2>. HIDE DEF f, place, D
    <2>2. ASSUME NEW n \in D PROVE \E i \in D : f[i] = n
        <3>1. n \in 1..Len(list)
            BY <1>1
        <3>2. f \in [D -> 1..Len(list)]
            BY <1>7
        <3>3. \A i, j \in D : f[i] = f[j] => i = j
            BY <1>7
        <3>4. PICK c \in Nat : c = Len(list)
            BY <1>1
        <3>5. f \in [D -> 1..c] /\ n \in 1..c /\ Cardinality(D) = c /\ IsFiniteSet(D)
            BY <1>2, <3>1, <3>2, <3>4
        <3>6. IsFiniteSet(1..c) /\ Cardinality(1..c) = c
            BY Numbers
        <3>7. f \in Injection(D, 1..c)
            BY <3>3, <3>5 DEF Injection, IsInjective
        <3>8. f \in Surjection(D, 1..c)
            BY <3>5, <3>6, <3>7, FS_Injection
        <3>. QED
            BY <3>5, <3>8 DEF Surjection
    <2>. QED
        BY <2>1, <2>2
<1>9. p \in [D -> D] /\ \A n \in D : place(p[n]) = n
    <2>. HIDE DEF place, D
    <2>. QED
        BY <1>8
<1>10. \A n \in D : p[n] \in D
    <2>. HIDE DEF p, D
    <2>. QED
        BY <1>9
<1>. HIDE DEF p
<1>11. Reorders(p, list)
    <2>1. \A m, n \in D : p[m] = p[n] => m = n
        <3>. HIDE DEF place, D
        <3>. QED
            BY <1>9
    <2>2. ASSUME NEW i \in D PROVE \E n \in D : p[n] = i
        <3>1. place(i) \in D
            BY <1>1, <1>4
        <3>2. p[place(i)] \in D /\ place(p[place(i)]) = place(i)
            <4>. HIDE DEF place, D
            <4>. QED
                BY <1>9, <1>10, <3>1
        <3>3. p[place(i)] = i
            <4>. HIDE DEF place, D
            <4>. QED
                BY <1>6, <3>2
        <3>. QED
            BY <3>1, <3>3
    <2>. QED
        BY <1>9, <2>1, <2>2 DEF Reorders
<1>12. Sorted(list, up) = [n \in D |-> list[p[n]]]
    BY DEF Sorted, p
<1>13. Sorted(list, up) \in Seq(ITEM) /\ DOMAIN Sorted(list, up) = D
    <2>. DEFINE s == [n \in 1..Len(list) |-> list[p[n]]]
    <2>1. \A n \in 1..Len(list) : list[p[n]] \in ITEM
        BY <1>1, <1>10, ElementOfSeq
    <2>2. s \in [1..Len(list) -> ITEM]
        BY <2>1
    <2>3. s = Sorted(list, up)
        BY <1>1, <1>12
    <2>. HIDE DEF s
    <2>4. s \in Seq(ITEM)
        BY <1>1, <2>2, SeqDef
    <2>. QED
        BY <1>1, <2>2, <2>3, <2>4
<1>14. InOrder(Sorted(list, up))
    <2>1. ASSUME NEW m \in D, NEW n \in D, m < n PROVE ~compare_items(list[p[n]], list[p[m]])
        <3>1. p[m] \in D /\ p[n] \in D /\ place(p[m]) = m /\ place(p[n]) = n
            BY <1>9, <1>10
        <3>2. p[m] # p[n] /\ m \in Int /\ n \in Int
            <4>. HIDE DEF place
            <4>. QED
                BY <1>1, <2>1, <3>1
        <3>3. ~GoesBefore(list, up, p[n], p[m])
            <4>1. SUFFICES ASSUME GoesBefore(list, up, p[n], p[m]) PROVE FALSE
                OBVIOUS
            <4>2. place(p[n]) < place(p[m])
                BY <1>5, <3>1, <4>1
            <4>. HIDE DEF place
            <4>. QED
                BY <2>1, <3>1, <3>2, <4>2
        <3>4. GoesBefore(list, up, p[m], p[n])
            BY <3>1, <3>2, <3>3, PlacesOrdered
        <3>. QED
            BY <3>1, <3>4, PlacesOrdered
    <2>2. \A n \in D : Sorted(list, up)[n] = list[p[n]]
        BY <1>12
    <2>. QED
        BY <1>13, <2>1, <2>2 DEF InOrder
<1>. QED
    BY <1>11, <1>12, <1>13, <1>14

-----------------------------------------------------------------------------
(* Icons and rows.                                                         *)
\* The file a command names is nowhere a launch would look for it.
Nowhere(cmd) ==
    /\ ~PathFileExists(cmd)
    /\ \A d \in Range(PATH) :
           LET there == d \o <<Slash>> \o cmd
           IN  /\ ~PathFileExists(there)
               /\ Ext(cmd) \notin Dotted =>
                      \A e \in Range(PATHEXT) : ~PathFileExists(there \o <<e>>)

\* What exists has a name.
LEMMA NamedIs ==
    ~PathFileExists(<<>>)
PROOF
<1>1. ~PathIsDirectory(<<>>)
    BY TreeAssumption DEF PathIsDirectory
<1>2. LastSlash(<<>>) = 0
    <2>1. <<>> \in TEXT /\ Len(<<>>) = 0
        BY EmptySeq DEF TEXT
    <2>2. LastSlash(<<>>) \in 0..0
        BY <2>1, LastSlashIs DEF TEXT
    <2>. QED
        BY <2>2
<1>3. Dir(<<>>) = <<>>
    BY <1>2 DEF Dir
<1>. QED
    BY <1>1, <1>3 DEF PathFileExists

\* A path below a path.
LEMMA JoinedIs ==
    ASSUME NEW d \in TEXT, NEW t \in TEXT
    PROVE  /\ d \o <<Slash>> \in TEXT /\ d \o <<Slash>> \o t \in TEXT
           /\ d \o <<Slash>> \o t \o <<>> = d \o <<Slash>> \o t
           /\ \A e \in Pieces : d \o <<Slash>> \o t \o <<e>> \in TEXT
PROOF
<1>1. <<Slash>> \in TEXT /\ \A e \in Pieces : <<e>> \in TEXT
    <2>1. Slash \in Pieces
        BY TextAssumption
    <2>. QED
        BY <2>1 DEF TEXT
<1>2. \A u, v \in TEXT : u \o v \in TEXT
    BY ConcatProperties DEF TEXT
<1>3. \A u \in TEXT : u \o <<>> = u
    BY ConcatEmptySeq DEF TEXT
<1>. QED
    BY <1>1, <1>2, <1>3

\* The first of some pairs of numbers.
LEMMA FirstPair ==
    ASSUME NEW P \in SUBSET (Nat \X Nat), P # {}
    PROVE  \E k \in P : \A l \in P : ~(l[1] < k[1] \/ (l[1] = k[1] /\ l[2] < k[2]))
PROOF
<1>. DEFINE I == {k[1] : k \in P}
            J == {k[2] : k \in {l \in P : l[1] = Min(I)}}
<1>1. I \in SUBSET Nat /\ I # {}
    OBVIOUS
<1>2. Min(I) \in I /\ \A j \in I : Min(I) <= j
    <2>. HIDE DEF I
    <2>. QED
        BY <1>1, LeastPlace
<1>3. J \in SUBSET Nat /\ J # {}
    BY <1>2
<1>4. Min(J) \in J /\ \A j \in J : Min(J) <= j
    <2>. HIDE DEF J
    <2>. QED
        BY <1>3, LeastPlace
<1>5. PICK k \in P : k[1] = Min(I) /\ k[2] = Min(J)
    BY <1>4
<1>6. ASSUME NEW l \in P PROVE ~(l[1] < k[1]) /\ (l[1] = k[1] => ~(l[2] < k[2]))
    <2>1. l[1] \in I /\ (l[1] = k[1] => l[2] \in J)
        BY <1>5
    <2>2. l[1] \in Nat /\ l[2] \in Nat /\ k[1] \in Nat /\ k[2] \in Nat
        OBVIOUS
    <2>. HIDE DEF I, J
    <2>. QED
        BY <1>2, <1>4, <1>5, <2>1, <2>2
<1>. QED
    BY <1>6

\* The file found is there when there is one.
LEMMA ResolvedIs ==
    ASSUME NEW cmd \in TEXT
    PROVE  /\ resolve_command_name(cmd) \in TEXT
           /\ PathFileExists(resolve_command_name(cmd)) \/ Nowhere(cmd)
PROOF
<1>. DEFINE exts == IF Ext(cmd) \in Dotted THEN <<>> ELSE PATHEXT
            Try(k) == PATH[k[1]] \o <<Slash>> \o cmd \o (IF k[2] = 0 THEN <<>> ELSE <<exts[k[2]]>>)
            K == (DOMAIN PATH) \X (0..Len(exts))
            found == {k \in K : PathFileExists(Try(k))}
            Earlier(k, l) == k[1] < l[1] \/ (k[1] = l[1] /\ k[2] < l[2])
            first == CHOOSE k \in found : \A l \in found : ~Earlier(l, k)
<1>1. PATH \in Seq(TEXT) /\ PATHEXT \in Seq(Pieces) /\ exts \in Seq(Pieces)
    BY TextAssumption, EmptySeq
<1>2. resolve_command_name(cmd) =
         IF PathFileExists(cmd) \/ PATH = <<>> THEN cmd
         ELSE IF found = {} THEN Try(<<Len(PATH), Len(exts)>>) ELSE Try(first)
    BY DEF resolve_command_name
<1>3. /\ DOMAIN PATH = 1..Len(PATH) /\ Len(PATH) \in Nat /\ Len(exts) \in Nat
      /\ \A i \in 1..Len(PATH) : PATH[i] \in TEXT
      /\ \A i \in 1..Len(exts) : exts[i] \in Pieces
    <2>. HIDE DEF exts
    <2>. QED
        BY <1>1, LenProperties, ElementOfSeq
<1>. HIDE DEF exts
<1>4. ASSUME NEW k \in K PROVE Try(k) \in TEXT
    <2>1. k[1] \in 1..Len(PATH) /\ k[2] \in 0..Len(exts)
        BY <1>3
    <2>2. PATH[k[1]] \in TEXT
        BY <1>3, <2>1
    <2>3. CASE k[2] = 0
        <3>1. Try(k) = PATH[k[1]] \o <<Slash>> \o cmd \o <<>>
            BY <2>3
        <3>. QED
            BY <2>2, <3>1, JoinedIs
    <2>4. CASE k[2] # 0
        <3>1. Try(k) = PATH[k[1]] \o <<Slash>> \o cmd \o <<exts[k[2]]>>
            BY <2>4
        <3>2. exts[k[2]] \in Pieces
            BY <1>3, <2>1, <2>4
        <3>. QED
            BY <2>2, <3>1, <3>2, JoinedIs
    <2>. QED
        BY <2>3, <2>4
<1>5. found # {} => first \in found
    <2>1. found \in SUBSET (Nat \X Nat)
        BY <1>3
    <2>. HIDE DEF found
    <2>. QED
        BY <2>1, FirstPair
<1>6. resolve_command_name(cmd) \in TEXT
    <2>1. CASE PathFileExists(cmd) \/ PATH = <<>>
        BY <1>2, <2>1, Zenon
    <2>2. CASE ~(PathFileExists(cmd) \/ PATH = <<>>) /\ found = {}
        <3>1. Len(PATH) > 0
            BY <1>1, <1>3, <2>2, EmptySeq
        <3>2. <<Len(PATH), Len(exts)>> \in K
            BY <1>3, <3>1
        <3>. HIDE DEF Try, K, found
        <3>. QED
            BY <1>2, <1>4, <2>2, <3>2
    <2>3. CASE ~(PathFileExists(cmd) \/ PATH = <<>>) /\ found # {}
        <3>1. first \in K
            <4>. HIDE DEF first, Try, K
            <4>. QED
                BY <1>5, <2>3
        <3>. HIDE DEF Try, K, found, first
        <3>. QED
            BY <1>2, <1>4, <2>3, <3>1
    <2>. QED
        BY <2>1, <2>2, <2>3, Zenon
<1>7. ASSUME ~PathFileExists(resolve_command_name(cmd)) PROVE Nowhere(cmd)
    <2>1. ~PathFileExists(cmd)
        BY <1>2, <1>7, Zenon
    <2>2. PATH # <<>> => found = {}
        <3>1. SUFFICES ASSUME PATH # <<>>, found # {} PROVE FALSE
            OBVIOUS
        <3>2. resolve_command_name(cmd) = Try(first)
            <4>. HIDE DEF Try, found, first
            <4>. QED
                BY <1>2, <2>1, <3>1
        <3>3. first \in found
            BY <1>5, <3>1
        <3>4. PathFileExists(Try(first))
            <4>. HIDE DEF Try, first
            <4>. QED
                BY <3>3
        <3>. HIDE DEF Try, first, found
        <3>. QED
            BY <1>7, <3>2, <3>4
    <2>3. ASSUME NEW d \in Range(PATH)
          PROVE  LET there == d \o <<Slash>> \o cmd
                 IN  /\ ~PathFileExists(there)
                     /\ Ext(cmd) \notin Dotted =>
                            \A e \in Range(PATHEXT) : ~PathFileExists(there \o <<e>>)
        <3>1. PICK i \in DOMAIN PATH : PATH[i] = d
            BY DEF Range
        <3>2. PATH # <<>> /\ d \in TEXT /\ i \in 1..Len(PATH)
            BY <1>3, <3>1, EmptySeq
        <3>3. \A k \in K : ~PathFileExists(Try(k))
            BY <2>2, <3>2
        <3>4. ~PathFileExists(d \o <<Slash>> \o cmd)
            <4>1. <<i, 0>> \in K
                BY <1>3
            <4>2. Try(<<i, 0>>) = PATH[i] \o <<Slash>> \o cmd \o <<>>
                OBVIOUS
            <4>3. ~PathFileExists(PATH[i] \o <<Slash>> \o cmd \o <<>>)
                <5>. HIDE DEF Try, K
                <5>. QED
                    BY <3>3, <4>1, <4>2
            <4>. QED
                BY <3>1, <3>2, <4>3, JoinedIs
        <3>5. ASSUME Ext(cmd) \notin Dotted, NEW e \in Range(PATHEXT)
              PROVE  ~PathFileExists(d \o <<Slash>> \o cmd \o <<e>>)
            <4>1. exts = PATHEXT
                BY <3>5 DEF exts
            <4>2. PICK j \in DOMAIN PATHEXT : PATHEXT[j] = e
                BY DEF Range
            <4>3. j \in 1..Len(exts)
                BY <1>1, <4>1, LenProperties
            <4>4. <<i, j>> \in K /\ j # 0
                BY <1>3, <4>3
            <4>5. Try(<<i, j>>) = PATH[i] \o <<Slash>> \o cmd \o <<exts[j]>>
                BY <4>4
            <4>6. ~PathFileExists(PATH[i] \o <<Slash>> \o cmd \o <<exts[j]>>)
                <5>. HIDE DEF Try, K
                <5>. QED
                    BY <3>3, <4>4, <4>5
            <4>. QED
                BY <3>1, <4>1, <4>2, <4>6
        <3>. QED
            BY <3>4, <3>5
    <2>. QED
        BY <2>1, <2>3, Zenon DEF Nowhere
<1>. QED
    BY <1>6, <1>7

\* Taking an icon away leaves the rest.
Bare(item) == [item EXCEPT !.icon = <<>>]
BareList(list) == [i \in DOMAIN list |-> Bare(list[i])]

\* What is painted shows the list with its selected item.
Framed(items, shown, sel) ==
    LET rows == shown.rows IN
    /\ shown.frame \in DOMAIN rows /\ rows[shown.frame] = items[sel + 1]
    /\ Len(rows) = IF Len(items) < SHOW_ITEMS THEN Len(items) ELSE SHOW_ITEMS
    /\ \A i \in DOMAIN rows : rows[i].icon = <<>> => Nowhere(rows[i].cmd)

\* The selected row is among those in view, and these are as many as there can be.
LEMMA InViewIs ==
    ASSUME NEW n \in Nat, NEW sel \in Nat, sel < n
    PROVE  LET first == first_offset(n, sel)
               last == IF first + SHOW_ITEMS < n THEN first + SHOW_ITEMS ELSE n
           IN  /\ first \in 0..(n - 1) /\ last \in 1..n /\ last <= first + SHOW_ITEMS
               /\ last - first = IF n < SHOW_ITEMS THEN n ELSE SHOW_ITEMS
               /\ first <= sel /\ sel < last
PROOF
<1>1. PICK h \in Nat \ {0} : SHOW_ITEMS = 2 * h /\ SHOW_ITEMS \div 2 = h
    BY BoundsAssumption
<1>2. first_offset(n, sel) =
         LET first == IF sel < h THEN 0 ELSE IF sel > n - h THEN n - 2 * h ELSE sel - h
         IN  IF first < 0 THEN 0 ELSE first
    BY <1>1 DEF first_offset
<1>. QED
    BY <1>1, <1>2

LEMMA RowsAre ==
    ASSUME NEW list \in Seq(ITEM), NEW sel \in Nat
    PROVE  /\ Rows(list, sel).items \in Seq(ITEM)
           /\ Len(Rows(list, sel).items) = Len(list)
           /\ BareList(Rows(list, sel).items) = BareList(list)
           /\ sel < Len(list) => Framed(Rows(list, sel).items, Rows(list, sel).shown, sel)
PROOF
<1>. DEFINE n == Len(list)
            first == first_offset(n, sel)
            InView(i) == first < i /\ i <= first + SHOW_ITEMS
            Icon(item) ==
                LET name == resolve_command_name(item.cmd)
                IN  IF item.icon = <<>> /\ PathFileExists(name) THEN [item EXCEPT !.icon = name]
                    ELSE item
            items == [i \in DOMAIN list |-> IF InView(i) THEN Icon(list[i]) ELSE list[i]]
            last == IF first + SHOW_ITEMS < n THEN first + SHOW_ITEMS ELSE n
            rows == SubSeq(items, first + 1, last)
<1>1. Rows(list, sel) = [items |-> items, shown |-> [rows |-> rows, frame |-> sel - first + 1]]
    BY DEF Rows
<1>2. n \in Nat /\ DOMAIN list = 1..n /\ \A i \in 1..n : list[i] \in ITEM
    BY LenProperties, ElementOfSeq
<1>3. ASSUME NEW item \in ITEM
      PROVE  /\ Icon(item) \in ITEM /\ Bare(Icon(item)) = Bare(item)
             /\ Icon(item).cmd = item.cmd
             /\ Icon(item).icon = <<>> => Nowhere(item.cmd)
    <2>1. item.cmd \in TEXT
        BY DEF ITEM
    <2>2. resolve_command_name(item.cmd) \in TEXT
          /\ (PathFileExists(resolve_command_name(item.cmd)) \/ Nowhere(item.cmd))
        BY <2>1, ResolvedIs
    <2>3. CASE item.icon = <<>> /\ PathFileExists(resolve_command_name(item.cmd))
        <3>1. Icon(item) = [item EXCEPT !.icon = resolve_command_name(item.cmd)]
            BY <2>3
        <3>2. resolve_command_name(item.cmd) # <<>>
            BY <2>3, NamedIs
        <3>3. item = [show |-> item.show, cmd |-> item.cmd, args |-> item.args,
                      weight |-> item.weight, mru |-> item.mru, icon |-> item.icon]
            BY DEF ITEM
        <3>. HIDE DEF Icon
        <3>4. PICK name \in TEXT : Icon(item) = [item EXCEPT !.icon = name] /\ name # <<>>
            BY <2>2, <3>1, <3>2
        <3>5. Icon(item) \in ITEM
            BY <3>4 DEF ITEM
        <3>6. Bare(Icon(item)) = Bare(item) /\ Icon(item).cmd = item.cmd /\ Icon(item).icon = name
            BY <3>3, <3>4 DEF Bare
        <3>. QED
            BY <3>4, <3>5, <3>6
    <2>4. CASE item.icon = <<>> /\ ~PathFileExists(resolve_command_name(item.cmd))
        BY <2>2, <2>4
    <2>5. CASE item.icon # <<>>
        BY <2>5
    <2>. QED
        BY <2>3, <2>4, <2>5
<1>. HIDE DEF Icon, InView
<1>4. /\ items \in [1..n -> ITEM] /\ DOMAIN items = 1..n
      /\ \A i \in 1..n : /\ items[i] = (IF InView(i) THEN Icon(list[i]) ELSE list[i])
                         /\ Bare(items[i]) = Bare(list[i])
    BY <1>2, <1>3
<1>5. items \in Seq(ITEM) /\ Len(items) = n
    <2>. HIDE DEF items, n
    <2>1. items \in Seq(ITEM)
        BY <1>2, <1>4, SeqDef
    <2>. QED
        BY <1>2, <1>4, <2>1, LenProperties
<1>. HIDE DEF items
<1>6. BareList(items) = BareList(list)
    <2>. HIDE DEF n
    <2>. QED
        BY <1>2, <1>4 DEF BareList
<1>7. ASSUME sel < n PROVE Framed(items, [rows |-> rows, frame |-> sel - first + 1], sel)
    <2>1. /\ first \in 0..(n - 1) /\ last \in 1..n /\ last <= first + SHOW_ITEMS
          /\ last - first = (IF n < SHOW_ITEMS THEN n ELSE SHOW_ITEMS)
          /\ first <= sel /\ sel < last
        <3>. HIDE DEF n
        <3>. QED
            BY <1>2, <1>7, InViewIs
    <2>2. SHOW_ITEMS \in Nat
        BY BoundsAssumption
    <2>. HIDE DEF n, first, last
    <2>3. first + 1 \in 1..(Len(items) + 1) /\ last \in 0..Len(items) /\ first + 1 <= last
        BY <1>2, <1>5, <2>1
    <2>4. /\ Len(rows) = (IF first + 1 <= last THEN last - (first + 1) + 1 ELSE 0)
          /\ rows \in Seq(ITEM)
          /\ \A i \in 1..(last - (first + 1) + 1) : rows[i] = items[first + 1 + i - 1]
        <3>. HIDE DEF rows
        <3>. QED
            BY <1>5, <2>3, PartIs DEF rows
    <2>. HIDE DEF rows
    <2>5. DOMAIN rows = 1..(last - first) /\ Len(rows) = last - first
          /\ \A i \in 1..(last - first) : rows[i] = items[first + i]
        <3>1. Len(rows) = last - first
            BY <1>2, <2>1, <2>3, <2>4
        <3>2. DOMAIN rows = 1..Len(rows)
            BY <2>4, LenProperties
        <3>3. last - (first + 1) + 1 = last - first
              /\ \A i \in 1..(last - first) : first + 1 + i - 1 = first + i
            BY <1>2, <2>1
        <3>. QED
            BY <2>4, <3>1, <3>2, <3>3
    <2>6. sel - first + 1 \in 1..(last - first) /\ first + (sel - first + 1) = sel + 1
        BY <1>2, <2>1
    <2>7. ASSUME NEW i \in 1..(last - first), rows[i].icon = <<>> PROVE Nowhere(rows[i].cmd)
        <3>1. first + i \in 1..n /\ first < first + i /\ first + i <= first + SHOW_ITEMS
            BY <1>2, <2>1, <2>2
        <3>2. rows[i] = Icon(list[first + i])
            BY <1>4, <2>5, <3>1 DEF InView
        <3>3. list[first + i] \in ITEM
            BY <1>2, <3>1
        <3>. QED
            BY <1>3, <2>7, <3>2, <3>3
    <2>8. Len(rows) = IF Len(items) < SHOW_ITEMS THEN Len(items) ELSE SHOW_ITEMS
        BY <1>5, <2>1, <2>5
    <2>. QED
        BY <2>5, <2>6, <2>7, <2>8 DEF Framed
<1>. QED
    BY <1>1, <1>5, <1>6, <1>7

-----------------------------------------------------------------------------
(* What a search goes through.                                             *)
\* A list made of a list, element by element.
LEMMA MadeOf ==
    ASSUME NEW S, NEW s \in Seq(S), NEW T, NEW g,
           g = [i \in DOMAIN s |-> g[i]], \A i \in DOMAIN s : g[i] \in T
    PROVE  g \in Seq(T) /\ Len(g) = Len(s)
PROOF
<1>1. DOMAIN s = 1..Len(s) /\ Len(s) \in Nat
    BY LenProperties
<1>2. g \in [1..Len(s) -> T]
    BY <1>1
<1>3. g \in Seq(T)
    BY <1>1, <1>2, SeqDef
<1>. QED
    BY <1>1, <1>2, <1>3, LenProperties

\* An item that comes from nowhere but a path.
LEMMA PlainItems ==
    /\ \A show \in TEXT, path \in TEXT, icon \in TEXT : Item(show, Plain(path), 0, FALSE, icon) \in ITEM
    /\ \A show \in TEXT, cmd \in TEXT, arg \in TEXT, icon \in TEXT :
           Item(show, [cmd |-> cmd, args |-> <<arg>>], 0, FALSE, icon) \in ITEM
  BY DEF Item, Plain, ITEM, ARGS

LEMMA IndexMatchesAre ==
    ASSUME NEW t, execs \in Seq(FILE)
    PROVE  IndexMatches(t) \in Seq(ITEM)
PROOF
<1>. DEFINE Found(e) == t # <<>> /\ (Within(t, Base(e.path)) \/ Within(t, e.shown))
            I == {i \in DOMAIN execs : Found(execs[i])}
            found == At(execs, I)
            g == [i \in DOMAIN found |-> Item(found[i].shown, Plain(found[i].path), 0, FALSE, <<>>)]
<1>1. IndexMatches(t) = g
    BY DEF IndexMatches
<1>2. found \in Seq(FILE)
    <2>1. I \in SUBSET DOMAIN execs
        OBVIOUS
    <2>. HIDE DEF I
    <2>. QED
        BY <2>1, AtIs
<1>. HIDE DEF found
<1>3. ASSUME NEW i \in DOMAIN found PROVE g[i] \in ITEM
    <2>1. found[i] \in FILE
        BY <1>2, LenProperties, ElementOfSeq
    <2>2. found[i].shown \in TEXT /\ found[i].path \in TEXT /\ <<>> \in TEXT
        BY <2>1, EmptySeq DEF FILE, TEXT
    <2>. QED
        BY <2>2, PlainItems
<1>4. g = [i \in DOMAIN found |-> g[i]]
    OBVIOUS
<1>. HIDE DEF g
<1>. QED
    BY <1>1, <1>2, <1>3, <1>4, MadeOf

LEMMA MruWeightIs ==
    ASSUME NEW letter
    PROVE  MruWeight(letter) \in Int
PROOF
<1>. DEFINE I == {i \in 1..Len(MRUList) : MRUList[i] = letter}
            m == SelectInSeq(MRUList, LAMBDA l : l = letter)
<1>1. m = IF I # {} THEN Min(I) ELSE 0
    BY DEF SelectInSeq
<1>2. Len(MRUList) \in Nat
    BY TextAssumption, LenProperties
<1>3. I \in SUBSET Nat
    BY <1>2
<1>. HIDE DEF I
<1>4. m \in Nat
    BY <1>1, <1>3, LeastPlace
<1>5. MruWeight(letter) = IF m = 0 THEN 0 ELSE -(50 - (m - 1))
    BY DEF MruWeight
<1>. HIDE DEF m
<1>. QED
    BY <1>4, <1>5

LEMMA MruMatchesAre ==
    ASSUME NEW t
    PROVE  MruMatches(t) \in Seq(ITEM)
PROOF
<1>. DEFINE LINE == [letter : Nat, line : TEXT]
            I == {i \in DOMAIN RunMru : Within(t, RunMru[i].line)}
            found == At(RunMru, I)
            g == [i \in DOMAIN found |->
                    Item(found[i].line, crack_args(found[i].line), MruWeight(found[i].letter),
                         TRUE, <<>>)]
<1>1. MruMatches(t) = g
    BY DEF MruMatches
<1>2. found \in Seq(LINE)
    <2>1. I \in SUBSET DOMAIN RunMru /\ RunMru \in Seq(LINE)
        BY TextAssumption
    <2>. HIDE DEF I, LINE
    <2>. QED
        BY <2>1, AtIs
<1>. HIDE DEF found
<1>3. ASSUME NEW i \in DOMAIN found PROVE g[i] \in ITEM
    <2>1. found[i] \in LINE
        <3>. HIDE DEF LINE
        <3>. QED
            BY <1>2, LenProperties, ElementOfSeq
    <2>2. found[i].line \in TEXT /\ <<>> \in TEXT
        BY <2>1, EmptySeq DEF TEXT
    <2>3. PICK line \in TEXT, weight \in Int :
              g[i] = Item(line, crack_args(line), weight, TRUE, <<>>)
        BY <2>2, MruWeightIs
    <2>4. PICK cmd \in TEXT, args \in ARGS : crack_args(line) = [cmd |-> cmd, args |-> args]
        BY CrackMeans
    <2>5. g[i] = [show |-> line, cmd |-> cmd, args |-> args, weight |-> weight,
                  mru |-> TRUE, icon |-> <<>>]
        BY <2>3, <2>4 DEF Item
    <2>. HIDE DEF g
    <2>. QED
        BY <2>2, <2>4, <2>5 DEF ITEM
<1>4. g = [i \in DOMAIN found |-> g[i]]
    OBVIOUS
<1>. HIDE DEF g, LINE
<1>. QED
    BY <1>1, <1>2, <1>3, <1>4, MadeOf

LEMMA SuggestionsAre ==
    ASSUME NEW t
    PROVE  filesystem_suggest(t) \in Seq(ITEM)
PROOF
<1>. DEFINE ENTRY == [name : TEXT, hidden : BOOLEAN]
            dir == Dir(t)
            Suggested(e) == ~e.hidden /\ IsPrefix(Base(t), e.name)
            I == {i \in DOMAIN Tree[dir] : Suggested(Tree[dir][i])}
            some == LastSlash(t) > 0 /\ PathIsDirectory(dir)
            found == IF some THEN At(Tree[dir], I) ELSE <<>>
            Suggest(full) == Item(full, IF PathIsDirectory(full)
                                        THEN [cmd |-> <<"explorer", ".exe">>, args |-> <<full>>]
                                        ELSE Plain(full), 0, FALSE, full)
            g == [i \in DOMAIN found |-> Suggest(dir \o <<Slash>> \o found[i].name)]
<1>1. filesystem_suggest(t) = g
    BY DEF filesystem_suggest
<1>2. found \in Seq(ENTRY) /\ (found # <<>> => dir \in TEXT)
    <2>1. CASE some
        <3>1. Tree[dir] \in Seq(ENTRY) /\ dir \in TEXT
            BY <2>1, TreeAssumption DEF PathIsDirectory
        <3>2. I \in SUBSET DOMAIN Tree[dir]
            OBVIOUS
        <3>3. PICK list \in Seq(ENTRY) : list = Tree[dir]
            BY <3>1
        <3>4. found = At(list, I) /\ I \in SUBSET DOMAIN list
            BY <2>1, <3>2, <3>3
        <3>. HIDE DEF I, ENTRY, found
        <3>. QED
            BY <3>1, <3>4, AtIs
    <2>2. CASE ~some
        BY <2>2, EmptySeq
    <2>. QED
        BY <2>1, <2>2
<1>. HIDE DEF found, dir
<1>3. ASSUME NEW full \in TEXT PROVE Suggest(full) \in ITEM
    <2>1. CASE PathIsDirectory(full)
        <3>1. <<"explorer", ".exe">> \in TEXT
            BY TextAssumption DEF TEXT
        <3>2. Suggest(full) = Item(full, [cmd |-> <<"explorer", ".exe">>, args |-> <<full>>],
                                   0, FALSE, full)
            BY <2>1
        <3>3. PICK cmd \in TEXT :
                  Suggest(full) = Item(full, [cmd |-> cmd, args |-> <<full>>], 0, FALSE, full)
            BY <3>1, <3>2
        <3>. HIDE DEF Suggest
        <3>. QED
            BY <3>3, PlainItems
    <2>2. CASE ~PathIsDirectory(full)
        BY <2>2, PlainItems
    <2>. QED
        BY <2>1, <2>2
<1>. HIDE DEF Suggest
<1>4. ASSUME NEW i \in DOMAIN found PROVE g[i] \in ITEM
    <2>1. found # <<>>
        OBVIOUS
    <2>2. found[i] \in ENTRY
        <3>. HIDE DEF ENTRY
        <3>. QED
            BY <1>2, LenProperties, ElementOfSeq
    <2>3. found[i].name \in TEXT /\ dir \in TEXT
        BY <1>2, <2>1, <2>2
    <2>4. dir \o <<Slash>> \o found[i].name \in TEXT
        BY <2>3, JoinedIs
    <2>. QED
        BY <1>3, <2>4
<1>5. g = [i \in DOMAIN found |-> g[i]]
    OBVIOUS
<1>. HIDE DEF g, ENTRY
<1>. QED
    BY <1>1, <1>2, <1>4, <1>5, MadeOf

LEMMA CandidatesAre ==
    ASSUME NEW t, execs \in Seq(FILE)
    PROVE  Candidates(t) \in Seq(ITEM)
PROOF
<1>1. IndexMatches(t) \in Seq(ITEM) /\ MruMatches(t) \in Seq(ITEM) /\ filesystem_suggest(t) \in Seq(ITEM)
    BY IndexMatchesAre, MruMatchesAre, SuggestionsAre
<1>. QED
    BY <1>1, ConcatProperties DEF Candidates

-----------------------------------------------------------------------------
(* The inductive invariant.                                                *)
MESSAGE == [rid : Nat, items : Seq(ITEM)]
SEARCH == [rid : Nat, todo : Seq(ITEM), found : Seq(ITEM)]

\* The list stands for the first k of the candidates, weighed with the text t.
Represents(list, C, k, t) ==
    /\ \A n \in 1..k : \E i \in DOMAIN list :
           Bare(list[i]) = Bare(calc_item_weight(C[n], t)) \/ SameProgram(list[i], C[n])
    /\ \A i \in DOMAIN list : \E n \in 1..k : Bare(list[i]) = Bare(calc_item_weight(C[n], t))
    /\ \A i, j \in DOMAIN list : i # j => ~SameProgram(list[i], list[j])
Complete(list, C, t) == Represents(list, C, Len(C), t) /\ InOrder(list)
Underway(s, C, t) ==
    \E k \in 0..Len(C) : s.todo = SubSeq(C, k + 1, Len(C)) /\ Represents(s.found, C, k, t)

HoldItems ==
    /\ execs \in Seq(FILE) /\ text \in TEXT
    /\ searches \in SUBSET SEARCH /\ messages \in Seq(MESSAGE) /\ curr_results \in Seq(ITEM)
    /\ open \in BOOLEAN /\ dirty \in BOOLEAN

Numbered ==
    /\ rid \in 0..MaxRid /\ last_rid \in 0..rid /\ (last_rid < rid \/ rid = 0)
    /\ \A s \in searches : s.rid < rid
    /\ \A i \in DOMAIN messages : messages[i].rid < rid

InList == selected \in Nat /\ (curr_results # <<>> => selected < Len(curr_results))

Destroyed == open \/ (messages = <<>> /\ curr_results = <<>> /\ ~dirty)

\* The newest search has weighed what it found with the text of the window; it goes
\* on, or its list is in a message, or in the window.
NewestSearched == \A s \in searches : s.rid + 1 = rid => Underway(s, Candidates(text), text)
NewestPosted ==
    \A i \in DOMAIN messages :
        messages[i].rid + 1 = rid => Complete(messages[i].items, Candidates(text), text)
NewestSomewhere ==
    open => \/ \E s \in searches : s.rid + 1 = rid
            \/ \E i \in DOMAIN messages : messages[i].rid + 1 = rid
            \/ last_rid + 1 = rid /\ Complete(curr_results, Candidates(text), text)

Shown == open /\ ~dirty /\ curr_results # <<>> => Framed(curr_results, painted, selected)

IInv ==
    /\ HoldItems /\ Numbered /\ InList /\ Destroyed
    /\ NewestSearched /\ NewestPosted /\ NewestSomewhere
    /\ Shown /\ RunsAsTyped

\* Two items that are one link are one program, and the other way round.
LEMMA LinkIs ==
    ASSUME NEW a, NEW b
    PROVE  /\ is_same_link(a, b) <=> SameProgram(a, b)
           /\ SameProgram(a, b) <=> SameProgram(b, a)
PROOF
<1>. DEFINE Leads == {<<c, Target[c]>> : c \in DOMAIN Target}
<1>1. ASSUME NEW file, <<a.cmd, file>> \in Leads, <<b.cmd, file>> \in Leads
      PROVE  {a.cmd, b.cmd} \subseteq DOMAIN Target /\ Target[a.cmd] = Target[b.cmd]
    BY <1>1
<1>2. ASSUME {a.cmd, b.cmd} \subseteq DOMAIN Target, Target[a.cmd] = Target[b.cmd]
      PROVE  \E file \in Range(Target) : {<<a.cmd, file>>, <<b.cmd, file>>} \subseteq Leads
    <2>1. Target[a.cmd] \in Range(Target)
        BY <1>2 DEF Range
    <2>. QED
        BY <1>2, <2>1
<1>. HIDE DEF Leads
<1>3. is_same_link(a, b) <=> SameProgram(a, b)
    BY <1>1, <1>2 DEF is_same_link, SameProgram, Leads
<1>4. SameProgram(a, b) <=> SameProgram(b, a)
    BY DEF SameProgram
<1>. QED
    BY <1>3, <1>4

\* Programs, and the order, are the same for items that only have other icons.
LEMMA BareIs ==
    ASSUME NEW a \in ITEM, NEW b \in ITEM, Bare(a) = Bare(b)
    PROVE  /\ a.show = b.show /\ a.cmd = b.cmd /\ a.args = b.args
           /\ a.weight = b.weight /\ a.mru = b.mru
  BY DEF Bare, ITEM

LEMMA WeighedIs ==
    ASSUME NEW item \in ITEM, NEW t
    PROVE  /\ calc_item_weight(item, t) \in ITEM
           /\ calc_item_weight(item, t).cmd = item.cmd
           /\ calc_item_weight(item, t).args = item.args
PROOF
<1>. DEFINE kind == IF item.weight # 0 THEN 0
                    ELSE IF Ext(item.cmd) = ".lnk" THEN 5
                    ELSE IF Ext(item.cmd) = ".exe" THEN 2 ELSE 0
            same == (IF item.cmd = t THEN 10 ELSE 0) + (IF item.show = t THEN 10 ELSE 0)
<1>1. kind \in Int /\ same \in Int
    OBVIOUS
<1>2. calc_item_weight(item, t) = [item EXCEPT !.weight = @ - kind - same]
    BY DEF calc_item_weight
<1>. HIDE DEF kind, same
<1>3. item.weight - kind - same \in Int
    BY <1>1 DEF ITEM
<1>4. PICK w \in Int : calc_item_weight(item, t) = [item EXCEPT !.weight = w]
    BY <1>2, <1>3
<1>. QED
    BY <1>4 DEF ITEM

\* find_match takes the next candidate.
LEMMA AddKeeps ==
    ASSUME NEW C \in Seq(ITEM), NEW k \in 1..Len(C), NEW t, NEW list \in Seq(ITEM),
           Represents(list, C, k - 1, t)
    PROVE  /\ add_to_results(list, C[k], t) \in Seq(ITEM)
           /\ Represents(add_to_results(list, C[k], t), C, k, t)
PROOF
<1>. DEFINE item == C[k]
            weighed == calc_item_weight(item, t)
            longer == Append(list, weighed)
            Same(a, n) == Bare(a) = Bare(calc_item_weight(C[n], t))
<1>0. /\ k \in Nat /\ k > 0 /\ Len(C) \in Nat /\ Len(list) \in Nat
      /\ DOMAIN list = 1..Len(list) /\ \A i \in DOMAIN list : list[i] \in ITEM
    BY LenProperties, ElementOfSeq
<1>1. item \in ITEM
    BY LenProperties, ElementOfSeq
<1>2. weighed \in ITEM /\ weighed.cmd = item.cmd /\ weighed.args = item.args
    BY <1>1, WeighedIs
<1>3. /\ longer \in Seq(ITEM) /\ Len(longer) = Len(list) + 1
      /\ \A i \in 1..Len(list) : longer[i] = list[i]
      /\ longer[Len(list) + 1] = weighed
    <2>. HIDE DEF weighed
    <2>. QED
        BY <1>2, AppendProperties
<1>4. DOMAIN longer = 1..(Len(list) + 1)
    <2>. HIDE DEF longer
    <2>. QED
        BY <1>3, LenProperties
<1>5. \A a : SameProgram(a, weighed) = SameProgram(a, item)
    BY <1>2 DEF SameProgram
<1>6. /\ \A n \in 1..(k - 1) : \E i \in DOMAIN list : Same(list[i], n) \/ SameProgram(list[i], C[n])
      /\ \A i \in DOMAIN list : \E n \in 1..(k - 1) : Same(list[i], n)
      /\ \A i, j \in DOMAIN list : i # j => ~SameProgram(list[i], list[j])
    BY DEF Represents
<1>. HIDE DEF longer
<1>7. CASE \E i \in DOMAIN list : is_same_link(list[i], item)
    <2>1. add_to_results(list, item, t) = list
        BY <1>7 DEF add_to_results
    <2>2. \E i \in DOMAIN list : SameProgram(list[i], item)
        BY <1>7, LinkIs
    <2>3. ASSUME NEW n \in 1..k
          PROVE  \E i \in DOMAIN list : Same(list[i], n) \/ SameProgram(list[i], C[n])
        <3>1. n = k \/ n \in 1..(k - 1)
            BY <1>0
        <3>. QED
            BY <1>6, <2>2, <3>1
    <2>4. ASSUME NEW i \in DOMAIN list PROVE \E n \in 1..k : Same(list[i], n)
        <3>1. PICK n \in 1..(k - 1) : Same(list[i], n)
            BY <1>6
        <3>2. n \in 1..k
            BY <1>0
        <3>. QED
            BY <3>1, <3>2
    <2>. HIDE DEF item
    <2>5. Represents(list, C, k, t)
        BY <1>6, <2>3, <2>4 DEF Represents
    <2>. QED
        BY <2>1, <2>5 DEF item
<1>8. CASE ~\E i \in DOMAIN list : is_same_link(list[i], item)
    <2>1. add_to_results(list, item, t) = longer
        BY <1>8 DEF add_to_results, longer
    <2>2. \A i \in DOMAIN list : ~SameProgram(list[i], weighed) /\ ~SameProgram(weighed, list[i])
        BY <1>5, <1>8, LinkIs
    <2>. DEFINE z == Len(list) + 1
    <2>3. /\ z \in DOMAIN longer /\ longer[z] = weighed
          /\ \A i \in DOMAIN list : i \in DOMAIN longer /\ longer[i] = list[i]
          /\ \A i \in DOMAIN longer : i = z \/ i \in DOMAIN list
        BY <1>0, <1>3, <1>4
    <2>. HIDE DEF z
    <2>4. Same(longer[z], k)
        BY <2>3
    <2>5. ASSUME NEW n \in 1..k
          PROVE  \E i \in DOMAIN longer : Same(longer[i], n) \/ SameProgram(longer[i], C[n])
        <3>1. n = k \/ n \in 1..(k - 1)
            BY <1>0
        <3>. HIDE DEF Same
        <3>. QED
            BY <1>6, <2>3, <2>4, <3>1
    <2>6. ASSUME NEW i \in DOMAIN longer PROVE \E n \in 1..k : Same(longer[i], n)
        <3>1. (1..(k - 1)) \subseteq 1..k /\ k \in 1..k
            BY <1>0
        <3>. HIDE DEF Same
        <3>. QED
            BY <1>6, <2>3, <2>4, <3>1
    <2>7. \A i, j \in DOMAIN longer : i # j => ~SameProgram(longer[i], longer[j])
        <3>. HIDE DEF Same, weighed
        <3>. QED
            BY <1>6, <2>2, <2>3
    <2>. HIDE DEF item
    <2>8. Represents(longer, C, k, t)
        BY <2>5, <2>6, <2>7 DEF Represents
    <2>. QED
        BY <1>3, <2>1, <2>8 DEF item
<1>. QED
    BY <1>7, <1>8

\* The sort does not change what the list stands for.
LEMMA SortKeeps ==
    ASSUME NEW list \in Seq(ITEM), NEW up \in BOOLEAN, NEW C, NEW k, NEW t,
           Represents(list, C, k, t)
    PROVE  Represents(Sorted(list, up), C, k, t)
PROOF
<1>. DEFINE sorted == Sorted(list, up)
            Same(a, n) == Bare(a) = Bare(calc_item_weight(C[n], t))
<1>1. PICK p : Reorders(p, list) /\ sorted = [n \in DOMAIN list |-> list[p[n]]]
    BY SortedIs
<1>2. /\ p \in [DOMAIN list -> DOMAIN list] /\ DOMAIN sorted = DOMAIN list
      /\ \A m, n \in DOMAIN list : p[m] = p[n] => m = n
      /\ \A i \in DOMAIN list : \E n \in DOMAIN list : p[n] = i
      /\ \A n \in DOMAIN list : sorted[n] = list[p[n]]
    BY <1>1 DEF Reorders
<1>3. /\ \A n \in 1..k : \E i \in DOMAIN list : Same(list[i], n) \/ SameProgram(list[i], C[n])
      /\ \A i \in DOMAIN list : \E n \in 1..k : Same(list[i], n)
      /\ \A i, j \in DOMAIN list : i # j => ~SameProgram(list[i], list[j])
    BY DEF Represents
<1>. HIDE DEF sorted, Same
<1>4. \A n \in 1..k : \E i \in DOMAIN sorted : Same(sorted[i], n) \/ SameProgram(sorted[i], C[n])
    BY <1>2, <1>3
<1>5. \A i \in DOMAIN sorted : \E n \in 1..k : Same(sorted[i], n)
    BY <1>2, <1>3
<1>6. \A i, j \in DOMAIN sorted : i # j => ~SameProgram(sorted[i], sorted[j])
    BY <1>2, <1>3
<1>. QED
    BY <1>4, <1>5, <1>6 DEF Represents, Same, sorted

\* Nor do the icons.
LEMMA IconsKeep ==
    ASSUME NEW list \in Seq(ITEM), NEW other \in Seq(ITEM), NEW C, NEW t,
           BareList(list) = BareList(other), Complete(list, C, t)
    PROVE  Complete(other, C, t)
PROOF
<1>1. DOMAIN list = DOMAIN other /\ \A i \in DOMAIN list : Bare(list[i]) = Bare(other[i])
    BY DEF BareList
<1>2. \A i \in DOMAIN list : list[i] \in ITEM /\ other[i] \in ITEM
    BY <1>1, LenProperties, ElementOfSeq
<1>3. \A i \in DOMAIN list : /\ list[i].show = other[i].show /\ list[i].cmd = other[i].cmd
                             /\ list[i].args = other[i].args /\ list[i].weight = other[i].weight
    BY <1>1, <1>2, BareIs
<1>4. \A i \in DOMAIN list : \A b : SameProgram(list[i], b) = SameProgram(other[i], b)
    BY <1>3 DEF SameProgram
<1>5. \A i, j \in DOMAIN list : SameProgram(list[i], list[j]) = SameProgram(other[i], other[j])
    BY <1>3 DEF SameProgram
<1>6. \A i, j \in DOMAIN list : compare_items(list[i], list[j]) = compare_items(other[i], other[j])
    BY <1>3 DEF compare_items
<1>7. InOrder(other)
    BY <1>1, <1>6 DEF InOrder, Complete
<1>. DEFINE Same(a, n) == Bare(a) = Bare(calc_item_weight(C[n], t))
<1>8. /\ \A n \in 1..Len(C) : \E i \in DOMAIN list : Same(list[i], n) \/ SameProgram(list[i], C[n])
      /\ \A i \in DOMAIN list : \E n \in 1..Len(C) : Same(list[i], n)
      /\ \A i, j \in DOMAIN list : i # j => ~SameProgram(list[i], list[j])
    BY DEF Represents, Complete
<1>9. \A i \in DOMAIN list, n \in 1..Len(C) : Same(list[i], n) = Same(other[i], n)
    BY <1>1
<1>. HIDE DEF Same
<1>10. /\ \A n \in 1..Len(C) : \E i \in DOMAIN other : Same(other[i], n) \/ SameProgram(other[i], C[n])
       /\ \A i \in DOMAIN other : \E n \in 1..Len(C) : Same(other[i], n)
       /\ \A i, j \in DOMAIN other : i # j => ~SameProgram(other[i], other[j])
    <2>1. ASSUME NEW n \in 1..Len(C)
          PROVE  \E i \in DOMAIN other : Same(other[i], n) \/ SameProgram(other[i], C[n])
        <3>1. PICK i \in DOMAIN list : Same(list[i], n) \/ SameProgram(list[i], C[n])
            BY <1>8
        <3>2. Same(other[i], n) \/ SameProgram(other[i], C[n])
            BY <1>4, <1>9, <3>1
        <3>. QED
            BY <1>1, <3>2
    <2>2. ASSUME NEW i \in DOMAIN other PROVE \E n \in 1..Len(C) : Same(other[i], n)
        BY <1>1, <1>8, <1>9
    <2>3. \A i, j \in DOMAIN other : i # j => ~SameProgram(other[i], other[j])
        BY <1>1, <1>5, <1>8
    <2>. QED
        BY <2>1, <2>2, <2>3
<1>11. Represents(other, C, Len(C), t)
    BY <1>10 DEF Represents, Same
<1>. QED
    BY <1>7, <1>11 DEF Complete

\* How a search goes on.
LEMMA SearchBegins ==
    ASSUME NEW C \in Seq(ITEM), NEW t, NEW r
    PROVE  Underway([rid |-> r, todo |-> C, found |-> <<>>], C, t)
PROOF
<1>1. 0 \in 0..Len(C) /\ C = SubSeq(C, 0 + 1, Len(C))
    BY LenProperties, SubSeqFull
<1>2. Represents(<<>>, C, 0, t)
    BY DEF Represents
<1>. QED
    BY <1>1, <1>2 DEF Underway

LEMMA SearchGoesOn ==
    ASSUME NEW C \in Seq(ITEM), NEW t, NEW s \in SEARCH, Underway(s, C, t), s.todo # <<>>
    PROVE  Underway([s EXCEPT !.todo = Tail(@), !.found = add_to_results(@, Head(s.todo), t)], C, t)
PROOF
<1>. DEFINE next == [s EXCEPT !.todo = Tail(@), !.found = add_to_results(@, Head(s.todo), t)]
<1>1. PICK k \in 0..Len(C) : s.todo = SubSeq(C, k + 1, Len(C)) /\ Represents(s.found, C, k, t)
    BY DEF Underway
<1>2. Len(C) \in Nat /\ s.todo \in Seq(ITEM) /\ s.found \in Seq(ITEM)
    BY LenProperties DEF SEARCH
<1>3. k + 1 \in 1..(Len(C) + 1) /\ Len(C) \in 0..Len(C)
    BY <1>2
<1>4. /\ Len(s.todo) = (IF k + 1 <= Len(C) THEN Len(C) - (k + 1) + 1 ELSE 0)
      /\ \A i \in 1..(Len(C) - (k + 1) + 1) : s.todo[i] = C[k + 1 + i - 1]
    BY <1>1, <1>3, PartIs
<1>5. k + 1 \in 1..Len(C)
    <2>1. Len(s.todo) # 0
        BY <1>2, EmptySeq
    <2>. QED
        BY <1>2, <1>4, <2>1
<1>6. Head(s.todo) = C[k + 1]
    <2>1. 1 \in 1..(Len(C) - (k + 1) + 1) /\ k + 1 + 1 - 1 = k + 1
        BY <1>2, <1>5
    <2>2. s.todo[1] = C[k + 1]
        BY <1>4, <2>1
    <2>. QED
        BY <1>2, <2>2
<1>7. Tail(s.todo) = SubSeq(C, k + 2, Len(C))
    <2>. DEFINE a == Tail(s.todo)
                b == SubSeq(C, k + 2, Len(C))
    <2>1. /\ a \in Seq(ITEM) /\ Len(a) = Len(s.todo) - 1
          /\ \A i \in 1..(Len(s.todo) - 1) : a[i] = s.todo[i + 1]
        BY <1>2, HeadTailProperties
    <2>2. k + 2 \in 1..(Len(C) + 1)
        BY <1>2, <1>5
    <2>3. /\ b \in Seq(ITEM) /\ Len(b) = (IF k + 2 <= Len(C) THEN Len(C) - (k + 2) + 1 ELSE 0)
          /\ \A i \in 1..(Len(C) - (k + 2) + 1) : b[i] = C[k + 2 + i - 1]
        BY <1>3, <2>2, PartIs
    <2>. HIDE DEF a, b
    <2>4. Len(a) = Len(C) - k - 1 /\ Len(b) = Len(C) - k - 1
        BY <1>2, <1>4, <1>5, <2>1, <2>3
    <2>5. ASSUME NEW i \in 1..Len(a) PROVE a[i] = b[i]
        <3>1. /\ i \in 1..(Len(s.todo) - 1) /\ i + 1 \in 1..(Len(C) - (k + 1) + 1)
              /\ i \in 1..(Len(C) - (k + 2) + 1) /\ k + 1 + (i + 1) - 1 = k + 2 + i - 1
            BY <1>2, <1>5, <2>1, <2>4
        <3>. QED
            BY <1>4, <2>1, <2>3, <3>1
    <2>6. a \in Seq(ITEM) /\ b \in Seq(ITEM) /\ Len(a) = Len(b)
        BY <2>1, <2>3, <2>4
    <2>7. a = b
        BY <2>5, <2>6, SameList
    <2>. QED
        BY <2>7 DEF a, b
<1>8. Represents(add_to_results(s.found, C[k + 1], t), C, k + 1, t)
    <2>1. k + 1 - 1 = k
        BY <1>1
    <2>2. PICK n \in 1..Len(C) : n = k + 1 /\ Represents(s.found, C, n - 1, t)
        BY <1>1, <1>5, <2>1
    <2>. QED
        BY <1>2, <2>2, AddKeeps
<1>9. next.todo = Tail(s.todo) /\ next.found = add_to_results(s.found, Head(s.todo), t)
    BY DEF SEARCH
<1>. HIDE DEF next
<1>10. next.todo = SubSeq(C, (k + 1) + 1, Len(C)) /\ k + 1 \in 0..Len(C)
    <2>1. k + 2 = (k + 1) + 1 /\ k + 1 \in 0..Len(C)
        BY <1>2, <1>5
    <2>. QED
        BY <1>7, <1>9, <2>1
<1>11. Underway(next, C, t)
    BY <1>6, <1>8, <1>9, <1>10 DEF Underway
<1>. QED
    BY <1>11 DEF next

LEMMA SearchEnds ==
    ASSUME NEW C \in Seq(ITEM), NEW t, NEW s \in SEARCH, Underway(s, C, t), s.todo = <<>>,
           NEW up \in BOOLEAN
    PROVE  Complete(Sorted(s.found, up), C, t)
PROOF
<1>1. PICK k \in 0..Len(C) : s.todo = SubSeq(C, k + 1, Len(C)) /\ Represents(s.found, C, k, t)
    BY DEF Underway
<1>2. Len(C) \in Nat /\ s.found \in Seq(ITEM)
    BY LenProperties DEF SEARCH
<1>3. k + 1 \in 1..(Len(C) + 1) /\ Len(C) \in 0..Len(C)
    BY <1>2
<1>4. Len(s.todo) = IF k + 1 <= Len(C) THEN Len(C) - (k + 1) + 1 ELSE 0
    BY <1>1, <1>3, PartIs
<1>5. Len(s.todo) = 0
    BY EmptySeq
<1>6. k = Len(C)
    BY <1>2, <1>4, <1>5
<1>. QED
    BY <1>1, <1>2, <1>6, SortKeeps, SortedIs DEF Complete

LEMMA InvInit ==
    Init => IInv
PROOF
<1>. SUFFICES ASSUME Init PROVE IInv
    OBVIOUS
<1>. USE DEF Init
<1>1. execs \in Seq(FILE)
    <2>1. PICK old \in {<<>>, Gone} : execs = scan_path \o scan_special \o old
        OBVIOUS
    <2>2. old \in Seq(FILE)
        BY TextAssumption, EmptySeq
    <2>3. scan_path \o scan_special \in Seq(FILE)
        BY IndexAssumption
    <2>. HIDE DEF Init
    <2>. QED
        BY <2>1, <2>2, <2>3, ConcatProperties
<1>2. HoldItems
    BY <1>1, EmptySeq DEF HoldItems, TEXT
<1>3. Numbered /\ InList /\ Destroyed
    BY BoundsAssumption DEF Numbered, InList, Destroyed
<1>4. NewestSearched /\ NewestPosted /\ NewestSomewhere
    BY DEF NewestSearched, NewestPosted, NewestSomewhere
<1>5. Shown /\ RunsAsTyped
    BY DEF Shown, RunsAsTyped
<1>. QED
    BY <1>2, <1>3, <1>4, <1>5 DEF IInv

\* The candidates depend on the index and the text.
LEMMA CandidatesStay ==
    ASSUME execs' = execs
    PROVE  Candidates(text)' = Candidates(text')
  BY DEF Candidates, IndexMatches

\* What is painted is the list, with icons.
LEMMA PaintedIs ==
    ASSUME NEW list \in Seq(ITEM), NEW sel \in Nat, list # <<>> => sel < Len(list),
           SetPainted(list, sel), selected' = sel
    PROVE  /\ curr_results' \in Seq(ITEM) /\ dirty' \in BOOLEAN /\ ~dirty'
           /\ InList' /\ Shown'
           /\ list = <<>> => curr_results' = <<>>
           /\ \A C, t : Complete(list, C, t) => Complete(curr_results', C, t)
PROOF
<1>1. /\ curr_results' = Rows(list, sel).items /\ painted' = Rows(list, sel).shown
      /\ dirty' = FALSE
    BY DEF SetPainted
<1>2. /\ Rows(list, sel).items \in Seq(ITEM) /\ Len(Rows(list, sel).items) = Len(list)
      /\ BareList(Rows(list, sel).items) = BareList(list)
      /\ sel < Len(list) => Framed(Rows(list, sel).items, Rows(list, sel).shown, sel)
    BY RowsAre
<1>3. list # <<>> <=> curr_results' # <<>>
    BY <1>1, <1>2, EmptySeq
<1>4. InList' /\ Shown'
    BY <1>1, <1>2, <1>3 DEF InList, Shown
<1>5. \A C, t : Complete(list, C, t) => Complete(curr_results', C, t)
    BY <1>1, <1>2, IconsKeep
<1>. QED
    BY <1>1, <1>2, <1>3, <1>4, <1>5

\* A new search, for the new text.
LEMMA KickOffKeeps ==
    ASSUME IInv, NEW t \in TEXT, kick_off_update(t), text' = t, execs' = execs,
           messages' = messages, last_rid' = last_rid
    PROVE  /\ searches' \in SUBSET SEARCH /\ Numbered'
           /\ NewestSearched' /\ NewestPosted' /\ NewestSomewhere'
PROOF
<1>. DEFINE C == Candidates(t)
            new == [rid |-> rid, todo |-> C, found |-> <<>>]
<1>1. rid < MaxRid /\ rid' = rid + 1 /\ searches' = searches \cup {new}
    BY DEF kick_off_update
<1>2. /\ rid \in Nat /\ MaxRid \in Nat /\ last_rid \in 0..rid
      /\ \A s \in searches : s.rid < rid
      /\ \A i \in DOMAIN messages : messages[i].rid < rid
    BY BoundsAssumption DEF IInv, Numbered
<1>3. C \in Seq(ITEM) /\ Candidates(text)' = C
    <2>1. execs \in Seq(FILE)
        BY DEF IInv, HoldItems
    <2>2. Candidates(text)' = Candidates(text')
        BY CandidatesStay
    <2>. QED
        BY <2>1, <2>2, CandidatesAre
<1>4. searches \in SUBSET SEARCH /\ messages \in Seq(MESSAGE)
    BY DEF IInv, HoldItems
<1>. HIDE DEF C
<1>5. new \in SEARCH
    BY <1>2, <1>3, EmptySeq DEF SEARCH
<1>6. Underway(new, C, t)
    BY <1>3, SearchBegins
<1>7. \A s \in searches : s.rid \in Nat
    BY <1>4 DEF SEARCH
<1>8. \A i \in DOMAIN messages : messages[i].rid \in Nat
    <2>1. \A i \in DOMAIN messages : messages[i] \in MESSAGE
        BY <1>4, LenProperties, ElementOfSeq
    <2>. QED
        BY <2>1 DEF MESSAGE
<1>9. new.rid = rid
    OBVIOUS
<1>. HIDE DEF new
<1>10. searches' \in SUBSET SEARCH
    BY <1>1, <1>4, <1>5
<1>11. Numbered'
    BY <1>1, <1>2, <1>7, <1>8, <1>9 DEF Numbered
<1>12. NewestSearched'
    <2>1. ASSUME NEW s \in searches', s.rid + 1 = rid' PROVE Underway(s, C, t)
        <3>1. s = new
            BY <1>1, <1>2, <1>7, <2>1
        <3>. QED
            BY <1>6, <3>1
    <2>. QED
        BY <1>3, <2>1 DEF NewestSearched
<1>13. NewestPosted'
    <2>1. \A i \in DOMAIN messages' : messages'[i].rid + 1 # rid'
        BY <1>1, <1>2, <1>8
    <2>. QED
        BY <2>1 DEF NewestPosted
<1>14. NewestSomewhere'
    BY <1>1, <1>9 DEF NewestSomewhere
<1>. QED
    BY <1>10, <1>11, <1>12, <1>13, <1>14

LEMMA ShowKeeps ==
    ASSUME IInv, show_launcher
    PROVE  IInv'
PROOF
<1>1. /\ kick_off_update(<<>>) /\ SetPainted(<<>>, selected)
      /\ open' = TRUE /\ text' = <<>> /\ ran' = {}
      /\ execs' = execs /\ last_rid' = last_rid /\ messages' = messages /\ selected' = selected
    BY DEF show_launcher
<1>2. <<>> \in TEXT /\ <<>> \in Seq(ITEM)
    BY EmptySeq DEF TEXT
<1>3. /\ searches' \in SUBSET SEARCH /\ Numbered'
      /\ NewestSearched' /\ NewestPosted' /\ NewestSomewhere'
    BY <1>1, <1>2, KickOffKeeps
<1>4. selected \in Nat
    BY DEF IInv, InList
<1>5. curr_results' \in Seq(ITEM) /\ dirty' \in BOOLEAN /\ InList' /\ Shown'
    BY <1>1, <1>2, <1>4, PaintedIs
<1>6. HoldItems'
    BY <1>1, <1>2, <1>3, <1>5 DEF IInv, HoldItems
<1>7. RunsAsTyped'
    BY <1>1 DEF RunsAsTyped
<1>8. Destroyed'
    BY <1>1 DEF Destroyed
<1>. QED
    BY <1>3, <1>5, <1>6, <1>7, <1>8 DEF IInv

LEMMA NewTextKeeps ==
    ASSUME IInv, NEW t \in TEXT, SetWindowText(t)
    PROVE  IInv'
PROOF
<1>1. /\ text' = t /\ IF t = text THEN UNCHANGED <<rid, searches>> ELSE kick_off_update(t)
      /\ execs' = execs /\ last_rid' = last_rid /\ messages' = messages /\ open' = open
      /\ curr_results' = curr_results /\ selected' = selected /\ dirty' = dirty
      /\ painted' = painted /\ ran' = ran
    BY DEF SetWindowText
<1>2. CASE t = text
    <2>1. Candidates(text)' = Candidates(text)
        <3>1. Candidates(text)' = Candidates(text')
            BY <1>1, CandidatesStay
        <3>. QED
            BY <1>1, <1>2, <3>1
    <2>2. text' = text /\ rid' = rid /\ searches' = searches
        BY <1>1, <1>2
    <2>3. (HoldItems /\ Numbered /\ InList /\ Destroyed)'
        BY <1>1, <2>2 DEF IInv, HoldItems, Numbered, InList, Destroyed
    <2>4. (NewestSearched /\ NewestPosted /\ NewestSomewhere)'
        BY <1>1, <2>1, <2>2 DEF IInv, NewestSearched, NewestPosted, NewestSomewhere
    <2>5. (Shown /\ RunsAsTyped)'
        BY <1>1, <2>2 DEF IInv, Shown, RunsAsTyped
    <2>. QED
        BY <2>3, <2>4, <2>5 DEF IInv
<1>3. CASE t # text
    <2>1. /\ searches' \in SUBSET SEARCH /\ Numbered'
          /\ NewestSearched' /\ NewestPosted' /\ NewestSomewhere'
        BY <1>1, <1>3, KickOffKeeps
    <2>2. (HoldItems /\ InList /\ Destroyed)'
        BY <1>1, <2>1 DEF IInv, HoldItems, InList, Destroyed
    <2>3. (Shown /\ RunsAsTyped)'
        BY <1>1 DEF IInv, Shown, RunsAsTyped
    <2>. QED
        BY <2>1, <2>2, <2>3 DEF IInv
<1>. QED
    BY <1>2, <1>3

LEMMA FindKeeps ==
    ASSUME IInv, NEW s \in searches, Find(s)
    PROVE  IInv'
PROOF
<1>. DEFINE C == Candidates(text)
            next == [s EXCEPT !.todo = Tail(@), !.found = add_to_results(@, Head(s.todo), text)]
<1>1. /\ s.todo # <<>> /\ searches' = (searches \ {s}) \cup {next}
      /\ execs' = execs /\ text' = text /\ rid' = rid /\ last_rid' = last_rid
      /\ messages' = messages /\ open' = open /\ curr_results' = curr_results
      /\ selected' = selected /\ dirty' = dirty /\ painted' = painted /\ ran' = ran
    BY DEF Find
<1>2. Candidates(text)' = C
    <2>1. Candidates(text)' = Candidates(text')
        BY <1>1, CandidatesStay
    <2>. QED
        BY <1>1, <2>1
<1>3. C \in Seq(ITEM) /\ s \in SEARCH
    <2>1. execs \in Seq(FILE) /\ s \in SEARCH
        BY DEF IInv, HoldItems
    <2>. QED
        BY <2>1, CandidatesAre
<1>. HIDE DEF C
<1>4. next \in SEARCH /\ next.rid = s.rid
    <2>1. s.todo \in Seq(ITEM) /\ s.found \in Seq(ITEM)
        BY <1>3 DEF SEARCH
    <2>2. Tail(s.todo) \in Seq(ITEM) /\ Head(s.todo) \in ITEM
        BY <1>1, <2>1, HeadTailProperties
    <2>3. add_to_results(s.found, Head(s.todo), text) \in Seq(ITEM)
        <3>1. calc_item_weight(Head(s.todo), text) \in ITEM
            BY <2>2, WeighedIs
        <3>2. Append(s.found, calc_item_weight(Head(s.todo), text)) \in Seq(ITEM)
            BY <2>1, <3>1, AppendProperties
        <3>. QED
            BY <2>1, <3>2 DEF add_to_results
    <2>. QED
        BY <1>3, <2>2, <2>3 DEF SEARCH
<1>5. s.rid + 1 = rid => Underway(next, C, text)
    <2>1. ASSUME s.rid + 1 = rid PROVE Underway(s, C, text)
        BY <2>1 DEF IInv, NewestSearched, C
    <2>. QED
        BY <1>1, <1>3, <2>1, SearchGoesOn
<1>. HIDE DEF next
<1>6. (HoldItems /\ Numbered /\ InList /\ Destroyed)'
    BY <1>1, <1>4 DEF IInv, HoldItems, Numbered, InList, Destroyed
<1>7. NewestSearched'
    <2>1. \A i \in searches : i.rid + 1 = rid => Underway(i, C, text)
        BY DEF IInv, NewestSearched, C
    <2>. QED
        BY <1>1, <1>2, <1>4, <1>5, <2>1 DEF NewestSearched
<1>8. NewestPosted'
    BY <1>1, <1>2 DEF IInv, NewestPosted, C
<1>9. NewestSomewhere'
    <2>1. (\E i \in searches : i.rid + 1 = rid) => \E i \in searches' : i.rid + 1 = rid'
        BY <1>1, <1>4
    <2>. QED
        BY <1>1, <1>2, <2>1 DEF IInv, NewestSomewhere, C
<1>10. (Shown /\ RunsAsTyped)'
    BY <1>1 DEF IInv, Shown, RunsAsTyped
<1>. QED
    BY <1>6, <1>7, <1>8, <1>9, <1>10 DEF IInv

LEMMA EndKeeps ==
    ASSUME IInv, NEW s \in searches, FindMatchEnds(s)
    PROVE  IInv'
PROOF
<1>. DEFINE C == Candidates(text)
<1>1. /\ s.todo = <<>> /\ searches' = searches \ {s}
      /\ execs' = execs /\ text' = text /\ rid' = rid /\ last_rid' = last_rid
      /\ open' = open /\ curr_results' = curr_results
      /\ selected' = selected /\ dirty' = dirty /\ painted' = painted /\ ran' = ran
    BY DEF FindMatchEnds
<1>2. PICK up \in BOOLEAN :
         messages' = IF open THEN Append(messages, [rid |-> s.rid, items |-> Sorted(s.found, up)])
                     ELSE messages
    BY DEF FindMatchEnds
<1>. DEFINE m == [rid |-> s.rid, items |-> Sorted(s.found, up)]
<1>3. Candidates(text)' = C
    <2>1. Candidates(text)' = Candidates(text')
        BY <1>1, CandidatesStay
    <2>. QED
        BY <1>1, <2>1
<1>4. C \in Seq(ITEM) /\ s \in SEARCH
    <2>1. execs \in Seq(FILE) /\ s \in SEARCH
        BY DEF IInv, HoldItems
    <2>. QED
        BY <2>1, CandidatesAre
<1>. HIDE DEF C
<1>5. m \in MESSAGE
    <2>1. s.found \in Seq(ITEM) /\ s.rid \in Nat
        BY <1>4 DEF SEARCH
    <2>. QED
        BY <2>1, SortedIs DEF MESSAGE
<1>6. m.rid = s.rid /\ s.rid < rid
    BY DEF IInv, Numbered
<1>7. m.rid + 1 = rid => Complete(m.items, C, text)
    <2>1. ASSUME s.rid + 1 = rid PROVE Underway(s, C, text)
        BY <2>1 DEF IInv, NewestSearched, C
    <2>2. ASSUME s.rid + 1 = rid PROVE Complete(Sorted(s.found, up), C, text)
        BY <1>1, <1>4, <2>1, <2>2, SearchEnds
    <2>. QED
        BY <2>2
<1>. HIDE DEF m
<1>8. messages \in Seq(MESSAGE) /\ Len(messages) \in Nat
    BY LenProperties DEF IInv, HoldItems
<1>9. CASE open
    <2>1. messages' = Append(messages, m)
        BY <1>2, <1>9 DEF m
    <2>2. /\ messages' \in Seq(MESSAGE) /\ Len(messages') = Len(messages) + 1
          /\ \A i \in 1..Len(messages) : messages'[i] = messages[i]
          /\ messages'[Len(messages) + 1] = m
        BY <1>5, <1>8, <2>1, AppendProperties
    <2>3. DOMAIN messages' = 1..(Len(messages) + 1) /\ DOMAIN messages = 1..Len(messages)
        BY <1>8, <2>2, LenProperties
    <2>4. /\ \A i \in DOMAIN messages : i \in DOMAIN messages' /\ messages'[i] = messages[i]
          /\ Len(messages) + 1 \in DOMAIN messages'
          /\ \A i \in DOMAIN messages' : messages'[i] = m \/ (i \in DOMAIN messages /\ messages'[i] = messages[i])
        BY <1>8, <2>2, <2>3
    <2>5. HoldItems' /\ InList' /\ Destroyed'
        BY <1>1, <1>9, <2>2 DEF IInv, HoldItems, InList, Destroyed
    <2>6. Numbered'
        BY <1>1, <1>6, <2>4 DEF IInv, Numbered
    <2>7. NewestSearched'
        BY <1>1, <1>3 DEF IInv, NewestSearched, C
    <2>8. NewestPosted'
        <3>1. \A i \in DOMAIN messages : messages[i].rid + 1 = rid => Complete(messages[i].items, C, text)
            BY DEF IInv, NewestPosted, C
        <3>2. \A i \in DOMAIN messages' :
                  messages'[i].rid + 1 = rid => Complete(messages'[i].items, C, text)
            BY <1>7, <2>4, <3>1
        <3>. QED
            BY <1>1, <1>3, <3>2 DEF NewestPosted
    <2>9. NewestSomewhere'
        <3>1. \/ \E i \in searches : i.rid + 1 = rid
              \/ \E i \in DOMAIN messages : messages[i].rid + 1 = rid
              \/ last_rid + 1 = rid /\ Complete(curr_results, C, text)
            BY <1>9 DEF IInv, NewestSomewhere, C
        <3>2. \/ \E i \in searches' : i.rid + 1 = rid
              \/ \E i \in DOMAIN messages' : messages'[i].rid + 1 = rid
              \/ last_rid + 1 = rid /\ Complete(curr_results, C, text)
            BY <1>1, <1>6, <2>2, <2>4, <3>1
        <3>. QED
            BY <1>1, <1>3, <3>2 DEF NewestSomewhere
    <2>10. (Shown /\ RunsAsTyped)'
        BY <1>1 DEF IInv, Shown, RunsAsTyped
    <2>. QED
        BY <2>5, <2>6, <2>7, <2>8, <2>9, <2>10 DEF IInv
<1>10. CASE ~open
    <2>1. messages' = messages
        BY <1>2, <1>10
    <2>2. (HoldItems /\ Numbered /\ InList /\ Destroyed)'
        BY <1>1, <2>1 DEF IInv, HoldItems, Numbered, InList, Destroyed
    <2>3. (NewestSearched /\ NewestPosted)'
        BY <1>1, <1>3, <2>1 DEF IInv, NewestSearched, NewestPosted, C
    <2>4. (NewestSomewhere /\ Shown /\ RunsAsTyped)'
        BY <1>1, <1>10 DEF IInv, NewestSomewhere, Shown, RunsAsTyped
    <2>. QED
        BY <2>2, <2>3, <2>4 DEF IInv
<1>. QED
    BY <1>9, <1>10

LEMMA ResultsKeep ==
    ASSUME IInv, OnResults
    PROVE  IInv'
PROOF
<1>. DEFINE C == Candidates(text)
            m == Head(messages)
<1>1. /\ messages # <<>> /\ messages' = Tail(messages)
      /\ execs' = execs /\ text' = text /\ rid' = rid /\ searches' = searches
      /\ open' = open /\ ran' = ran
    BY DEF OnResults
<1>2. IF m.rid >= last_rid
      THEN last_rid' = m.rid /\ selected' = 0 /\ SetPainted(m.items, 0)
      ELSE UNCHANGED <<last_rid, selected, curr_results, painted, dirty>>
    BY DEF OnResults
<1>3. Candidates(text)' = C
    <2>1. Candidates(text)' = Candidates(text')
        BY <1>1, CandidatesStay
    <2>. QED
        BY <1>1, <2>1
<1>. HIDE DEF C
<1>4. messages \in Seq(MESSAGE) /\ Len(messages) \in Nat /\ DOMAIN messages = 1..Len(messages)
    BY LenProperties DEF IInv, HoldItems
<1>5. /\ 1 \in DOMAIN messages /\ m = messages[1] /\ m \in MESSAGE
    <2>1. m \in MESSAGE /\ m = messages[1] /\ Len(messages) # 0
        BY <1>1, <1>4, HeadTailProperties, EmptySeq
    <2>. QED
        BY <1>4, <2>1
<1>. HIDE DEF m
<1>6. /\ messages' \in Seq(MESSAGE) /\ DOMAIN messages' = 1..(Len(messages) - 1)
      /\ \A i \in 1..(Len(messages) - 1) : messages'[i] = messages[i + 1]
    <2>1. /\ messages' \in Seq(MESSAGE) /\ Len(messages') = Len(messages) - 1
          /\ \A i \in 1..(Len(messages) - 1) : messages'[i] = messages[i + 1]
        BY <1>1, <1>4, HeadTailProperties
    <2>. QED
        BY <2>1, LenProperties
<1>7. /\ \A i \in DOMAIN messages' : i + 1 \in DOMAIN messages /\ messages'[i] = messages[i + 1]
      /\ \A i \in DOMAIN messages : i = 1 \/ (i - 1 \in DOMAIN messages' /\ messages'[i - 1] = messages[i])
    <2>1. \A i \in 1..(Len(messages) - 1) : i + 1 \in 1..Len(messages)
        BY <1>4
    <2>2. \A i \in 1..Len(messages) : i = 1 \/ (i - 1 \in 1..(Len(messages) - 1) /\ i - 1 + 1 = i)
        BY <1>4
    <2>. QED
        BY <1>4, <1>6, <2>1, <2>2
<1>8. m.rid < rid /\ m.rid \in Nat /\ m.items \in Seq(ITEM) /\ rid \in Nat
      /\ last_rid \in 0..rid /\ (last_rid < rid \/ rid = 0)
    BY <1>5 DEF IInv, Numbered, MESSAGE
<1>9. m.rid + 1 = rid => Complete(m.items, C, text)
    BY <1>5 DEF IInv, NewestPosted, C
<1>10. open
    BY <1>1 DEF IInv, Destroyed
<1>11. CASE m.rid >= last_rid
    <2>1. last_rid' = m.rid /\ selected' = 0 /\ SetPainted(m.items, 0)
        BY <1>2, <1>11
    <2>2. 0 \in Nat /\ (m.items # <<>> => 0 < Len(m.items))
        BY <1>8, EmptySeq, LenProperties
    <2>3. PICK z \in Nat : z = 0 /\ (m.items # <<>> => z < Len(m.items)) /\ SetPainted(m.items, z)
                           /\ selected' = z
        BY <2>1, <2>2
    <2>4. /\ curr_results' \in Seq(ITEM) /\ dirty' \in BOOLEAN /\ InList' /\ Shown'
          /\ Complete(m.items, C, text) => Complete(curr_results', C, text)
        BY <1>8, <2>3, PaintedIs
    <2>5. HoldItems' /\ Numbered' /\ Destroyed'
        BY <1>1, <1>6, <1>7, <1>8, <1>10, <2>1, <2>4 DEF IInv, HoldItems, Numbered, Destroyed
    <2>6. NewestSearched' /\ NewestPosted'
        <3>1. \A i \in DOMAIN messages : messages[i].rid + 1 = rid => Complete(messages[i].items, C, text)
            BY DEF IInv, NewestPosted, C
        <3>2. \A i \in DOMAIN messages' :
                  messages'[i].rid + 1 = rid => Complete(messages'[i].items, C, text)
            BY <1>7, <3>1
        <3>3. NewestPosted'
            BY <1>1, <1>3, <3>2 DEF NewestPosted
        <3>4. NewestSearched'
            BY <1>1, <1>3 DEF IInv, NewestSearched, C
        <3>. QED
            BY <3>3, <3>4
    <2>7. NewestSomewhere'
        <3>1. \/ \E i \in searches : i.rid + 1 = rid
              \/ \E i \in DOMAIN messages : messages[i].rid + 1 = rid
              \/ last_rid + 1 = rid
            BY <1>10 DEF IInv, NewestSomewhere
        <3>2. \/ m.rid + 1 = rid
              \/ \E i \in DOMAIN messages' : messages'[i].rid + 1 = rid
              \/ \E i \in searches : i.rid + 1 = rid
            <4>1. CASE \E i \in DOMAIN messages : messages[i].rid + 1 = rid
                BY <1>5, <1>7, <4>1
            <4>2. CASE last_rid + 1 = rid
                BY <1>8, <1>11, <4>2
            <4>. QED
                BY <3>1, <4>1, <4>2
        <3>3. \/ \E i \in searches' : i.rid + 1 = rid
              \/ \E i \in DOMAIN messages' : messages'[i].rid + 1 = rid
              \/ last_rid' + 1 = rid /\ Complete(curr_results', C, text)
            BY <1>1, <1>9, <2>1, <2>4, <3>2
        <3>. QED
            BY <1>1, <1>3, <3>3 DEF NewestSomewhere
    <2>8. RunsAsTyped'
        BY <1>1 DEF IInv, RunsAsTyped
    <2>. QED
        BY <2>4, <2>5, <2>6, <2>7, <2>8 DEF IInv
<1>12. CASE ~(m.rid >= last_rid)
    <2>1. /\ last_rid' = last_rid /\ selected' = selected /\ curr_results' = curr_results
          /\ painted' = painted /\ dirty' = dirty
        BY <1>2, <1>12
    <2>2. HoldItems' /\ Numbered' /\ InList' /\ Destroyed'
        BY <1>1, <1>6, <1>7, <1>10, <2>1 DEF IInv, HoldItems, Numbered, InList, Destroyed
    <2>3. NewestSearched' /\ NewestPosted'
        <3>1. \A i \in DOMAIN messages : messages[i].rid + 1 = rid => Complete(messages[i].items, C, text)
            BY DEF IInv, NewestPosted, C
        <3>2. \A i \in DOMAIN messages' :
                  messages'[i].rid + 1 = rid => Complete(messages'[i].items, C, text)
            BY <1>7, <3>1
        <3>3. NewestPosted'
            BY <1>1, <1>3, <3>2 DEF NewestPosted
        <3>4. NewestSearched'
            BY <1>1, <1>3 DEF IInv, NewestSearched, C
        <3>. QED
            BY <3>3, <3>4
    <2>4. NewestSomewhere'
        <3>1. m.rid + 1 # rid
            BY <1>8, <1>12
        <3>2. \/ \E i \in searches : i.rid + 1 = rid
              \/ \E i \in DOMAIN messages : messages[i].rid + 1 = rid
              \/ last_rid + 1 = rid /\ Complete(curr_results, C, text)
            BY <1>10 DEF IInv, NewestSomewhere, C
        <3>3. \/ \E i \in searches : i.rid + 1 = rid
              \/ \E i \in DOMAIN messages' : messages'[i].rid + 1 = rid
              \/ last_rid + 1 = rid /\ Complete(curr_results, C, text)
            BY <1>5, <1>7, <3>1, <3>2
        <3>. QED
            BY <1>1, <1>3, <2>1, <3>3 DEF NewestSomewhere
    <2>5. (Shown /\ RunsAsTyped)'
        BY <1>1, <2>1 DEF IInv, Shown, RunsAsTyped
    <2>. QED
        BY <2>2, <2>3, <2>4, <2>5 DEF IInv
<1>. QED
    BY <1>11, <1>12

LEMMA PaintKeeps ==
    ASSUME IInv, Paint
    PROVE  IInv'
PROOF
<1>. DEFINE C == Candidates(text)
<1>1. /\ open /\ SetPainted(curr_results, selected)
      /\ execs' = execs /\ text' = text /\ rid' = rid /\ last_rid' = last_rid
      /\ searches' = searches /\ messages' = messages /\ open' = open
      /\ selected' = selected /\ ran' = ran
    BY DEF Paint
<1>2. Candidates(text)' = C
    <2>1. Candidates(text)' = Candidates(text')
        BY <1>1, CandidatesStay
    <2>. QED
        BY <1>1, <2>1
<1>. HIDE DEF C
<1>3. /\ curr_results \in Seq(ITEM) /\ selected \in Nat
      /\ curr_results # <<>> => selected < Len(curr_results)
    BY DEF IInv, HoldItems, InList
<1>4. /\ curr_results' \in Seq(ITEM) /\ dirty' \in BOOLEAN /\ InList' /\ Shown'
      /\ Complete(curr_results, C, text) => Complete(curr_results', C, text)
    BY <1>1, <1>3, PaintedIs
<1>5. (HoldItems /\ Numbered /\ Destroyed)'
    BY <1>1, <1>4 DEF IInv, HoldItems, Numbered, Destroyed
<1>6. (NewestSearched /\ NewestPosted /\ NewestSomewhere)'
    BY <1>1, <1>2, <1>4 DEF IInv, NewestSearched, NewestPosted, NewestSomewhere, C
<1>7. RunsAsTyped'
    BY <1>1 DEF IInv, RunsAsTyped
<1>. QED
    BY <1>4, <1>5, <1>6, <1>7 DEF IInv

LEMMA MoveKeeps ==
    ASSUME IInv, NEW sel \in Nat, Move(sel), open, sel < Len(curr_results)
    PROVE  IInv'
PROOF
<1>1. /\ selected' = sel /\ dirty' = TRUE
      /\ execs' = execs /\ text' = text /\ rid' = rid /\ last_rid' = last_rid
      /\ searches' = searches /\ messages' = messages /\ open' = open
      /\ curr_results' = curr_results /\ painted' = painted /\ ran' = ran
    BY DEF Move
<1>2. Candidates(text)' = Candidates(text)
    <2>1. Candidates(text)' = Candidates(text')
        BY <1>1, CandidatesStay
    <2>. QED
        BY <1>1, <2>1
<1>3. (HoldItems /\ Numbered /\ InList /\ Destroyed)'
    BY <1>1 DEF IInv, HoldItems, Numbered, InList, Destroyed
<1>4. (NewestSearched /\ NewestPosted /\ NewestSomewhere)'
    BY <1>1, <1>2 DEF IInv, NewestSearched, NewestPosted, NewestSomewhere
<1>5. (Shown /\ RunsAsTyped)'
    BY <1>1 DEF IInv, Shown, RunsAsTyped
<1>. QED
    BY <1>3, <1>4, <1>5 DEF IInv

LEMMA DestroyKeeps ==
    ASSUME IInv, DestroyWindow, RunsAsTyped'
    PROVE  IInv'
PROOF
<1>1. /\ open' = FALSE /\ messages' = <<>> /\ curr_results' = <<>> /\ dirty' = FALSE
      /\ execs' = execs /\ text' = text /\ rid' = rid /\ last_rid' = last_rid
      /\ searches' = searches /\ selected' = selected
    BY DEF DestroyWindow
<1>2. Candidates(text)' = Candidates(text)
    <2>1. Candidates(text)' = Candidates(text')
        BY <1>1, CandidatesStay
    <2>. QED
        BY <1>1, <2>1
<1>3. HoldItems' /\ InList' /\ Destroyed'
    <2>1. <<>> \in Seq(MESSAGE) /\ <<>> \in Seq(ITEM)
        BY EmptySeq
    <2>. QED
        BY <1>1, <2>1 DEF IInv, HoldItems, InList, Destroyed
<1>6. Numbered'
    <2>1. \A i \in DOMAIN messages' : FALSE
        BY <1>1
    <2>. QED
        BY <1>1, <2>1 DEF IInv, Numbered
<1>4. (NewestSearched /\ NewestPosted /\ NewestSomewhere)'
    BY <1>1, <1>2 DEF IInv, NewestSearched, NewestPosted, NewestSomewhere
<1>5. Shown'
    BY <1>1 DEF Shown
<1>. QED
    BY <1>3, <1>4, <1>5, <1>6 DEF IInv

-----------------------------------------------------------------------------
(* The keys that walk through directories.                                 *)
\* A backslash behind which there is none is the last.
LEMMA LastSlashAt ==
    ASSUME NEW S, NEW t \in Seq(S), NEW k \in 0..Len(t), k > 0 => t[k] = Slash,
           \A j \in 1..Len(t) : j > k => t[j] # Slash
    PROVE  LastSlash(t) = k
PROOF
<1>1. /\ LastSlash(t) \in 0..Len(t) /\ Len(t) \in Nat
      /\ LastSlash(t) > 0 => t[LastSlash(t)] = Slash
      /\ \A j \in 1..Len(t) : j > LastSlash(t) => t[j] # Slash
    BY LastSlashIs, LenProperties
<1>. QED
    BY <1>1

\* The front of a text up to a backslash.
LEMMA FrontIs ==
    ASSUME NEW t \in TEXT, NEW k \in 1..Len(t), t[k] = Slash
    PROVE  /\ SubSeq(t, 1, k) \in TEXT /\ Len(SubSeq(t, 1, k)) = k /\ IsPrefix(SubSeq(t, 1, k), t)
           /\ LastSlash(SubSeq(t, 1, k)) = k
           /\ Dir(SubSeq(t, 1, k)) = SubSeq(t, 1, k - 1)
PROOF
<1>. DEFINE u == SubSeq(t, 1, k)
<1>0. t \in Seq(Pieces) /\ Len(t) \in Nat /\ k \in Nat /\ k >= 1 /\ k <= Len(t)
    BY LenProperties DEF TEXT
<1>1. 1 \in 1..(Len(t) + 1) /\ k \in 0..Len(t) /\ k - 1 \in 0..Len(t)
    BY <1>0
<1>2. /\ u \in Seq(Pieces) /\ Len(u) = (IF 1 <= k THEN k - 1 + 1 ELSE 0)
      /\ \A i \in 1..(k - 1 + 1) : u[i] = t[1 + i - 1]
    BY <1>0, <1>1, PartIs
<1>. HIDE DEF u
<1>3. Len(u) = k /\ \A i \in 1..k : u[i] = t[i]
    BY <1>0, <1>2
<1>4. LastSlash(u) = k
    <2>1. k \in 0..Len(u) /\ u[k] = Slash /\ \A j \in 1..Len(u) : j > k => u[j] # Slash
        BY <1>0, <1>3
    <2>. QED
        BY <1>2, <2>1, LastSlashAt
<1>5. IsPrefix(u, t)
    <2>1. SubSeq(u, 1, Len(u)) = u
        BY <1>2, SubSeqFull
    <2>. QED
        BY <1>0, <1>3, <2>1 DEF IsPrefix, u
<1>6. Dir(u) = SubSeq(t, 1, k - 1)
    <2>. DEFINE a == SubSeq(u, 1, k - 1)
                b == SubSeq(t, 1, k - 1)
    <2>1. 1 \in 1..(Len(u) + 1) /\ k - 1 \in 0..Len(u)
        BY <1>0, <1>3
    <2>2. /\ a \in Seq(Pieces) /\ Len(a) = (IF 1 <= k - 1 THEN k - 1 - 1 + 1 ELSE 0)
          /\ \A i \in 1..(k - 1 - 1 + 1) : a[i] = u[1 + i - 1]
        BY <1>2, <2>1, PartIs
    <2>3. /\ b \in Seq(Pieces) /\ Len(b) = (IF 1 <= k - 1 THEN k - 1 - 1 + 1 ELSE 0)
          /\ \A i \in 1..(k - 1 - 1 + 1) : b[i] = t[1 + i - 1]
        BY <1>0, <1>1, PartIs
    <2>. HIDE DEF a, b
    <2>4. Len(a) = k - 1 /\ Len(b) = k - 1
        BY <1>0, <2>2, <2>3
    <2>5. ASSUME NEW i \in 1..Len(a) PROVE a[i] = b[i]
        <3>1. i \in 1..(k - 1 - 1 + 1) /\ 1 + i - 1 = i /\ i \in 1..k
            BY <1>0, <2>4
        <3>. QED
            BY <1>3, <2>2, <2>3, <3>1
    <2>6. a \in Seq(Pieces) /\ b \in Seq(Pieces) /\ Len(a) = Len(b)
        BY <2>2, <2>3, <2>4
    <2>7. a = b
        BY <2>5, <2>6, SameList
    <2>. QED
        BY <1>4, <2>7 DEF Dir, a, b
<1>. QED
    BY <1>2, <1>3, <1>4, <1>5, <1>6 DEF u, TEXT

\* What is behind a place, when it has no backslash, or one at its end.
LEMMA BehindIs ==
    ASSUME NEW t \in TEXT, NEW k \in 0..Len(t), NEW m \in {0, Len(t) - k},
           m > 0 => t[Len(t)] = Slash,
           \A j \in 1..Len(t) : j > k /\ (m = 0 \/ j < Len(t)) => t[j] # Slash
    PROVE  LastSlash(SubSeq(t, k + 1, Len(t))) = m /\ Len(SubSeq(t, k + 1, Len(t))) = Len(t) - k
PROOF
<1>. DEFINE u == SubSeq(t, k + 1, Len(t))
<1>0. t \in Seq(Pieces) /\ Len(t) \in Nat
    BY LenProperties DEF TEXT
<1>1. k + 1 \in 1..(Len(t) + 1) /\ Len(t) \in 0..Len(t)
    BY <1>0
<1>2. /\ u \in Seq(Pieces) /\ Len(u) = (IF k + 1 <= Len(t) THEN Len(t) - (k + 1) + 1 ELSE 0)
      /\ \A i \in 1..(Len(t) - (k + 1) + 1) : u[i] = t[k + 1 + i - 1]
    BY <1>0, <1>1, PartIs
<1>. HIDE DEF u
<1>3. Len(u) = Len(t) - k /\ \A i \in 1..Len(u) : u[i] = t[k + i] /\ k + i \in 1..Len(t)
    <2>1. Len(u) = Len(t) - k
        BY <1>0, <1>2
    <2>2. ASSUME NEW i \in 1..Len(u) PROVE u[i] = t[k + i] /\ k + i \in 1..Len(t)
        <3>1. i \in 1..(Len(t) - (k + 1) + 1) /\ k + 1 + i - 1 = k + i /\ k + i \in 1..Len(t)
            BY <1>0, <2>1
        <3>. QED
            BY <1>2, <3>1
    <2>. QED
        BY <2>1, <2>2
<1>4. m \in 0..Len(u) /\ (m > 0 => u[m] = Slash)
    <2>1. CASE m = 0
        BY <1>0, <1>3, <2>1
    <2>2. CASE m # 0
        <3>1. m = Len(t) - k /\ m \in 1..Len(u) /\ k + m = Len(t) /\ m > 0
            BY <1>0, <1>3, <2>2
        <3>. QED
            BY <1>3, <3>1
    <2>. QED
        BY <2>1, <2>2
<1>5. ASSUME NEW j \in 1..Len(u), j > m PROVE u[j] # Slash
    <2>1. k + j \in 1..Len(t) /\ k + j > k /\ (m = 0 \/ k + j < Len(t)) /\ u[j] = t[k + j]
        <3>1. u[j] = t[k + j] /\ k + j \in 1..Len(t)
            BY <1>3
        <3>2. k + j > k /\ (m = 0 \/ k + j < Len(t))
            BY <1>0, <1>3, <1>5
        <3>. QED
            BY <3>1, <3>2
    <2>. QED
        BY <2>1
<1>6. LastSlash(u) = m
    BY <1>2, <1>4, <1>5, LastSlashAt
<1>. QED
    BY <1>3, <1>6 DEF u

\* The directory above, when there is one.
LEMMA ParentIs ==
    ASSUME NEW t \in TEXT
    PROVE  /\ Parent(t) \in TEXT
           /\ PathFileExists(t) /\ Parent(t) # t =>
                 LET left == SubSeq(t, Len(Parent(t)) + 1, Len(t)) IN
                 /\ IsPrefix(Parent(t), t)
                 /\ LastSlash(left) \in {0, Len(left)}
                 /\ PathIsDirectory(Dir(Append(Parent(t), Slash))) \/ PathIsDirectory(Dir(Parent(t)))
                 /\ LastSlash(Parent(t)) \in {0, Len(Parent(t))}
PROOF
<1>. DEFINE n == Len(t)
            L == LastSlash(t)
            f == Front(t)
            K == LastSlash(f)
            p == Parent(t)
            left == SubSeq(t, Len(p) + 1, n)
<1>0. t \in Seq(Pieces) /\ n \in Nat
    BY LenProperties DEF TEXT
<1>1. /\ L \in 0..n /\ (L > 0 => t[L] = Slash)
      /\ \A j \in 1..n : j > L => t[j] # Slash
    BY <1>0, LastSlashIs
<1>2. f = SubSeq(t, 1, n - 1)
    BY DEF Front
<1>3. CASE L = 0
    BY <1>3 DEF Parent
<1>4. CASE L > 0 /\ L < n
    <2>1. p = SubSeq(t, 1, L)
        BY <1>0, <1>1, <1>4 DEF Parent, UpToSlash
    <2>2. L \in 1..n /\ t[L] = Slash
        BY <1>0, <1>1, <1>4
    <2>3. /\ p \in TEXT /\ Len(p) = L /\ IsPrefix(p, t) /\ LastSlash(p) = L
          /\ Dir(p) = SubSeq(t, 1, L - 1)
        <3>. HIDE DEF L, n, p
        <3>. QED
            BY <2>1, <2>2, FrontIs DEF n
    <2>4. LastSlash(left) = 0
        <3>1. L \in 0..n /\ 0 \in {0, n - L} /\ \A j \in 1..n : j > L /\ (0 = 0 \/ j < n) => t[j] # Slash
            BY <1>0, <1>1
        <3>. HIDE DEF L, p
        <3>2. LastSlash(SubSeq(t, L + 1, Len(t))) = 0
            BY <3>1, BehindIs
        <3>. QED
            BY <2>3, <3>2
    <2>5. PathFileExists(t) => PathIsDirectory(Dir(p))
        <3>1. Dir(p) = Dir(t)
            BY <2>3 DEF Dir
        <3>2. PathIsDirectory(t) => PathIsDirectory(Dir(t))
            BY <1>4, TreeAssumption DEF PathIsDirectory
        <3>. QED
            BY <3>1, <3>2 DEF PathFileExists
    <2>. HIDE DEF p, L
    <2>. QED
        BY <2>3, <2>4, <2>5 DEF p
<1>5. CASE L > 0 /\ L = n
    <2>1. n >= 1 /\ t[n] = Slash /\ n \in 1..n
        BY <1>0, <1>1, <1>5
    <2>2. 1 \in 1..(Len(t) + 1) /\ n - 1 \in 0..Len(t)
        BY <1>0, <2>1
    <2>3. /\ SubSeq(t, 1, n - 1) \in Seq(Pieces)
          /\ Len(SubSeq(t, 1, n - 1)) = (IF 1 <= n - 1 THEN n - 1 - 1 + 1 ELSE 0)
          /\ \A i \in 1..(n - 1 - 1 + 1) : SubSeq(t, 1, n - 1)[i] = t[1 + i - 1]
        BY <1>0, <2>2, PartIs
    <2>4. /\ f \in TEXT /\ Len(f) = n - 1 /\ Len(f) \in Nat
          /\ \A i \in 1..(n - 1) : f[i] = t[i]
        <3>. HIDE DEF f
        <3>1. Len(f) = n - 1 /\ Len(f) \in Nat /\ f \in TEXT
            <4>. DEFINE g == SubSeq(t, 1, n - 1)
            <4>1. f = g /\ g \in Seq(Pieces) /\ Len(g) = IF 1 <= n - 1 THEN n - 1 - 1 + 1 ELSE 0
                BY <1>2, <2>3
            <4>. HIDE DEF g, n
            <4>2. Len(g) = n - 1
                BY <1>0, <2>1, <4>1
            <4>3. n - 1 \in Nat
                BY <1>0, <2>1
            <4>. QED
                BY <4>1, <4>2, <4>3 DEF TEXT
        <3>2. \A i \in 1..(n - 1) : i \in 1..(n - 1 - 1 + 1) /\ 1 + i - 1 = i
            BY <1>0, <2>1
        <3>. QED
            BY <1>2, <2>3, <3>1, <3>2
    <2>5. Dir(t) = f
        BY <1>2, <1>5 DEF Dir
    <2>6. PathFileExists(t) => PathIsDirectory(f) /\ K # n - 1
        <3>1. ~PathIsDirectory(t)
            BY <1>5, TreeAssumption DEF PathIsDirectory
        <3>2. PathIsDirectory(f) => LastSlash(f) # Len(f)
            BY TreeAssumption DEF PathIsDirectory
        <3>. HIDE DEF f
        <3>. QED
            BY <2>4, <2>5, <3>1, <3>2 DEF PathFileExists
    <2>7. /\ K \in 0..(n - 1) /\ (K > 0 => f[K] = Slash)
          /\ \A j \in 1..(n - 1) : j > K => f[j] # Slash
        <3>1. f \in Seq(Pieces)
            BY <2>4 DEF TEXT
        <3>. HIDE DEF f
        <3>. QED
            BY <2>4, <3>1, LastSlashIs
    <2>8. \A j \in 1..n : j > K /\ j < n => t[j] # Slash
        <3>. HIDE DEF f, K
        <3>. QED
            BY <1>0, <2>4, <2>7
    <2>9. CASE K = 0
        <3>1. p = f
            BY <1>5, <2>9 DEF Parent
        <3>2. IsPrefix(f, t)
            <4>1. f \in Seq(Pieces)
                BY <2>4 DEF TEXT
            <4>. HIDE DEF f
            <4>2. SubSeq(f, 1, Len(f)) = f
                BY <4>1, SubSeqFull
            <4>. QED
                BY <1>0, <1>2, <2>4, <4>2 DEF IsPrefix
        <3>3. LastSlash(left) = 1 /\ Len(left) = 1
            <4>1. n - 1 \in 0..n /\ 1 \in {0, n - (n - 1)} /\ t[n] = Slash
                  /\ \A j \in 1..n : j > n - 1 /\ (1 = 0 \/ j < n) => t[j] # Slash
                BY <1>0, <2>1
            <4>2. PICK k \in 0..n : k = n - 1 /\ 1 \in {0, n - k} /\ n - k = 1
                  /\ \A j \in 1..n : j > k /\ (1 = 0 \/ j < n) => t[j] # Slash
                BY <1>0, <4>1
            <4>3. LastSlash(SubSeq(t, k + 1, Len(t))) = 1 /\ Len(SubSeq(t, k + 1, Len(t))) = Len(t) - k
                BY <2>1, <4>2, BehindIs
            <4>. HIDE DEF p, f
            <4>. QED
                BY <2>4, <3>1, <4>2, <4>3
        <3>4. Append(f, Slash) = t
            <4>. HIDE DEF f
            <4>. DEFINE a == Append(f, Slash)
            <4>1. f \in Seq(Pieces) /\ Slash \in Pieces
                BY <2>4, TextAssumption DEF TEXT
            <4>2. a \in Seq(Pieces) /\ Len(a) = Len(f) + 1 /\ (\A i \in 1..Len(f) : a[i] = f[i])
                  /\ a[Len(f) + 1] = Slash
                BY <4>1, AppendProperties
            <4>. HIDE DEF a
            <4>3. ASSUME NEW i \in 1..Len(a) PROVE a[i] = t[i]
                <5>1. i = n \/ i \in 1..(n - 1)
                    BY <1>0, <2>4, <4>2
                <5>. QED
                    BY <1>0, <2>1, <2>4, <4>2, <5>1
            <4>4. Len(a) = Len(t)
                BY <1>0, <2>4, <4>2
            <4>5. a = t
                BY <1>0, <4>2, <4>3, <4>4, SameList
            <4>. QED
                BY <4>5 DEF a
        <3>. HIDE DEF p, f
        <3>. QED
            BY <2>4, <2>5, <2>6, <2>9, <3>1, <3>2, <3>3, <3>4 DEF f, p
    <2>10. CASE K > 0
        <3>1. K \in 1..n /\ K < n /\ t[K] = Slash
            <4>. HIDE DEF f, K
            <4>. QED
                BY <1>0, <2>4, <2>7, <2>10
        <3>2. p = SubSeq(f, 1, K)
            <4>1. ~(L = 0) /\ ~(L < n) /\ ~(K = 0)
                <5>. HIDE DEF L, n, K
                <5>. QED
                    BY <1>0, <1>5, <2>10
            <4>2. p = UpToSlash(f)
                BY <4>1 DEF Parent
            <4>. QED
                BY <4>2 DEF UpToSlash
        <3>3. SubSeq(f, 1, K) = SubSeq(t, 1, K)
            <4>1. f \in Seq(Pieces) /\ K \in 0..Len(f) /\ K <= Len(t) /\ t \in TEXT
                BY <2>4, <2>7, <3>1 DEF TEXT
            <4>2. \A k \in 1..K : f[k] = t[k]
                <5>. HIDE DEF f, K
                <5>. QED
                    BY <1>0, <2>4, <3>1
            <4>. HIDE DEF f, K
            <4>. QED
                BY <2>4, <4>1, <4>2, SameFront
        <3>4. /\ SubSeq(t, 1, K) \in TEXT /\ Len(SubSeq(t, 1, K)) = K /\ IsPrefix(SubSeq(t, 1, K), t)
              /\ LastSlash(SubSeq(t, 1, K)) = K
              /\ Dir(SubSeq(t, 1, K)) = SubSeq(t, 1, K - 1)
            <4>. HIDE DEF K
            <4>. QED
                BY <3>1, FrontIs
        <3>5. p \in TEXT /\ Len(p) = K /\ IsPrefix(p, t) /\ LastSlash(p) = K /\ Dir(p) = SubSeq(t, 1, K - 1)
            <4>. HIDE DEF p, K, f
            <4>. QED
                BY <3>2, <3>3, <3>4
        <3>6. LastSlash(left) = Len(left)
            <4>1. K \in 0..n /\ n - K \in {0, n - K}
                BY <1>0, <3>1
            <4>2. \A j \in 1..n : j > K /\ (n - K = 0 \/ j < n) => t[j] # Slash
                <5>. HIDE DEF K
                <5>. QED
                    BY <1>0, <2>8, <3>1
            <4>. HIDE DEF K, p
            <4>3. LastSlash(SubSeq(t, K + 1, Len(t))) = n - K /\ Len(SubSeq(t, K + 1, Len(t))) = Len(t) - K
                BY <2>1, <4>1, <4>2, BehindIs
            <4>. QED
                BY <3>5, <4>3
        <3>7. PathFileExists(t) => PathIsDirectory(Dir(p))
            <4>. SUFFICES ASSUME PathFileExists(t) PROVE PathIsDirectory(Dir(p))
                OBVIOUS
            <4>1. PathIsDirectory(f)
                BY <2>6
            <4>2. PathIsDirectory(Dir(f))
                BY <2>10, <4>1, TreeAssumption DEF PathIsDirectory
            <4>3. Dir(f) = SubSeq(f, 1, K - 1)
                BY DEF Dir
            <4>4. SubSeq(f, 1, K - 1) = SubSeq(t, 1, K - 1)
                <5>1. K - 1 \in 0..Len(f) /\ K - 1 <= Len(t)
                    <6>. HIDE DEF f, K
                    <6>. QED
                        BY <1>0, <2>4, <2>7, <2>10
                <5>2. \A k \in 1..(K - 1) : f[k] = t[k]
                    <6>. HIDE DEF f, K
                    <6>. QED
                        BY <1>0, <2>4, <3>1
                <5>3. PICK k \in 0..Len(f) : k = K - 1 /\ k <= Len(t) /\ \A i \in 1..k : f[i] = t[i]
                    BY <5>1, <5>2
                <5>. HIDE DEF f, K
                <5>4. SubSeq(f, 1, k) = SubSeq(t, 1, k)
                    BY <2>4, <5>3, SameFront
                <5>. QED
                    BY <5>3, <5>4
            <4>. HIDE DEF f, K, p
            <4>. QED
                BY <3>5, <4>2, <4>3, <4>4
        <3>. HIDE DEF p, K
        <3>. QED
            BY <3>5, <3>6, <3>7 DEF p
    <2>11. K = 0 \/ K > 0
        <3>. HIDE DEF K
        <3>. QED
            BY <2>7
    <2>. HIDE DEF K, p
    <2>. QED
        BY <2>9, <2>10, <2>11
<1>6. L = 0 \/ (L > 0 /\ L < n) \/ (L > 0 /\ L = n)
    <2>. HIDE DEF L, n
    <2>. QED
        BY <1>0, <1>1
<1>. HIDE DEF L, p
<1>. QED
    BY <1>3, <1>4, <1>5, <1>6 DEF p

\* A directory is entered by its path with a backslash.
LEMMA EnteredIs ==
    ASSUME NEW t \in TEXT, PathIsDirectory(t)
    PROVE  /\ Append(t, Slash) \in TEXT /\ PathFileExists(Append(t, Slash))
           /\ ~PathIsDirectory(Append(t, Slash))
PROOF
<1>. DEFINE a == Append(t, Slash)
            n == Len(t)
<1>1. t \in Seq(Pieces) /\ Slash \in Pieces /\ n \in Nat
    BY TextAssumption, LenProperties DEF TEXT
<1>2. /\ a \in Seq(Pieces) /\ Len(a) = n + 1 /\ a[n + 1] = Slash
      /\ \A i \in 1..n : a[i] = t[i]
    BY <1>1, AppendProperties
<1>. HIDE DEF a, n
<1>3. LastSlash(a) = n + 1
    <2>1. n + 1 \in 0..Len(a) /\ \A j \in 1..Len(a) : ~(j > n + 1)
        BY <1>1, <1>2
    <2>2. PICK k \in 0..Len(a) : k = n + 1 /\ a[k] = Slash /\ \A j \in 1..Len(a) : ~(j > k)
        BY <1>2, <2>1
    <2>. QED
        BY <1>2, <2>2, LastSlashAt
<1>4. ~PathIsDirectory(a)
    BY <1>2, <1>3, TreeAssumption DEF PathIsDirectory
<1>5. Dir(a) = t
    <2>1. Dir(a) = SubSeq(a, 1, n)
        BY <1>1, <1>3 DEF Dir
    <2>2. SubSeq(a, 1, n) = SubSeq(t, 1, n)
        <3>1. n \in 0..Len(t) /\ n <= Len(a) /\ \A i \in 1..n : t[i] = a[i]
            BY <1>1, <1>2 DEF n
        <3>2. a \in TEXT
            BY <1>2 DEF TEXT
        <3>. QED
            BY <3>1, <3>2, SameFront
    <2>3. SubSeq(t, 1, n) = t
        BY <1>1, SubSeqFull DEF n
    <2>. QED
        BY <2>1, <2>2, <2>3
<1>6. Base(a) = <<>>
    <2>1. Base(a) = SubSeq(a, n + 2, n + 1)
        BY <1>1, <1>2, <1>3 DEF Base
    <2>2. n + 2 \in 1..(Len(a) + 1) /\ n + 1 \in 0..Len(a) /\ ~(n + 2 <= n + 1)
        BY <1>1, <1>2
    <2>3. SubSeq(a, n + 2, n + 1) \in Seq(Pieces) /\ Len(SubSeq(a, n + 2, n + 1)) = 0
        BY <1>2, <2>2, PartIs
    <2>. QED
        BY <2>1, <2>3, EmptySeq
<1>7. a \in TEXT /\ PathFileExists(a)
    BY <1>2, <1>5, <1>6 DEF TEXT, PathFileExists
<1>. QED
    BY <1>4, <1>7 DEF a

\* The item in the frame.
LEMMA ChosenIs ==
    ASSUME IInv, selected < Len(curr_results)
    PROVE  Chosen \in ITEM /\ Chosen.show \in TEXT
PROOF
<1>1. curr_results \in Seq(ITEM) /\ selected \in Nat /\ Len(curr_results) \in Nat
    BY LenProperties DEF IInv, HoldItems, InList
<1>2. selected + 1 \in 1..Len(curr_results)
    BY <1>1
<1>3. curr_results[selected + 1] \in ITEM
    BY <1>1, <1>2, ElementOfSeq
<1>. QED
    BY <1>3 DEF Chosen, ITEM

\* The text that Right leads to, and Left.
LEMMA RightIs ==
    ASSUME IInv, Right
    PROVE  \E t \in TEXT : SetWindowText(t) /\ PathFileExists(t) /\ ~PathIsDirectory(t)
PROOF
<1>1. selected < Len(curr_results)
    BY DEF Right, IInv, InList
<1>2. Chosen.show \in TEXT /\ PathFileExists(Chosen.show)
    BY <1>1, ChosenIs DEF Right
<1>3. SetWindowText(IF PathIsDirectory(Chosen.show) THEN Append(Chosen.show, Slash) ELSE Chosen.show)
    BY DEF Right
<1>. QED
    BY <1>2, <1>3, EnteredIs

\* What runs is what its line means.
LEMMA LaunchRuns ==
    ASSUME IInv, launch
    PROVE  RunsAsTyped'
PROOF
<1>. DEFINE Run(line, command, mru) ==
                {[line |-> line, cmd |-> command.cmd, args |-> command.args, mru |-> mru]}
            Right1(run) ==
                LET args == IF run.args = <<>> THEN <<>> ELSE Head(run.args)
                IN  ~IsPrefix(<<Blank>>, args) /\ Means(run.line, run.cmd, args)
<1>1. \/ selected < Len(curr_results) /\ ran' = Run(Chosen.show, Chosen, Chosen.mru)
      \/ text # <<>> /\ ran' = Run(text, crack_args(text), TRUE)
      \/ ran' = ran
    BY DEF launch
<1>2. CASE selected < Len(curr_results) /\ ran' = Run(Chosen.show, Chosen, Chosen.mru)
    <2>1. Chosen \in ITEM /\ Chosen.show \in TEXT
        BY <1>2, ChosenIs
    <2>2. Chosen.mru => crack_args(Chosen.show) = [cmd |-> Chosen.cmd, args |-> Chosen.args]
        BY <2>1 DEF ITEM
    <2>3. ASSUME Chosen.mru
          PROVE  /\ ~IsPrefix(<<Blank>>, ArgsOf(Chosen.args))
                 /\ Means(Chosen.show, Chosen.cmd, ArgsOf(Chosen.args))
        BY <2>1, <2>2, <2>3, CrackMeans
    <2>4. ASSUME NEW run \in ran', run.mru PROVE Right1(run)
        <3>1. run = [line |-> Chosen.show, cmd |-> Chosen.cmd, args |-> Chosen.args, mru |-> Chosen.mru]
            BY <1>2
        <3>2. /\ run.line = Chosen.show /\ run.cmd = Chosen.cmd
              /\ run.args = Chosen.args /\ run.mru = Chosen.mru
            BY <3>1
        <3>. QED
            BY <2>3, <2>4, <3>2 DEF ArgsOf
    <2>. QED
        BY <2>4 DEF RunsAsTyped
<1>3. CASE text # <<>> /\ ran' = Run(text, crack_args(text), TRUE)
    <2>1. text \in TEXT
        BY DEF IInv, HoldItems
    <2>2. /\ ~IsPrefix(<<Blank>>, ArgsOf(crack_args(text).args))
          /\ Means(text, crack_args(text).cmd, ArgsOf(crack_args(text).args))
        BY <2>1, CrackMeans
    <2>3. ASSUME NEW run \in ran' PROVE Right1(run)
        <3>1. run.line = text /\ run.cmd = crack_args(text).cmd /\ run.args = crack_args(text).args
            BY <1>3
        <3>. QED
            BY <2>2, <3>1 DEF ArgsOf
    <2>. QED
        BY <2>3 DEF RunsAsTyped
<1>4. CASE ran' = ran
    BY <1>4 DEF IInv, RunsAsTyped
<1>. QED
    BY <1>1, <1>2, <1>3, <1>4

LEMMA InvStep ==
    IInv /\ [Next]_vars => IInv'
PROOF
<1>. SUFFICES ASSUME IInv, [Next]_vars PROVE IInv'
    OBVIOUS
<1>1. text \in TEXT /\ selected \in Nat /\ curr_results \in Seq(ITEM) /\ Len(curr_results) \in Nat
      /\ (curr_results # <<>> => selected < Len(curr_results))
    BY LenProperties DEF IInv, HoldItems, InList
<1>2. CASE show_launcher
    BY <1>2, ShowKeeps
<1>3. CASE Escape
    <2>1. DestroyWindow /\ ran' = ran
        BY <1>3 DEF Escape
    <2>2. RunsAsTyped'
        BY <2>1 DEF IInv, RunsAsTyped
    <2>. QED
        BY <2>1, <2>2, DestroyKeeps
<1>4. CASE launch
    <2>1. DestroyWindow
        BY <1>4 DEF launch
    <2>. QED
        BY <1>4, <2>1, LaunchRuns, DestroyKeeps
<1>5. ASSUME NEW t \in Typed, Type(t) PROVE IInv'
    <2>1. t \in TEXT /\ SetWindowText(t)
        BY <1>5, TextAssumption DEF Type
    <2>. QED
        BY <2>1, NewTextKeeps
<1>6. CASE Up
    <2>1. /\ Move(selected - 1) /\ open /\ selected - 1 \in Nat
          /\ selected - 1 < Len(curr_results)
        BY <1>1, <1>6 DEF Up
    <2>. QED
        BY <2>1, MoveKeeps
<1>7. CASE Down
    <2>1. /\ Move(selected + 1) /\ open /\ selected + 1 \in Nat
          /\ selected + 1 < Len(curr_results)
        BY <1>1, <1>7 DEF Down
    <2>. QED
        BY <2>1, MoveKeeps
<1>8. CASE Right
    BY <1>8, RightIs, NewTextKeeps
<1>9. CASE Left
    <2>1. Parent(text) \in TEXT /\ SetWindowText(Parent(text))
        BY <1>1, <1>9, ParentIs DEF Left
    <2>. QED
        BY <2>1, NewTextKeeps
<1>10. ASSUME NEW s \in searches, Find(s) PROVE IInv'
    BY <1>10, FindKeeps
<1>11. ASSUME NEW s \in searches, FindMatchEnds(s) PROVE IInv'
    BY <1>11, EndKeeps
<1>12. CASE OnResults
    BY <1>12, ResultsKeep
<1>13. CASE Paint
    BY <1>13, PaintKeeps
<1>14. CASE UNCHANGED vars
    <2>1. /\ execs' = execs /\ text' = text /\ rid' = rid /\ last_rid' = last_rid
          /\ searches' = searches /\ messages' = messages /\ open' = open
          /\ curr_results' = curr_results /\ selected' = selected /\ dirty' = dirty
          /\ painted' = painted /\ ran' = ran
        BY <1>14 DEF vars
    <2>2. Candidates(text)' = Candidates(text)
        <3>1. Candidates(text)' = Candidates(text')
            BY <2>1, CandidatesStay
        <3>. QED
            BY <2>1, <3>1
    <2>3. (HoldItems /\ Numbered /\ InList /\ Destroyed)'
        BY <2>1 DEF IInv, HoldItems, Numbered, InList, Destroyed
    <2>4. (NewestSearched /\ NewestPosted /\ NewestSomewhere)'
        BY <2>1, <2>2 DEF IInv, NewestSearched, NewestPosted, NewestSomewhere
    <2>5. (Shown /\ RunsAsTyped)'
        BY <2>1 DEF IInv, Shown, RunsAsTyped
    <2>. QED
        BY <2>3, <2>4, <2>5 DEF IInv
<1>. QED
    BY <1>2, <1>3, <1>4, <1>5, <1>6, <1>7, <1>8, <1>9, <1>10, <1>11, <1>12, <1>13, <1>14
       DEF Next

\* The searches, the messages, the list and the rows fit each other in every state
\* (launcher.cpp): whatever the order in which searches end and their results are
\* read, the newest one is under way, posted or in the window.
THEOREM Invariance == Spec => []IInv
PROOF
<1>1. Init => IInv
    BY InvInit
<1>2. IInv /\ [Next]_vars => IInv'
    BY InvStep
<1>. QED
    BY <1>1, <1>2, PTL DEF Spec

\* When the searches are over the list has each program that matches the text once,
\* weighed with the text that is in the window then, and in order (launcher.cpp,
\* add_to_results, find_match, WM_USER).
THEOREM SettledAlwaysRanked == Spec => []SettledIsRanked
PROOF
<1>1. IInv => SettledIsRanked
    <2>. SUFFICES ASSUME IInv, Settled PROVE SettledIsRanked
        BY DEF SettledIsRanked
    <2>. DEFINE C == Candidates(text)
                Weighed == {calc_item_weight(C[i], text) : i \in DOMAIN C}
                list == [i \in DOMAIN curr_results |-> [curr_results[i] EXCEPT !.icon = <<>>]]
                Listed(item) == \E i \in DOMAIN list : list[i] = [item EXCEPT !.icon = <<>>]
    <2>1. open /\ searches = {} /\ messages = <<>>
        BY DEF Settled
    <2>2. Complete(curr_results, C, text)
        BY <2>1 DEF IInv, NewestSomewhere
    <2>3. /\ curr_results \in Seq(ITEM) /\ C \in Seq(ITEM)
        BY CandidatesAre DEF IInv, HoldItems
    <2>. HIDE DEF C
    <2>4. /\ DOMAIN curr_results = 1..Len(curr_results) /\ Len(curr_results) \in Nat
          /\ DOMAIN C = 1..Len(C)
          /\ \A i \in DOMAIN curr_results : curr_results[i] \in ITEM
          /\ \A n \in DOMAIN C : C[n] \in ITEM
        BY <2>3, LenProperties, ElementOfSeq
    <2>5. /\ DOMAIN list = DOMAIN curr_results
          /\ \A i \in DOMAIN list : list[i] = Bare(curr_results[i])
        BY DEF Bare
    <2>. HIDE DEF list
    <2>6. \A i \in DOMAIN list : /\ list[i].show = curr_results[i].show
                                 /\ list[i].cmd = curr_results[i].cmd
                                 /\ list[i].args = curr_results[i].args
                                 /\ list[i].weight = curr_results[i].weight
        <3>1. \A a \in ITEM : /\ Bare(a).show = a.show /\ Bare(a).cmd = a.cmd
                              /\ Bare(a).args = a.args /\ Bare(a).weight = a.weight
            BY DEF Bare, ITEM
        <3>. QED
            BY <2>4, <2>5, <3>1
    <2>7. /\ \A n \in DOMAIN C : \E i \in DOMAIN list :
                 \/ list[i] = Bare(calc_item_weight(C[n], text))
                 \/ SameProgram(curr_results[i], C[n])
          /\ \A i \in DOMAIN list : \E n \in DOMAIN C : list[i] = Bare(calc_item_weight(C[n], text))
          /\ \A i, j \in DOMAIN list : i # j => ~SameProgram(curr_results[i], curr_results[j])
          /\ \A i, j \in DOMAIN list : i < j => ~compare_items(curr_results[j], curr_results[i])
        BY <2>2, <2>4, <2>5 DEF Complete, Represents, InOrder
    <2>8. ASSUME NEW item \in Weighed PROVE Listed(item) \/ \E i \in DOMAIN list : SameProgram(list[i], item)
        <3>1. PICK n \in DOMAIN C : item = calc_item_weight(C[n], text)
            OBVIOUS
        <3>2. item.cmd = C[n].cmd /\ item.args = C[n].args
            BY <2>4, <3>1, WeighedIs
        <3>3. PICK i \in DOMAIN list : \/ list[i] = Bare(item)
                                       \/ SameProgram(curr_results[i], C[n])
            BY <2>7, <3>1
        <3>4. CASE list[i] = Bare(item)
            BY <3>4 DEF Bare
        <3>5. CASE SameProgram(curr_results[i], C[n])
            <4>1. SameProgram(list[i], item)
                BY <2>6, <3>2, <3>5 DEF SameProgram
            <4>. QED
                BY <4>1
        <3>. QED
            BY <3>3, <3>4, <3>5
    <2>9. ASSUME NEW i \in DOMAIN list PROVE \E item \in Weighed : list[i] = [item EXCEPT !.icon = <<>>]
        BY <2>7 DEF Bare
    <2>10. ASSUME NEW i \in DOMAIN list, NEW j \in DOMAIN list, i < j
           PROVE  ~SameProgram(list[i], list[j]) /\ ~compare_items(list[j], list[i])
        <3>1. i # j
            BY <2>4, <2>5, <2>10
        <3>2. ~SameProgram(curr_results[i], curr_results[j]) /\ ~compare_items(curr_results[j], curr_results[i])
            BY <2>7, <2>10, <3>1
        <3>3. ~SameProgram(list[i], list[j])
            BY <2>6, <3>2 DEF SameProgram
        <3>4. ~compare_items(list[j], list[i])
            BY <2>6, <3>2 DEF compare_items
        <3>. QED
            BY <3>3, <3>4
    <2>. QED
        BY <2>8, <2>9, <2>10 DEF SettledIsRanked, list, C
<1>. QED
    BY <1>1, Invariance, PTL

\* The item that Enter would run is painted, in the frame, and each row has its icon
\* (launcher.cpp, first_offset and WM_PAINT).
THEOREM SelectedAlwaysShown == Spec => []SelectedIsShown
PROOF
<1>1. IInv => SelectedIsShown
    <2>. SUFFICES ASSUME IInv PROVE SelectedIsShown
        OBVIOUS
    <2>1. TypeOK
        BY DEF IInv, Numbered, InList, Destroyed, TypeOK
    <2>2. open /\ ~dirty /\ curr_results # <<>> => Framed(curr_results, painted, selected)
        BY DEF IInv, Shown
    <2>. QED
        BY <2>1, <2>2 DEF SelectedIsShown, Framed, Nowhere, Chosen
<1>. QED
    BY <1>1, Invariance, PTL

\* A command of RunMRU, or one that was typed, runs as its line means it, quotes and
\* blanks and all (launcher.cpp, crack_args and launch).
THEOREM RunsAlwaysAsTyped == Spec => []RunsAsTyped
PROOF
<1>1. IInv => RunsAsTyped
    BY DEF IInv
<1>. QED
    BY <1>1, Invariance, PTL

\* Left leads to the directory above and Right to what is there (launcher.cpp, VK_LEFT
\* and VK_RIGHT).
THEOREM KeysAlwaysWalk == Spec => KeysWalkDirectories
PROOF
<1>. DEFINE Walks ==
        /\ Left /\ text' # text =>
              LET left == SubSeq(text, Len(text') + 1, Len(text)) IN
              /\ IsPrefix(text', text)
              /\ LastSlash(left) \in {0, Len(left)}
              /\ PathIsDirectory(Dir(Append(text', Slash))) \/ PathIsDirectory(Dir(text'))
              /\ LastSlash(text') \in {0, Len(text')}
        /\ Right => /\ PathFileExists(text')
                    /\ ~PathIsDirectory(text')
<1>1. IInv => Walks
    <2>. SUFFICES ASSUME IInv PROVE Walks
        OBVIOUS
    <2>1. text \in TEXT
        BY DEF IInv, HoldItems
    <2>2. ASSUME Left PROVE text' = Parent(text) /\ PathFileExists(text)
        BY <2>2 DEF Left, SetWindowText
    <2>3. ASSUME Right PROVE PathFileExists(text') /\ ~PathIsDirectory(text')
        <3>1. PICK t \in TEXT : SetWindowText(t) /\ PathFileExists(t) /\ ~PathIsDirectory(t)
            BY <2>3, RightIs
        <3>2. text' = t
            BY <3>1 DEF SetWindowText
        <3>. QED
            BY <3>1, <3>2
    <2>. QED
        BY <2>1, <2>2, <2>3, ParentIs
<1>2. IInv /\ [Next]_vars => [Walks]_vars
    BY <1>1
<1>. QED
    BY <1>2, Invariance, PTL DEF Spec, KeysWalkDirectories
=============================================================================
