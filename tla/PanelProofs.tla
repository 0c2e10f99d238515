---------------------------- MODULE PanelProofs ----------------------------
(***************************************************************************)
(* The plugins of a slit are whole, for any icons, texts, windows and      *)
(* files, whichever of them a configuration loads.                         *)
(*                                                                         *)
(* The invariant adds to the properties what the handlers rely on: the     *)
(* plugin's copy of an icon claims no flag that the core's has not, an     *)
(* icon that is gone is blank in both, and a tool tip is only registered   *)
(* for an icon that has a tip.  With these recalc, which looks at what it  *)
(* registered before, puts every tool tip in its place.  The flasher and   *)
(* the bar need no more than the types; the clock nothing.                 *)
(***************************************************************************)
EXTENDS Panel, FiniteSetTheorems, SequenceTheorems, WellFoundedInduction, TLAPS

-----------------------------------------------------------------------------
(* Sequences in which nothing is twice.                                    *)
Once(s) == \A i, j \in 1..Len(s) : s[i] = s[j] => i = j

LEMMA SeqRange ==
    ASSUME NEW S, NEW s \in Seq(S)
    PROVE  /\ Len(s) \in Nat /\ DOMAIN s = 1..Len(s) /\ Range(s) \subseteq S
           /\ \A n \in 1..Len(s) : s[n] \in Range(s) /\ s[n] \in S
           /\ \A e \in Range(s) : \E n \in 1..Len(s) : s[n] = e
<1>1. Len(s) \in Nat /\ DOMAIN s = 1..Len(s) /\ \A n \in 1..Len(s) : s[n] \in S
  BY LenProperties, ElementOfSeq
<1> QED BY <1>1 DEF Range

LEMMA Removed ==
    ASSUME NEW S, NEW s \in Seq(S), NEW i \in 1..Len(s)
    PROVE  /\ RemoveAt(s, i) \in Seq(S)
           /\ Len(RemoveAt(s, i)) = Len(s) - 1
           /\ \A k \in 1..(Len(s) - 1) :
                 RemoveAt(s, i)[k] = IF k < i THEN s[k] ELSE s[k + 1]
<1> DEFINE a == SubSeq(s, 1, i - 1)
           b == SubSeq(s, i + 1, Len(s))
<1>1. Len(s) \in Nat /\ i \in Int /\ \A k \in 1..Len(s) : s[k] \in S
  BY LenProperties, ElementOfSeq
<1>2. a \in Seq(S) /\ Len(a) = i - 1 /\ \A k \in 1..(i - 1) : a[k] = s[k]
  <2>1. \A k \in 1..(i - 1) : s[k] \in S
    BY <1>1
  <2>2. /\ a \in Seq(S)
        /\ Len(a) = (IF 1 <= i - 1 THEN i - 1 - 1 + 1 ELSE 0)
        /\ \A k \in 1..(i - 1 - 1 + 1) : a[k] = s[1 + k - 1]
    BY <2>1, <1>1, SubSeqProperties
  <2> QED BY <2>2, <1>1
<1>3. b \in Seq(S) /\ Len(b) = Len(s) - i /\ \A k \in 1..(Len(s) - i) : b[k] = s[i + k]
  <2>1. \A k \in (i + 1)..Len(s) : s[k] \in S
    BY <1>1
  <2>2. /\ b \in Seq(S)
        /\ Len(b) = (IF i + 1 <= Len(s) THEN Len(s) - (i + 1) + 1 ELSE 0)
        /\ \A k \in 1..(Len(s) - (i + 1) + 1) : b[k] = s[i + 1 + k - 1]
    BY <2>1, <1>1, SubSeqProperties
  <2> QED BY <2>2, <1>1
<1>4. /\ a \o b \in Seq(S) /\ Len(a \o b) = Len(a) + Len(b)
      /\ \A k \in 1..(Len(a) + Len(b)) :
            (a \o b)[k] = IF k <= Len(a) THEN a[k] ELSE b[k - Len(a)]
  BY <1>2, <1>3, ConcatProperties
<1>5. RemoveAt(s, i) = a \o b
  BY DEF RemoveAt
<1> HIDE DEF a, b
<1>6. ASSUME NEW k \in 1..(Len(s) - 1)
      PROVE  (a \o b)[k] = IF k < i THEN s[k] ELSE s[k + 1]
  <2>1. CASE k < i
    BY <1>1, <1>2, <1>3, <1>4, <2>1
  <2>2. CASE ~(k < i)
    <3>1. k - Len(a) \in 1..(Len(s) - i) /\ i + (k - Len(a)) = k + 1
      BY <1>1, <1>2, <2>2
    <3>2. b[k - Len(a)] = s[k + 1]
      BY <1>3, <3>1
    <3>3. (a \o b)[k] = b[k - Len(a)]
      BY <1>1, <1>2, <1>3, <1>4, <2>2
    <3> QED BY <2>2, <3>2, <3>3
  <2> QED BY <2>1, <2>2
<1> QED BY <1>1, <1>2, <1>3, <1>4, <1>5, <1>6

LEMMA ElemsIs ==
    ASSUME NEW S, NEW s \in Seq(S)
    PROVE  /\ Elems(s) \subseteq S /\ \A n \in 1..Len(s) : s[n] \in Elems(s)
           /\ \A e \in Elems(s) : \E n \in 1..Len(s) : s[n] = e
BY SeqRange DEF Elems

LEMMA IndexIs ==
    ASSUME NEW S, NEW s \in Seq(S), NEW k \in Elems(s)
    PROVE  IndexIn(s, k) \in 1..Len(s) /\ s[IndexIn(s, k)] = k
<1>1. \E i \in DOMAIN s : s[i] = k
  BY ElemsIs, SeqRange
<1>2. IndexIn(s, k) \in DOMAIN s /\ s[IndexIn(s, k)] = k
  BY <1>1 DEF IndexIn
<1> QED BY <1>2, SeqRange

(* What a removal and an addition at the end leave of a list.              *)
RemovedFrom(s, t, i) ==
    /\ Len(t) = Len(s) - 1
    /\ \A n \in 1..Len(t) : t[n] = IF n < i THEN s[n] ELSE s[n + 1]

LEMMA RemovedOnce ==
    ASSUME NEW S, NEW s \in Seq(S), NEW t \in Seq(S), NEW i \in 1..Len(s),
           RemovedFrom(s, t, i), Once(s)
    PROVE  /\ Once(t)
           /\ \A e \in Elems(t) : e \in Elems(s) /\ e # s[i]
           /\ \A e \in Elems(s) : e = s[i] \/ e \in Elems(t)
<1>1. Len(s) \in Nat /\ Len(t) \in Nat /\ Len(t) = Len(s) - 1 /\ i \in Nat
  BY SeqRange DEF RemovedFrom
<1> DEFINE at(n) == IF n < i THEN n ELSE n + 1
<1>2. \A n \in 1..Len(t) : at(n) \in 1..Len(s) /\ at(n) # i /\ t[n] = s[at(n)]
  BY <1>1 DEF RemovedFrom
<1>3. \A m, n \in 1..Len(t) : at(m) = at(n) => m = n
  BY <1>1
<1>4. \A n \in 1..Len(s) : n = i \/ \E m \in 1..Len(t) : at(m) = n
  <2> SUFFICES ASSUME NEW n \in 1..Len(s), n # i
               PROVE  \E m \in 1..Len(t) : at(m) = n
    OBVIOUS
  <2>1. CASE n < i
    <3>1. n \in 1..Len(t) /\ at(n) = n
      BY <1>1, <2>1
    <3> QED BY <3>1
  <2>2. CASE ~(n < i)
    <3>1. n - 1 \in 1..Len(t) /\ at(n - 1) = n
      BY <1>1, <2>2
    <3> QED BY <3>1
  <2> QED BY <2>1, <2>2
<1> HIDE DEF at
<1>5. Once(t)
  BY <1>2, <1>3 DEF Once
<1>6. \A e \in Elems(t) : e \in Elems(s) /\ e # s[i]
  <2> SUFFICES ASSUME NEW e \in Elems(t) PROVE e \in Elems(s) /\ e # s[i]
    OBVIOUS
  <2>1. PICK n \in 1..Len(t) : t[n] = e
    BY ElemsIs
  <2>2. at(n) \in 1..Len(s) /\ at(n) # i /\ e = s[at(n)]
    BY <1>2, <2>1
  <2>3. e \in Elems(s)
    BY <2>2, ElemsIs
  <2> QED BY <2>2, <2>3 DEF Once
<1>7. \A e \in Elems(s) : e = s[i] \/ e \in Elems(t)
  <2> SUFFICES ASSUME NEW e \in Elems(s), e # s[i] PROVE e \in Elems(t)
    OBVIOUS
  <2>1. PICK n \in 1..Len(s) : s[n] = e
    BY ElemsIs
  <2>2. PICK m \in 1..Len(t) : at(m) = n
    BY <1>4, <2>1
  <2>3. t[m] = e
    BY <1>2, <2>1, <2>2
  <2> QED BY <2>3, ElemsIs
<1> QED BY <1>5, <1>6, <1>7

LEMMA AppendOnce ==
    ASSUME NEW S, NEW s \in Seq(S), NEW e \in S, Once(s)
    PROVE  /\ Append(s, e) \in Seq(S) /\ Elems(Append(s, e)) = Elems(s) \cup {e}
           /\ e \notin Elems(s) => Once(Append(s, e))
           /\ \A n \in 1..Len(s) : n \in 1..Len(Append(s, e)) /\ Append(s, e)[n] = s[n]
<1> DEFINE t == Append(s, e)
<1>1. /\ t \in Seq(S) /\ Len(t) = Len(s) + 1 /\ Len(s) \in Nat
      /\ \A n \in 1..Len(s) : t[n] = s[n]
      /\ t[Len(s) + 1] = e
  BY AppendProperties, SeqRange
<1> HIDE DEF t
<1>2. \A n \in 1..Len(t) : n \in 1..Len(s) \/ n = Len(s) + 1
  BY <1>1
<1>3. \A n \in 1..Len(s) : n \in 1..Len(t)
  BY <1>1
<1>4. Len(s) + 1 \in 1..Len(t)
  BY <1>1
<1>5. \A n \in 1..Len(s) : s[n] \in Elems(s)
  BY ElemsIs
<1>6. \A x \in Elems(t) : x \in Elems(s) \cup {e}
  <2> SUFFICES ASSUME NEW x \in Elems(t) PROVE x \in Elems(s) \cup {e}
    OBVIOUS
  <2>1. PICK n \in 1..Len(t) : t[n] = x
    BY <1>1, ElemsIs
  <2> QED BY <1>1, <1>2, <1>5, <2>1
<1>7. \A n \in 1..Len(t) : t[n] \in Elems(t)
  BY <1>1, ElemsIs
<1>8. \A x \in Elems(s) : \E n \in 1..Len(s) : s[n] = x
  BY ElemsIs
<1>9. \A x \in Elems(s) \cup {e} : x \in Elems(t)
  BY <1>1, <1>3, <1>4, <1>7, <1>8
<1>10. e \notin Elems(s) => Once(t)
  BY <1>1, <1>2, <1>5 DEF Once
<1> QED BY <1>1, <1>3, <1>6, <1>9, <1>10 DEF t

LEMMA WithoutOnce ==
    ASSUME NEW S, NEW s \in Seq(S), NEW k, Once(s)
    PROVE  /\ Without(s, k) \in Seq(S) /\ Once(Without(s, k))
           /\ Elems(Without(s, k)) = Elems(s) \ {k}
           /\ k \notin Elems(s) => Without(s, k) = s
<1>1. CASE k \notin Elems(s)
  BY <1>1 DEF Without
<1>2. CASE k \in Elems(s)
  <2> DEFINE i == IndexIn(s, k)
             t == RemoveAt(s, i)
  <2>1. i \in 1..Len(s) /\ s[i] = k
    BY <1>2, IndexIs
  <2>2. Without(s, k) = t
    BY <1>2 DEF Without
  <2> HIDE DEF i
  <2>3. /\ t \in Seq(S) /\ Len(t) = Len(s) - 1
        /\ \A n \in 1..(Len(s) - 1) : t[n] = IF n < i THEN s[n] ELSE s[n + 1]
    BY <2>1, Removed
  <2> HIDE DEF t
  <2>4. RemovedFrom(s, t, i)
    BY <2>3 DEF RemovedFrom
  <2>5. Once(t) /\ Elems(t) = Elems(s) \ {k}
    BY <2>1, <2>3, <2>4, RemovedOnce
  <2> QED BY <1>2, <2>2, <2>3, <2>5
<1> QED BY <1>1, <1>2

-----------------------------------------------------------------------------
(* The tray's plugin.  What its tools, tool tips and balloons are, given   *)
(* the core's list s and data n; tool tips are in place but between the    *)
(* change of an icon and recalc.                                           *)
TipKnown(p) == \A k \in Icons : p.tip[k] # 0 => "TIP" \in p.data[k].flags
Tips(p) == \A k \in Icons : p.tip[k] =
              IF Visible(p, k) /\ "TIP" \in p.data[k].flags THEN Place(p, k) ELSE 0
Balloons(p) == Once(p.balloons) /\ Elems(p.balloons) \subseteq Elems(p.tools)
FlagsKnown(p, n) == \A k \in Icons : p.data[k].flags \subseteq n[k].flags
Absent(p) == \A k \in Icons : k \notin Elems(p.tools) => p.data[k] = Blank
Sound(p, s, n) == /\ p \in PlugType /\ p.tools = s /\ Once(s) /\ Balloons(p)
                  /\ FlagsKnown(p, n) /\ Absent(p) /\ TipKnown(p)
Good(p, s, n) == Sound(p, s, n) /\ Tips(p)

LEMMA PlugFields ==
    ASSUME NEW p \in PlugType
    PROVE  /\ p.tools \in Seq(Icons) /\ p.data \in [Icons -> Data] /\ p.tip \in [Icons -> Nat]
           /\ p.balloons \in Seq(Icons) /\ p.due \in SUBSET Icons /\ p.shown \in BOOLEAN
BY DEF PlugType

LEMMA DataFields ==
    ASSUME NEW d \in Data
    PROVE  /\ d.flags \in SUBSET {"TIP", "INFO"} /\ d.icon \in Pictures \cup {None}
           /\ d.hidden \in BOOLEAN /\ d.text \in Texts \cup {None}
BY DEF Data

LEMMA BlankType == Blank \in Data /\ Blank.flags = {}
BY DEF Blank, Data

LEMMA PlaceType ==
    ASSUME NEW p \in PlugType, NEW k \in Icons
    PROVE  Place(p, k) \in Nat
<1>1. CASE ~Visible(p, k)
  BY <1>1 DEF Place
<1>2. CASE Visible(p, k)
  <2> DEFINE I == {j \in 1..IndexIn(p.tools, k) : ~p.data[p.tools[j]].hidden}
  <2>1. p.tools \in Seq(Icons) /\ k \in Elems(p.tools)
    BY <1>2, PlugFields DEF Visible
  <2>2. IndexIn(p.tools, k) \in Nat
    <3>1. IndexIn(p.tools, k) \in 1..Len(p.tools) /\ Len(p.tools) \in Nat
      BY <2>1, IndexIs, SeqRange
    <3> QED BY <3>1
  <2>3. IsFiniteSet(1..IndexIn(p.tools, k)) /\ I \subseteq 1..IndexIn(p.tools, k)
    BY <2>2, FS_Interval
  <2> HIDE DEF I
  <2>4. Cardinality(I) \in Nat
    BY <2>3, FS_Subset, FS_CardinalityType
  <2> QED BY <1>2, <2>4 DEF Place, I
<1> QED BY <1>1, <1>2

(* The place of an icon depends on the icons up to it only.                *)
SameUpTo(p, q, k) ==
    /\ k \in Elems(q.tools) /\ IndexIn(q.tools, k) = IndexIn(p.tools, k)
    /\ \A j \in 1..IndexIn(p.tools, k) :
          /\ q.tools[j] = p.tools[j]
          /\ q.data[p.tools[j]].hidden <=> p.data[p.tools[j]].hidden

LEMMA PlaceSame ==
    ASSUME NEW p, NEW q, NEW k \in Icons, k \in Elems(p.tools), SameUpTo(p, q, k),
           q.data[k].hidden <=> p.data[k].hidden
    PROVE  Place(q, k) = Place(p, k) /\ (Visible(q, k) <=> Visible(p, k))
<1> DEFINE I == {j \in 1..IndexIn(p.tools, k) : ~p.data[p.tools[j]].hidden}
           J == {j \in 1..IndexIn(q.tools, k) : ~q.data[q.tools[j]].hidden}
<1>1. I = J
  BY Zenon DEF SameUpTo
<1>2. Visible(q, k) <=> Visible(p, k)
  BY Zenon DEF SameUpTo, Visible
<1>3. Place(q, k) = (IF ~Visible(q, k) THEN 0 ELSE Cardinality(J))
      /\ Place(p, k) = (IF ~Visible(p, k) THEN 0 ELSE Cardinality(I))
  BY DEF Place
<1> HIDE DEF I, J
<1> QED BY <1>1, <1>2, <1>3

LEMMA SameTools ==
    ASSUME NEW p \in PlugType, NEW q, q.tools = p.tools, NEW k \in Icons,
           \A j \in Icons : q.data[j].hidden <=> p.data[j].hidden
    PROVE  Place(q, k) = Place(p, k) /\ (Visible(q, k) <=> Visible(p, k))
<1>1. CASE k \in Elems(p.tools)
  <2>1. p.tools \in Seq(Icons)
    BY PlugFields
  <2>2. IndexIn(p.tools, k) \in 1..Len(p.tools) /\ Len(p.tools) \in Nat
    BY <1>1, <2>1, IndexIs, SeqRange
  <2>3. \A j \in 1..IndexIn(p.tools, k) : j \in 1..Len(p.tools)
    BY <2>2
  <2>4. \A j \in 1..IndexIn(p.tools, k) : p.tools[j] \in Icons
    BY <2>1, <2>3, SeqRange
  <2>5. SameUpTo(p, q, k)
    BY <1>1, <2>4, Zenon DEF SameUpTo
  <2> QED BY <1>1, <2>5, PlaceSame
<1>2. CASE k \notin Elems(p.tools)
  BY <1>2 DEF Place, Visible
<1> QED BY <1>1, <1>2

LEMMA RecalcGood ==
    ASSUME NEW p, NEW s, NEW n, Sound(p, s, n)
    PROVE  Good(recalc(p), s, n)
<1> DEFINE wants(k) == (p.tip[k] # 0 /\ p.tip[k] # Place(p, k)) \/ "TIP" \in p.data[k].flags
           tip == [k \in Icons |-> IF wants(k) THEN Place(p, k) ELSE 0]
           q == [p EXCEPT !.tip = tip]
<1>1. recalc(p) = q
  BY DEF recalc
<1>2. p \in PlugType
  BY DEF Sound
<1>3. \A k \in Icons : wants(k) <=> "TIP" \in p.data[k].flags
  BY DEF Sound, TipKnown
<1>4. tip \in [Icons -> Nat]
  BY <1>2, PlaceType
<1>5. \A k \in Icons : tip[k] = IF wants(k) THEN Place(p, k) ELSE 0
  OBVIOUS
<1> HIDE DEF tip, wants
<1>6. /\ q \in PlugType /\ q.tools = p.tools /\ q.data = p.data /\ q.tip = tip
      /\ q.balloons = p.balloons
  BY <1>2, <1>4 DEF PlugType
<1> HIDE DEF q
<1>7. \A k \in Icons : Place(q, k) = Place(p, k) /\ (Visible(q, k) <=> Visible(p, k))
  BY <1>2, <1>6, SameTools
<1>8. \A k \in Icons : ~Visible(p, k) => Place(p, k) = 0
  BY DEF Place
<1>9. Tips(q)
  <2> SUFFICES ASSUME NEW k \in Icons
               PROVE  q.tip[k] = IF Visible(q, k) /\ "TIP" \in q.data[k].flags
                                 THEN Place(q, k) ELSE 0
    BY DEF Tips
  <2>1. CASE "TIP" \in p.data[k].flags /\ Visible(p, k)
    BY <1>3, <1>5, <1>6, <1>7, <2>1
  <2>2. CASE "TIP" \in p.data[k].flags /\ ~Visible(p, k)
    BY <1>3, <1>5, <1>6, <1>7, <1>8, <2>2
  <2>3. CASE "TIP" \notin p.data[k].flags
    BY <1>3, <1>5, <1>6, <1>7, <2>3
  <2> QED BY <2>1, <2>2, <2>3
<1>10. TipKnown(q)
  BY <1>9, Zenon DEF Tips, TipKnown
<1> QED BY <1>1, <1>6, <1>9, <1>10 DEF Good, Sound, Balloons, FlagsKnown, Absent

LEMMA DropGood ==
    ASSUME NEW p, NEW s, NEW n, Good(p, s, n), NEW k \in Icons, n \in [Icons -> Data]
    PROVE  Good(DropTool(p, k), Without(s, k), [n EXCEPT ![k] = Blank])
<1> DEFINE q == [p EXCEPT !.tools = Without(@, k), !.balloons = Without(@, k),
                          !.data[k] = Blank, !.tip[k] = 0, !.due = @ \ {k}]
           m == [n EXCEPT ![k] = Blank]
<1>0. DropTool(p, k) = recalc(q)
  BY DEF DropTool
<1>1. /\ p \in PlugType /\ p.tools = s /\ Once(s) /\ Once(p.balloons)
      /\ Elems(p.balloons) \subseteq Elems(s) /\ FlagsKnown(p, n) /\ Absent(p) /\ TipKnown(p)
  BY DEF Good, Sound, Balloons
<1>2. /\ p.tools \in Seq(Icons) /\ p.data \in [Icons -> Data] /\ p.tip \in [Icons -> Nat]
      /\ p.balloons \in Seq(Icons) /\ p.due \in SUBSET Icons /\ p.shown \in BOOLEAN
  BY <1>1, PlugFields
<1>3. /\ Without(s, k) \in Seq(Icons) /\ Once(Without(s, k))
      /\ Elems(Without(s, k)) = Elems(s) \ {k}
  BY <1>1, <1>2, WithoutOnce
<1>4. /\ Without(p.balloons, k) \in Seq(Icons) /\ Once(Without(p.balloons, k))
      /\ Elems(Without(p.balloons, k)) = Elems(p.balloons) \ {k}
  BY <1>1, <1>2, WithoutOnce
<1>5. /\ q.tools = Without(s, k) /\ q.balloons = Without(p.balloons, k)
      /\ q.data = [p.data EXCEPT ![k] = Blank] /\ q.tip = [p.tip EXCEPT ![k] = 0]
      /\ q.due = p.due \ {k} /\ q.shown = p.shown
  BY <1>1 DEF PlugType
<1>6. q.data \in [Icons -> Data] /\ q.tip \in [Icons -> Nat]
  BY <1>2, <1>5, BlankType
<1>7. q \in PlugType
  <2> DEFINE r == [p EXCEPT !.tools = Without(s, k), !.balloons = Without(p.balloons, k),
                            !.data = [p.data EXCEPT ![k] = Blank],
                            !.tip = [p.tip EXCEPT ![k] = 0], !.due = p.due \ {k}]
  <2>1. q = r
    BY <1>1
  <2>2. /\ [p.data EXCEPT ![k] = Blank] \in [Icons -> Data]
        /\ [p.tip EXCEPT ![k] = 0] \in [Icons -> Nat] /\ p.due \ {k} \in SUBSET Icons
    BY <1>2, BlankType
  <2>3. r \in PlugType
    BY <1>1, <1>2, <1>3, <1>4, <2>2 DEF PlugType
  <2> QED BY <2>1, <2>3
<1> HIDE DEF q
<1>8. \A j \in Icons : /\ q.data[j] = IF j = k THEN Blank ELSE p.data[j]
                       /\ q.tip[j] = IF j = k THEN 0 ELSE p.tip[j]
                       /\ m[j] = IF j = k THEN Blank ELSE n[j]
  BY <1>2, <1>5
<1> HIDE DEF m
<1>9. Balloons(q)
  BY <1>1, <1>3, <1>4, <1>5 DEF Balloons
<1>10. FlagsKnown(q, m)
  BY <1>1, <1>8 DEF FlagsKnown
<1>11. Absent(q)
  BY <1>1, <1>3, <1>5, <1>8 DEF Absent
<1>12. TipKnown(q)
  BY <1>1, <1>8 DEF TipKnown
<1>13. Sound(q, Without(s, k), m)
  BY <1>3, <1>5, <1>7, <1>9, <1>10, <1>11, <1>12 DEF Sound
<1> QED BY <1>0, <1>13, RecalcGood DEF m

LEMMA DeletedGood ==
    ASSUME NEW p, NEW s, NEW n, Good(p, s, n), NEW k \in Icons, n \in [Icons -> Data]
    PROVE  Good(TrayDeleted(p, k), Without(s, k), [n EXCEPT ![k] = Blank])
<1>1. p.tools = s /\ Once(s) /\ s \in Seq(Icons)
  BY PlugFields DEF Good, Sound
<1>2. CASE k \in Elems(s)
  <2>1. TrayDeleted(p, k) = DropTool(p, k)
    BY <1>1, <1>2 DEF TrayDeleted
  <2>2. Good(DropTool(p, k), Without(s, k), [n EXCEPT ![k] = Blank])
    BY DropGood
  <2> QED BY <2>1, <2>2, Zenon
<1>3. CASE k \notin Elems(s)
  <2> DEFINE m == [n EXCEPT ![k] = Blank]
  <2>1. TrayDeleted(p, k) = p /\ Without(s, k) = s
    BY <1>1, <1>3 DEF TrayDeleted, Without
  <2>2. \A j \in Icons : m[j] = IF j = k THEN Blank ELSE n[j]
    OBVIOUS
  <2> HIDE DEF m
  <2>3. p.data[k] = Blank
    BY <1>1, <1>3 DEF Good, Sound, Absent
  <2>4. FlagsKnown(p, m)
    BY <2>2, <2>3 DEF Good, Sound, FlagsKnown
  <2>5. Good(p, s, m)
    BY <2>4 DEF Good, Sound
  <2> QED BY <2>1, <2>5 DEF m
<1> QED BY <1>2, <1>3

(* An icon's data is replaced by data with no fewer flags.                 *)
LEMMA DataSound ==
    ASSUME NEW p, NEW s, NEW n, Sound(p, s, n), NEW k \in Icons, k \in Elems(s),
           n \in [Icons -> Data], NEW d \in Data, n[k].flags \subseteq d.flags,
           NEW q, q \in PlugType, q.tools = p.tools, q.tip = p.tip,
           q.data = [p.data EXCEPT ![k] = d], Balloons(q)
    PROVE  Sound(q, s, [n EXCEPT ![k] = d])
<1> DEFINE m == [n EXCEPT ![k] = d]
<1>1. p \in PlugType /\ p.data \in [Icons -> Data] /\ p.tools = s
  BY PlugFields DEF Sound
<1>2. \A j \in Icons : /\ q.data[j] = IF j = k THEN d ELSE p.data[j]
                       /\ m[j] = IF j = k THEN d ELSE n[j]
  BY <1>1
<1> HIDE DEF m
<1>3. FlagsKnown(q, m)
  BY <1>2 DEF Sound, FlagsKnown
<1>4. Absent(q)
  BY <1>1, <1>2 DEF Sound, Absent
<1>5. TipKnown(q)
  <2> SUFFICES ASSUME NEW j \in Icons, q.tip[j] # 0 PROVE "TIP" \in q.data[j].flags
    BY DEF TipKnown
  <2>1. "TIP" \in p.data[j].flags
    BY DEF Sound, TipKnown
  <2>2. CASE j # k
    BY <1>2, <2>1, <2>2
  <2>3. CASE j = k
    BY <1>2, <2>1, <2>3 DEF Sound, FlagsKnown
  <2> QED BY <2>2, <2>3
<1>6. Sound(q, s, m)
  BY <1>3, <1>4, <1>5 DEF Sound
<1> QED BY <1>6 DEF m

(* The balloon window comes and goes; a deadline is set.                   *)
Reshown(p, q) == \E due \in SUBSET Icons : \/ q = [p EXCEPT !.due = due, !.shown = FALSE]
                                            \/ q = [p EXCEPT !.due = due, !.shown = TRUE]

LEMMA ShownGood ==
    ASSUME NEW p \in PlugType, NEW s, NEW n, NEW q, Reshown(p, q)
    PROVE  (Sound(p, s, n) => Sound(q, s, n)) /\ (Good(p, s, n) => Good(q, s, n))
<1>1. /\ q.tools = p.tools /\ q.data = p.data /\ q.tip = p.tip /\ q.balloons = p.balloons
      /\ q \in PlugType
  <2>1. PICK due \in SUBSET Icons : \/ q = [p EXCEPT !.due = due, !.shown = FALSE]
                                    \/ q = [p EXCEPT !.due = due, !.shown = TRUE]
    BY DEF Reshown
  <2>2. CASE q = [p EXCEPT !.due = due, !.shown = FALSE]
    BY <2>2 DEF PlugType
  <2>3. CASE q = [p EXCEPT !.due = due, !.shown = TRUE]
    BY <2>3 DEF PlugType
  <2> QED BY <2>1, <2>2, <2>3
<1>2. Sound(p, s, n) => Sound(q, s, n)
  BY <1>1 DEF Sound, Balloons, FlagsKnown, Absent, TipKnown
<1>3. \A k \in Icons : Place(q, k) = Place(p, k) /\ (Visible(q, k) <=> Visible(p, k))
  BY <1>1, SameTools
<1>4. Tips(p) => Tips(q)
  BY <1>1, <1>3, Zenon DEF Tips
<1> QED BY <1>2, <1>4 DEF Good

LEMMA AddGood ==
    ASSUME NEW p, NEW s, NEW n, Good(p, s, n), NEW k \in Icons, k \notin Elems(s)
    PROVE  Good([p EXCEPT !.tools = Append(@, k)], Append(s, k), n)
<1> DEFINE t == Append(s, k)
           q == [p EXCEPT !.tools = t]
<1>1. /\ p \in PlugType /\ p.tools = s /\ Once(s) /\ Balloons(p)
      /\ FlagsKnown(p, n) /\ Absent(p) /\ TipKnown(p) /\ Tips(p)
  BY DEF Good, Sound
<1>2. s \in Seq(Icons)
  BY <1>1, PlugFields
<1>3. /\ t \in Seq(Icons) /\ Elems(t) = Elems(s) \cup {k} /\ Once(t)
      /\ \A i \in 1..Len(s) : i \in 1..Len(t) /\ t[i] = s[i]
  BY <1>1, <1>2, AppendOnce
<1>4. q = [p EXCEPT !.tools = Append(@, k)]
  BY <1>1
<1> HIDE DEF t
<1>5. /\ q \in PlugType /\ q.tools = t /\ q.data = p.data /\ q.tip = p.tip
      /\ q.balloons = p.balloons
  BY <1>1, <1>3 DEF PlugType
<1> HIDE DEF q
<1>6. Balloons(q) /\ FlagsKnown(q, n) /\ Absent(q) /\ TipKnown(q)
  BY <1>1, <1>3, <1>5 DEF Balloons, FlagsKnown, Absent, TipKnown
<1>7. ASSUME NEW j \in Icons
      PROVE  q.tip[j] = IF Visible(q, j) /\ "TIP" \in q.data[j].flags THEN Place(q, j) ELSE 0
  <2>0. p.tip[j] = IF Visible(p, j) /\ "TIP" \in p.data[j].flags THEN Place(p, j) ELSE 0
    BY <1>1 DEF Tips
  <2>1. CASE j \in Elems(s)
    <3> DEFINE i == IndexIn(s, j)
    <3>1. i \in 1..Len(s) /\ s[i] = j /\ Len(s) \in Nat
      BY <1>2, <2>1, IndexIs, SeqRange
    <3>2. IndexIn(t, j) \in 1..Len(t) /\ t[IndexIn(t, j)] = j
      BY <1>3, <2>1, IndexIs
    <3> HIDE DEF i
    <3>3. IndexIn(t, j) = i
      BY <1>3, <3>1, <3>2 DEF Once
    <3>4. \A a \in 1..i : a \in 1..Len(s)
      BY <3>1
    <3>5. SameUpTo(p, q, j)
      <4>1. /\ j \in Elems(q.tools) /\ IndexIn(q.tools, j) = i
            /\ i = IndexIn(p.tools, j) /\ \A a \in 1..i : q.tools[a] = p.tools[a]
        BY <1>1, <1>3, <1>5, <2>1, <3>3, <3>4 DEF i
      <4> QED BY <1>5, <4>1, Zenon DEF SameUpTo
    <3>6. Place(q, j) = Place(p, j) /\ (Visible(q, j) <=> Visible(p, j))
      BY <1>1, <1>5, <2>1, <3>5, PlaceSame
    <3> QED BY <1>5, <2>0, <3>6
  <2>2. CASE j \notin Elems(s)
    <3>1. ~Visible(p, j) /\ p.data[j] = Blank
      BY <1>1, <2>2 DEF Visible, Absent
    <3>2. q.tip[j] = 0 /\ "TIP" \notin q.data[j].flags
      BY <1>5, <2>0, <3>1, BlankType
    <3> QED BY <3>2
  <2> QED BY <2>1, <2>2
<1>8. Tips(q)
  BY <1>7 DEF Tips
<1>9. Good(q, t, n)
  BY <1>3, <1>5, <1>6, <1>8 DEF Good, Sound
<1> QED BY <1>4, <1>9 DEF t

(* What the plugin knows of an icon's flags, when more of them are known.  *)
LEMMA MoreFlags ==
    ASSUME NEW p, NEW s, NEW n, Good(p, s, n), NEW k \in Icons, n \in [Icons -> Data],
           NEW d \in Data, n[k].flags \subseteq d.flags
    PROVE  Good(p, s, [n EXCEPT ![k] = d])
<1> DEFINE m == [n EXCEPT ![k] = d]
<1>1. \A j \in Icons : n[j].flags \subseteq m[j].flags
  OBVIOUS
<1> HIDE DEF m
<1>2. FlagsKnown(p, m)
  BY <1>1 DEF Good, Sound, FlagsKnown
<1>3. Good(p, s, m)
  BY <1>2 DEF Good, Sound
<1> QED BY <1>3 DEF m

LEMMA NextBalloonSound ==
    ASSUME NEW p, NEW s, NEW n, Good(p, s, n), NEW k \in Icons, k \in Elems(s),
           n \in [Icons -> Data], NEW d \in Data, n[k].flags \subseteq d.flags
    PROVE  Sound(NextBalloon(p, k, d), s, [n EXCEPT ![k] = d])
<1> DEFINE b == IF k \in p.due \/ k \in Elems(p.balloons) THEN p.balloons
                ELSE Append(p.balloons, k)
           q == [p EXCEPT !.data[k] = d, !.balloons = b]
           m == [n EXCEPT ![k] = d]
           r == NextBalloon(p, k, d)
<1>1. Sound(p, s, n) /\ p \in PlugType /\ p.tools = s
  BY DEF Good, Sound
<1>2. /\ p.tools \in Seq(Icons) /\ p.data \in [Icons -> Data] /\ p.tip \in [Icons -> Nat]
      /\ p.balloons \in Seq(Icons) /\ p.due \in SUBSET Icons /\ p.shown \in BOOLEAN
  BY <1>1, PlugFields
<1>3. b \in Seq(Icons) /\ Once(b) /\ Elems(b) \subseteq Elems(s)
  <2>1. Once(p.balloons) /\ Elems(p.balloons) \subseteq Elems(s)
    BY <1>1 DEF Sound, Balloons
  <2>2. CASE k \in p.due \/ k \in Elems(p.balloons)
    BY <1>2, <2>1, <2>2
  <2>3. CASE ~(k \in p.due \/ k \in Elems(p.balloons))
    <3>1. /\ Append(p.balloons, k) \in Seq(Icons) /\ Once(Append(p.balloons, k))
          /\ Elems(Append(p.balloons, k)) = Elems(p.balloons) \cup {k}
      BY <1>2, <2>1, <2>3, AppendOnce
    <3> QED BY <2>1, <2>3, <3>1
  <2> QED BY <2>2, <2>3
<1>4. \/ r = q
      \/ r = [q EXCEPT !.due = q.due, !.shown = FALSE]
      \/ r = [q EXCEPT !.due = q.due \cup {k}, !.shown = TRUE]
  <2>1. q \in PlugType
    <3>1. [p.data EXCEPT ![k] = d] \in [Icons -> Data]
      BY <1>2
    <3>2. q = [p EXCEPT !.data = [p.data EXCEPT ![k] = d], !.balloons = b]
      BY <1>1
    <3> HIDE DEF b
    <3> QED BY <1>1, <1>2, <1>3, <3>1, <3>2 DEF PlugType
  <2>2. r = IF q.balloons = <<>> THEN [q EXCEPT !.shown = FALSE]
            ELSE IF q.balloons[1] = k THEN show_balloon(q, k) ELSE q
    BY DEF NextBalloon
  <2> HIDE DEF q
  <2>3. [q EXCEPT !.shown = FALSE] = [q EXCEPT !.due = q.due, !.shown = FALSE]
    BY <2>1 DEF PlugType
  <2> QED BY <2>2, <2>3 DEF show_balloon
<1> HIDE DEF b, r
<1>5. /\ q \in PlugType /\ q.tools = p.tools /\ q.tip = p.tip /\ q.balloons = b
      /\ q.data = [p.data EXCEPT ![k] = d]
  <2>1. [p.data EXCEPT ![k] = d] \in [Icons -> Data]
    BY <1>2
  <2>2. q = [p EXCEPT !.data = [p.data EXCEPT ![k] = d], !.balloons = b]
    BY <1>1
  <2> QED BY <1>1, <1>2, <1>3, <2>1, <2>2 DEF PlugType
<1> HIDE DEF q
<1>6. Balloons(q)
  BY <1>1, <1>3, <1>5 DEF Balloons
<1>7. Sound(q, s, m)
  BY <1>1, <1>5, <1>6, DataSound
<1>8. q.due \in SUBSET Icons /\ q.due \cup {k} \in SUBSET Icons
  BY <1>5, PlugFields
<1> HIDE DEF m
<1>9. r = q \/ Reshown(q, r)
  BY <1>4, <1>8, Zenon DEF Reshown
<1>10. Sound(r, s, m)
  <2>1. CASE r = q
    BY <1>7, <2>1, Zenon
  <2>2. CASE Reshown(q, r)
    BY <1>5, <1>7, <2>2, ShownGood
  <2> QED BY <1>9, <2>1, <2>2
<1> QED BY <1>10 DEF m, r

LEMMA ClearBalloonGood ==
    ASSUME NEW p, NEW s, NEW n, Good(p, s, n), NEW k \in Icons
    PROVE  Good(ClearBalloon(p, k), s, n)
<1> DEFINE b == Without(p.balloons, k)
           q == [p EXCEPT !.balloons = b]
           r == ClearBalloon(p, k)
<1>1. p \in PlugType /\ p.tools = s /\ Once(p.balloons) /\ Elems(p.balloons) \subseteq Elems(s)
  BY DEF Good, Sound, Balloons
<1>2. p.balloons \in Seq(Icons) /\ p.due \in SUBSET Icons
  BY <1>1, PlugFields
<1>3. b \in Seq(Icons) /\ Once(b) /\ Elems(b) \subseteq Elems(p.balloons)
  BY <1>1, <1>2, WithoutOnce
<1>4. r = IF q.balloons = <<>> THEN [q EXCEPT !.shown = FALSE]
          ELSE IF q.balloons[1] # p.balloons[1] THEN show_balloon(q, q.balloons[1])
          ELSE q
  BY DEF ClearBalloon
<1> HIDE DEF b, r
<1>5. /\ q \in PlugType /\ q.tools = p.tools /\ q.tip = p.tip /\ q.balloons = b
      /\ q.data = p.data /\ q.due = p.due
  BY <1>1, <1>3 DEF PlugType
<1> HIDE DEF q
<1>6. Good(q, s, n)
  <2>1. Sound(q, s, n)
    BY <1>1, <1>3, <1>5 DEF Good, Sound, Balloons, FlagsKnown, Absent, TipKnown
  <2>2. \A j \in Icons : Place(q, j) = Place(p, j) /\ (Visible(q, j) <=> Visible(p, j))
    BY <1>1, <1>5, SameTools
  <2>3. Tips(q)
    BY <1>5, <2>2, Zenon DEF Good, Tips
  <2> QED BY <2>1, <2>3 DEF Good
<1>7. CASE r = q
  BY <1>6, <1>7, Zenon DEF r
<1>8. CASE q.balloons = <<>>
  <2>1. r = [q EXCEPT !.due = q.due, !.shown = FALSE]
    BY <1>4, <1>5, <1>8 DEF PlugType
  <2>2. q.due \in SUBSET Icons
    BY <1>2, <1>5
  <2>3. Reshown(q, r)
    BY <2>1, <2>2, Zenon DEF Reshown
  <2>4. Good(r, s, n)
    BY <1>5, <1>6, <2>3, ShownGood
  <2> QED BY <2>4 DEF r
<1>9. CASE q.balloons # <<>> /\ q.balloons[1] # p.balloons[1]
  <2>1. r = [q EXCEPT !.due = q.due \cup {q.balloons[1]}, !.shown = TRUE]
    BY <1>4, <1>9 DEF show_balloon
  <2>2. q.balloons[1] \in Icons
    <3>1. Len(b) \in Nat /\ Len(b) # 0
      BY <1>3, <1>5, <1>9, SeqRange, EmptySeq
    <3>2. 1 \in 1..Len(b)
      BY <3>1
    <3> QED BY <1>3, <1>5, <3>2, SeqRange
  <2>3. q.due \cup {q.balloons[1]} \in SUBSET Icons
    BY <1>2, <1>5, <2>2
  <2>4. Reshown(q, r)
    BY <2>1, <2>3, Zenon DEF Reshown
  <2>5. Good(r, s, n)
    BY <1>5, <1>6, <2>4, ShownGood
  <2> QED BY <2>5 DEF r
<1> QED BY <1>4, <1>7, <1>8, <1>9

LEMMA SetGood ==
    ASSUME NEW p, NEW s, NEW n, Good(p, s, n), NEW k \in Icons, n \in [Icons -> Data],
           NEW d \in Data, n[k].flags \subseteq d.flags, NEW mask
    PROVE  Good(SetTool(p, k, d, mask), IF k \in Elems(s) THEN s ELSE Append(s, k),
                [n EXCEPT ![k] = d])
<1> DEFINE q == IF k \in Elems(p.tools) THEN p ELSE [p EXCEPT !.tools = Append(@, k)]
           t == IF k \in Elems(s) THEN s ELSE Append(s, k)
           m == [n EXCEPT ![k] = d]
           r == SetTool(p, k, d, mask)
<1>1. p.tools = s /\ Once(s) /\ s \in Seq(Icons)
  BY PlugFields DEF Good, Sound
<1>2. r = IF q.data[k] = d /\ "ICON" \notin mask THEN q
          ELSE IF "INFO" \in mask \cap q.data[k].flags
          THEN IF d.text # None THEN recalc(NextBalloon(q, k, d)) ELSE ClearBalloon(q, k)
          ELSE recalc([q EXCEPT !.data[k] = d])
  BY DEF SetTool
<1>3. Good(q, t, n)
  BY <1>1, AddGood
<1>4. k \in Elems(t)
  BY <1>1, AppendOnce
<1> HIDE DEF q, t, r
<1>5. Good(q, t, m)
  BY <1>3, MoreFlags
<1>6. Good(ClearBalloon(q, k), t, m)
  <2> HIDE DEF m
  <2> QED BY <1>5, ClearBalloonGood
<1>7. Good(recalc(NextBalloon(q, k, d)), t, m)
  <2>1. Sound(NextBalloon(q, k, d), t, m)
    BY <1>3, <1>4, NextBalloonSound
  <2> HIDE DEF m
  <2> QED BY <2>1, RecalcGood
<1>8. Good(recalc([q EXCEPT !.data[k] = d]), t, m)
  <2> DEFINE u == [q EXCEPT !.data[k] = d]
  <2>1. q \in PlugType /\ Sound(q, t, n)
    BY <1>3 DEF Good, Sound
  <2>2. /\ u \in PlugType /\ u.tools = q.tools /\ u.tip = q.tip /\ u.balloons = q.balloons
        /\ u.data = [q.data EXCEPT ![k] = d]
    <3>1. q.data \in [Icons -> Data] /\ [q.data EXCEPT ![k] = d] \in [Icons -> Data]
      BY <2>1, PlugFields
    <3>2. u = [q EXCEPT !.data = [q.data EXCEPT ![k] = d]]
      BY <2>1
    <3> QED BY <2>1, <3>1, <3>2 DEF PlugType
  <2> HIDE DEF u
  <2>3. Balloons(u)
    BY <2>1, <2>2 DEF Sound, Balloons
  <2>4. Sound(u, t, m)
    BY <1>4, <2>1, <2>2, <2>3, DataSound
  <2> HIDE DEF m
  <2>5. Good(recalc(u), t, m)
    BY <2>4, RecalcGood
  <2> QED BY <2>5 DEF u
<1> HIDE DEF m
<1>9. Good(r, t, m)
  BY <1>2, <1>5, <1>6, <1>7, <1>8
<1> QED BY <1>9 DEF r, t, m

-----------------------------------------------------------------------------
(* The core of the tray, and both together.                                *)
TrayInv == /\ items \in Seq(Icons) /\ ni \in [Icons -> Data]
           /\ \A k \in Icons \ Elems(items) : ni[k] = Blank
           /\ Good(plug, items, ni)

LEMMA MergeType ==
    ASSUME NEW old \in Data, NEW req \in Requests
    PROVE  Merge(old, req) \in Data /\ old.flags \subseteq Merge(old, req).flags
<1>1. /\ old.flags \in SUBSET {"TIP", "INFO"} /\ old.icon \in Pictures \cup {None}
      /\ old.hidden \in BOOLEAN /\ old.text \in Texts \cup {None}
  BY DataFields
<1>2. /\ req.icon \in Pictures \cup {None} /\ req.hidden \in BOOLEAN
      /\ req.text \in Texts \cup {None}
  BY DEF Requests
<1> DEFINE flags == old.flags \cup (req.flags \cap {"TIP", "INFO"})
           icon == IF "ICON" \in req.flags THEN req.icon ELSE old.icon
           hidden == IF "STATE" \in req.flags THEN req.hidden ELSE old.hidden
           text == IF "INFO" \in req.flags THEN req.text ELSE old.text
<1>3. flags \in SUBSET {"TIP", "INFO"} /\ old.flags \subseteq flags
  BY <1>1
<1>4. icon \in Pictures \cup {None} /\ text \in Texts \cup {None}
  BY <1>1, <1>2
<1>5. hidden \in BOOLEAN
  BY <1>1, <1>2, Zenon
<1>6. Merge(old, req) = [flags |-> flags, icon |-> icon, hidden |-> hidden, text |-> text]
  BY DEF Merge
<1> HIDE DEF flags, icon, hidden, text
<1>7. [flags |-> flags, icon |-> icon, hidden |-> hidden, text |-> text] \in Data
  BY <1>3, <1>4, <1>5 DEF Data
<1> QED BY <1>3, <1>6, <1>7

LEMMA NimAddNext ==
    ASSUME TrayInv, NEW k \in Icons, NEW req \in Requests, NimAdd(k, req)
    PROVE  TrayInv'
<1> DEFINE d == Merge(Blank, req)
           p == IF k \in Elems(items) THEN Replaced(plug, k) ELSE plug
           s == Without(items, k)
           n == [ni EXCEPT ![k] = Blank]
           m == [ni EXCEPT ![k] = d]
<1>1. /\ items \in Seq(Icons) /\ ni \in [Icons -> Data] /\ Good(plug, items, ni)
      /\ Once(items) /\ \A j \in Icons \ Elems(items) : ni[j] = Blank
  BY DEF TrayInv, Good, Sound
<1>2. d \in Data /\ Blank.flags \subseteq d.flags
  BY BlankType, MergeType
<1>3. s \in Seq(Icons) /\ Once(s) /\ Elems(s) = Elems(items) \ {k} /\ (k \notin Elems(items) => s = items)
  BY <1>1, WithoutOnce
<1>4. n \in [Icons -> Data] /\ n[k] = Blank /\ [n EXCEPT ![k] = d] = m
  BY <1>1, <1>2, BlankType
<1>5. Good(p, s, n)
  <2>1. CASE k \in Elems(items)
    BY <1>1, <2>1, DeletedGood DEF Replaced
  <2>2. CASE k \notin Elems(items)
    <3>1. n = ni
      BY <1>1, <2>2
    <3> HIDE DEF n, s
    <3> QED BY <1>1, <1>3, <2>2, <3>1
  <2> QED BY <2>1, <2>2
<1>6. /\ items' = Append(s, k) /\ ni' = m /\ ni'[k] = d
      /\ plug' = SetTool(p, k, ni'[k], req.flags)
  BY <1>1 DEF NimAdd
<1> HIDE DEF p, s, n, d
<1>7. Good(SetTool(p, k, d, req.flags), IF k \in Elems(s) THEN s ELSE Append(s, k),
           [n EXCEPT ![k] = d])
  BY <1>2, <1>4, <1>5, SetGood
<1>8. Good(plug', items', ni')
  BY <1>3, <1>4, <1>6, <1>7
<1>9. Append(s, k) \in Seq(Icons) /\ Elems(Append(s, k)) = Elems(items) \cup {k}
  BY <1>3, AppendOnce
<1>10. m \in [Icons -> Data] /\ \A j \in Icons : j # k => m[j] = ni[j]
  BY <1>1, <1>2
<1> HIDE DEF m
<1>11. \A j \in Icons \ Elems(items') : ni'[j] = Blank
  BY <1>1, <1>6, <1>9, <1>10
<1> QED BY <1>6, <1>8, <1>9, <1>10, <1>11 DEF TrayInv

LEMMA NimModifyNext ==
    ASSUME TrayInv, NEW k \in Icons, NEW req \in Requests, NimModify(k, req)
    PROVE  TrayInv'
<1> DEFINE d == Merge(ni[k], req)
           m == [ni EXCEPT ![k] = d]
<1>1. /\ items \in Seq(Icons) /\ ni \in [Icons -> Data] /\ Good(plug, items, ni)
      /\ \A j \in Icons \ Elems(items) : ni[j] = Blank
  BY DEF TrayInv
<1>2. d \in Data /\ ni[k].flags \subseteq d.flags
  BY <1>1, MergeType
<1>3. /\ k \in Elems(items) /\ items' = items /\ ni' = m /\ ni'[k] = d
      /\ plug' = SetTool(plug, k, ni'[k], req.flags)
  BY <1>1 DEF NimModify
<1> HIDE DEF d
<1>4. Good(SetTool(plug, k, d, req.flags), IF k \in Elems(items) THEN items ELSE Append(items, k),
           [ni EXCEPT ![k] = d])
  BY <1>1, <1>2, SetGood
<1>5. m \in [Icons -> Data] /\ \A j \in Icons : j # k => m[j] = ni[j]
  BY <1>1, <1>2
<1>6. Good(plug', items', ni')
  BY <1>3, <1>4
<1> HIDE DEF m
<1> QED BY <1>1, <1>3, <1>5, <1>6 DEF TrayInv

LEMMA NimDeleteNext ==
    ASSUME TrayInv, NEW k \in Icons, NimDelete(k)
    PROVE  TrayInv'
<1> DEFINE p == TrayDeleted(plug, k)
           s == Without(items, k)
           m == [ni EXCEPT ![k] = Blank]
<1>1. /\ items \in Seq(Icons) /\ ni \in [Icons -> Data] /\ Good(plug, items, ni)
      /\ Once(items) /\ \A j \in Icons \ Elems(items) : ni[j] = Blank
  BY DEF TrayInv, Good, Sound
<1>2. s \in Seq(Icons) /\ Elems(s) = Elems(items) \ {k}
  BY <1>1, WithoutOnce
<1>3. Good(p, s, m)
  BY <1>1, DeletedGood
<1>4. items' = s /\ ni' = m /\ plug' = TrayDeleted(p, k)
  BY DEF NimDelete
<1>5. m \in [Icons -> Data] /\ \A j \in Icons : m[j] = IF j = k THEN Blank ELSE ni[j]
  BY <1>1, BlankType
<1> HIDE DEF p, s, m
<1>6. TrayDeleted(p, k) = p
  BY <1>2, <1>3 DEF TrayDeleted, Good, Sound
<1>7. \A j \in Icons \ Elems(items') : ni'[j] = Blank
  BY <1>1, <1>2, <1>4, <1>5
<1> QED BY <1>2, <1>3, <1>4, <1>5, <1>6, <1>7 DEF TrayInv

LEMMA BalloonOverNext ==
    ASSUME TrayInv, BalloonOver
    PROVE  TrayInv'
<1>1. plug' = [plug EXCEPT !.shown = FALSE] /\ items' = items /\ ni' = ni
  BY DEF BalloonOver
<1>2. plug \in PlugType /\ Good(plug, items, ni)
  BY DEF TrayInv, Good, Sound
<1>3. plug' = [plug EXCEPT !.due = plug.due, !.shown = FALSE] /\ plug.due \in SUBSET Icons
  BY <1>1, <1>2 DEF PlugType
<1>4. Reshown(plug, plug')
  BY <1>3, Zenon DEF Reshown
<1>5. Good(plug', items, ni)
  BY <1>2, <1>4, ShownGood
<1> QED BY <1>1, <1>5 DEF TrayInv

LEMMA TrayNext == TrayInv /\ Next => TrayInv'
BY NimAddNext, NimModifyNext, NimDeleteNext, BalloonOverNext DEF Next

LEMMA TrayInit == Init => TrayInv
<1> SUFFICES ASSUME Init PROVE TrayInv
  OBVIOUS
<1>1. items = <<>> /\ ni = [k \in Icons |-> Blank] /\ plug = Started
  BY DEF Init
<1>2. <<>> \in Seq(Icons) /\ Len(<<>>) = 0
  BY EmptySeq
<1>3. Once(<<>>) /\ Elems(<<>>) = {}
  <2>1. DOMAIN <<>> = 1..0
    BY <1>2, SeqRange
  <2>2. \A x : x \notin 1..0
    OBVIOUS
  <2>3. Once(<<>>)
    BY <1>2, <2>2 DEF Once
  <2> QED BY <2>1, <2>2, <2>3 DEF Elems
<1>4. [k \in Icons |-> Blank] \in [Icons -> Data]
  BY BlankType
<1>5. /\ plug.tools = <<>> /\ plug.data = [k \in Icons |-> Blank]
      /\ plug.tip = [k \in Icons |-> 0] /\ plug.balloons = <<>>
  BY <1>1 DEF Started
<1>6. plug \in PlugType
  BY <1>1, <1>2, <1>4 DEF Started, PlugType
<1>7. Balloons(plug) /\ Absent(plug) /\ FlagsKnown(plug, ni) /\ TipKnown(plug)
  BY <1>1, <1>3, <1>5 DEF Balloons, Absent, FlagsKnown, TipKnown
<1>8. Tips(plug)
  BY <1>3, <1>5 DEF Tips, Visible
<1> QED BY <1>1, <1>2, <1>3, <1>4, <1>5, <1>6, <1>7, <1>8 DEF TrayInv, Good, Sound

LEMMA OnceCounted ==
    ASSUME NEW S, NEW s \in Seq(S), Once(s)
    PROVE  Cardinality(Elems(s)) = Len(s)
<1> DEFINE D == 1..Len(s)
<1>1. Len(s) \in Nat /\ IsFiniteSet(D) /\ Cardinality(D) = Len(s) /\ DOMAIN s = D
  <2>1. Len(s) \in Nat /\ DOMAIN s = D
    BY SeqRange
  <2>2. IsFiniteSet(D) /\ Cardinality(D) = Len(s)
    BY <2>1, FS_Interval
  <2> QED BY <2>1, <2>2
<1>2. s \in [D -> Elems(s)]
  <2>1. s = [i \in D |-> s[i]]
    BY <1>1, SeqRange
  <2>2. \A i \in D : s[i] \in Elems(s)
    BY ElemsIs
  <2> HIDE DEF D
  <2> QED BY <2>1, <2>2
<1>3. s \in Bijection(D, Elems(s))
  <2>1. s \in Injection(D, Elems(s))
    BY <1>2 DEF Once, Injection, IsInjective
  <2>2. s \in Surjection(D, Elems(s))
    BY <1>2, ElemsIs DEF Surjection
  <2> QED BY <2>1, <2>2 DEF Bijection
<1> HIDE DEF D
<1>4. Cardinality(D) = Cardinality(Elems(s))
  BY <1>1, <1>3, FS_Bijection DEF ExistsBijection
<1> QED BY <1>1, <1>4

LEMMA TrayFollows == TrayInv => PanelIsWhole
<1> SUFFICES ASSUME TrayInv PROVE PanelIsWhole
  OBVIOUS
<1>1. /\ plug \in PlugType /\ plug.tools = items /\ Balloons(plug) /\ Tips(plug)
      /\ plug.balloons \in Seq(Icons)
  BY PlugFields DEF TrayInv, Good, Sound
<1>2. BalloonsAreTools
  BY <1>1, OnceCounted DEF Balloons, BalloonsAreTools
<1> QED BY <1>1, <1>2 DEF TrayInv, PanelIsWhole, TypeOK, SameIcons, TipsInPlace, Tips

-----------------------------------------------------------------------------
(* The flasher: a list in which no window is twice, and its painting.      *)
AppIcon == [app : Apps, ticks : 0..IconSize, icon : {"none", "own", "any"}]
Single(s) == \A i, j \in 1..Len(s) : s[i].app = s[j].app => i = j
FlType == [apps : Seq(AppIcon), size : Nat, shown : BOOLEAN, painted : Seq(AppIcon)]
FlGood(s) == /\ s \in FlType /\ Single(s.apps) /\ s.size = Len(s.apps)
             /\ s.shown <=> Len(s.apps) > 0
             /\ s.shown => s.painted = s.apps

\* The list t shows the windows of s in their places.
SameApps(s, t) == Len(t) = Len(s) /\ \A i \in 1..Len(s) : t[i].app = s[i].app

LEMMA FlFields ==
    ASSUME NEW s \in FlType
    PROVE  /\ s.apps \in Seq(AppIcon) /\ s.size \in Nat /\ s.shown \in BOOLEAN
           /\ s.painted \in Seq(AppIcon) /\ Len(s.apps) \in Nat
           /\ DOMAIN s.apps = 1..Len(s.apps)
           /\ \A i \in 1..Len(s.apps) : s.apps[i] \in AppIcon
<1>1. s.apps \in Seq(AppIcon) /\ s.size \in Nat /\ s.shown \in BOOLEAN /\ s.painted \in Seq(AppIcon)
  BY Zenon DEF FlType
<1> QED BY <1>1, SeqRange

LEMMA SingleStays ==
    ASSUME NEW s, NEW t, Single(s), SameApps(s, t)
    PROVE  Single(t)
BY DEF Single, SameApps

\* A list made entry by entry from another.
LEMMA MappedList ==
    ASSUME NEW s \in Seq(AppIcon), NEW t, t = [i \in 1..Len(s) |-> t[i]],
           \A i \in 1..Len(s) : t[i] \in AppIcon /\ t[i].app = s[i].app
    PROVE  t \in Seq(AppIcon) /\ SameApps(s, t)
<1>1. Len(s) \in Nat
  BY SeqRange
<1>2. t \in [1..Len(s) -> AppIcon]
  BY Zenon
<1>3. t \in Seq(AppIcon) /\ Len(t) = Len(s)
  BY <1>1, <1>2
<1> QED BY <1>3 DEF SameApps

LEMMA PaintKeeps ==
    ASSUME NEW s \in FlType, Single(s.apps), NEW q, q = paint_flasher(s)
    PROVE  /\ q \in FlType /\ q.size = s.size /\ q.shown = s.shown
           /\ q.painted = q.apps /\ SameApps(s.apps, q.apps)
<1> DEFINE Painted(e) == [e EXCEPT !.icon = IF @ # "none" THEN @
                                         ELSE IF e.app \in alive THEN "own"
                                         ELSE "any"]
           now == [i \in DOMAIN s.apps |-> Painted(s.apps[i])]
<1>1. q = [s EXCEPT !.apps = now, !.painted = now]
  BY DEF paint_flasher
<1>2. DOMAIN s.apps = 1..Len(s.apps)
  BY FlFields
<1>3. now = [i \in 1..Len(s.apps) |-> now[i]]
  BY <1>2
<1>4. \A i \in 1..Len(s.apps) : now[i] \in AppIcon /\ now[i].app = s.apps[i].app
  <2> SUFFICES ASSUME NEW i \in 1..Len(s.apps)
               PROVE  now[i] \in AppIcon /\ now[i].app = s.apps[i].app
    OBVIOUS
  <2>1. now[i] = Painted(s.apps[i])
    BY <1>2
  <2>2. s.apps[i] \in AppIcon
    BY FlFields
  <2> QED BY <2>1, <2>2 DEF AppIcon
<1> HIDE DEF now
<1>5. now \in Seq(AppIcon) /\ SameApps(s.apps, now)
  BY <1>3, <1>4, FlFields, MappedList
<1>6. q.apps = now /\ q.painted = now /\ q.size = s.size /\ q.shown = s.shown
  BY <1>1 DEF FlType
<1>7. q \in FlType
  BY <1>1, <1>5 DEF FlType
<1> QED BY <1>5, <1>6, <1>7

LEMMA RecalcFlasher ==
    ASSUME NEW s \in FlType, Single(s.apps)
    PROVE  FlGood(recalc_size(s))
<1>1. CASE s.apps = <<>>
  <2>1. recalc_size(s) = [s EXCEPT !.size = 0, !.shown = FALSE]
    BY <1>1 DEF recalc_size
  <2>2. /\ recalc_size(s).apps = s.apps /\ recalc_size(s).size = 0
        /\ ~recalc_size(s).shown /\ recalc_size(s) \in FlType
    <3> DEFINE q == recalc_size(s)
    <3>1. q = [s EXCEPT !.size = 0, !.shown = FALSE]
      BY <2>1
    <3>2. q \in FlType
      <4>1. 0 \in Nat /\ s.apps \in Seq(AppIcon) /\ s.painted \in Seq(AppIcon)
        BY FlFields
      <4>2. q = [apps |-> s.apps, size |-> 0, shown |-> FALSE, painted |-> s.painted]
        BY <3>1, Zenon DEF FlType
      <4> HIDE DEF q
      <4> QED BY <4>1, <4>2, Zenon DEF FlType
    <3>3. q.apps = s.apps /\ q.size = 0
      BY <3>1 DEF FlType
    <3>4. ~q.shown
      BY <3>1, Zenon DEF FlType
    <3> QED BY <3>2, <3>3, <3>4
  <2>3. Len(s.apps) = 0
    BY <1>1, EmptySeq
  <2> QED BY <2>2, <2>3 DEF FlGood
<1>2. CASE s.apps # <<>>
  <2> DEFINE r == [s EXCEPT !.size = Len(s.apps), !.shown = TRUE]
  <2>1. recalc_size(s) = paint_flasher(r)
    BY <1>2 DEF recalc_size
  <2>2. r \in FlType /\ r.apps = s.apps /\ r.size = Len(s.apps) /\ r.shown = TRUE
    BY FlFields DEF FlType
  <2>3. Len(s.apps) > 0
    BY <1>2, FlFields, EmptySeq
  <2> HIDE DEF r
  <2> DEFINE q == recalc_size(s)
  <2>4. /\ q \in FlType /\ q.size = r.size /\ q.shown = r.shown
        /\ q.painted = q.apps /\ SameApps(r.apps, q.apps)
    BY <2>1, <2>2, PaintKeeps
  <2> HIDE DEF q
  <2>5. Single(q.apps)
    BY <2>2, <2>4, SingleStays
  <2>6. Len(q.apps) = Len(s.apps)
    BY <2>2, <2>4 DEF SameApps
  <2>7. FlGood(q)
    BY <2>2, <2>3, <2>4, <2>5, <2>6 DEF FlGood
  <2> QED BY <2>7 DEF q
<1> QED BY <1>1, <1>2

LEMMA SizeIsNat == IconSize \in Nat /\ 0 \in 0..IconSize
BY FlasherAssumption

FlasherInv == alive \subseteq Apps /\ front \in alive \cup {Nobody} /\ FlGood(fl)

LEMMA FlashGood ==
    ASSUME FlasherInv, NEW w \in Apps, Flash(w)
    PROVE  FlasherInv'
<1> DEFINE e == [app |-> w, ticks |-> 0, icon |-> "none"]
           r == [fl EXCEPT !.apps = Append(@, e)]
           n == Len(fl.apps)
<1>1. fl \in FlType /\ Single(fl.apps)
  BY DEF FlasherInv, FlGood
<1>2. /\ fl.apps \in Seq(AppIcon) /\ n \in Nat /\ DOMAIN fl.apps = 1..n
  BY <1>1, FlFields
<1>3. e \in AppIcon /\ e.app = w
  BY SizeIsNat DEF AppIcon
<1>4. \A i \in 1..n : fl.apps[i].app # w
  BY <1>2 DEF Flash, Listed
<1>5. fl' = recalc_size(r) /\ UNCHANGED <<alive, front>>
  BY DEF Flash
<1>6. r.apps = Append(fl.apps, e)
  BY <1>1 DEF FlType
<1> HIDE DEF e
<1>7. /\ Append(fl.apps, e) \in Seq(AppIcon) /\ Len(Append(fl.apps, e)) = n + 1
      /\ \A i \in 1..n : Append(fl.apps, e)[i] = fl.apps[i]
      /\ Append(fl.apps, e)[n + 1] = e
  BY <1>2, <1>3, AppendProperties
<1>8. Single(r.apps)
  <2> SUFFICES ASSUME NEW i \in 1..(n + 1), NEW j \in 1..(n + 1),
                      r.apps[i].app = r.apps[j].app
               PROVE  i = j
    BY <1>6, <1>7 DEF Single
  <2>1. CASE i \in 1..n /\ j \in 1..n
    BY <1>1, <1>6, <1>7, <2>1 DEF Single
  <2>2. CASE i = n + 1 /\ j \in 1..n
    BY <1>3, <1>4, <1>6, <1>7, <2>2
  <2>3. CASE i \in 1..n /\ j = n + 1
    BY <1>3, <1>4, <1>6, <1>7, <2>3
  <2> QED BY <1>2, <2>1, <2>2, <2>3
<1>9. r \in FlType
  BY <1>1, <1>7 DEF FlType
<1> HIDE DEF r
<1>10. FlGood(fl')
  BY <1>5, <1>8, <1>9, RecalcFlasher
<1> QED BY <1>5, <1>10 DEF FlasherInv

LEMMA RedrawGood ==
    ASSUME FlasherInv, NEW w \in Apps, Redraw(w)
    PROVE  FlasherInv'
<1> DEFINE n == Len(fl.apps)
<1>1. fl \in FlType /\ Single(fl.apps)
  BY DEF FlasherInv, FlGood
<1>2. /\ fl.apps \in Seq(AppIcon) /\ n \in Nat /\ DOMAIN fl.apps = 1..n
  BY <1>1, FlFields
<1>3. PICK i \in 1..n : fl' = Erase(fl, i)
  BY <1>2 DEF Redraw
<1> DEFINE s == RemoveAt(fl.apps, i)
           r == [fl EXCEPT !.apps = s]
<1>4. /\ s \in Seq(AppIcon) /\ Len(s) = n - 1
      /\ \A k \in 1..(n - 1) : s[k] = IF k < i THEN fl.apps[k] ELSE fl.apps[k + 1]
  BY <1>2, Removed
<1>5. fl' = recalc_size(r)
  BY <1>3 DEF Erase
<1> HIDE DEF s
<1>6. r \in FlType /\ r.apps = s
  BY <1>1, <1>4 DEF FlType
<1>7. Single(s)
  <2> SUFFICES ASSUME NEW j \in 1..(n - 1), NEW k \in 1..(n - 1), s[j].app = s[k].app
               PROVE  j = k
    BY <1>4 DEF Single
  <2> DEFINE old(x) == IF x < i THEN x ELSE x + 1
  <2>1. /\ s[j] = fl.apps[old(j)] /\ s[k] = fl.apps[old(k)]
        /\ old(j) \in 1..n /\ old(k) \in 1..n
    BY <1>2, <1>4
  <2>2. old(j) = old(k)
    BY <1>1, <2>1 DEF Single
  <2> QED BY <1>2, <2>2
<1> HIDE DEF r
<1>8. FlGood(fl')
  BY <1>5, <1>6, <1>7, RecalcFlasher
<1> QED BY <1>8 DEF FlasherInv, Redraw

LEMMA SwingType ==
    ASSUME NEW e \in AppIcon
    PROVE  Swing(e) \in AppIcon /\ Swing(e).app = e.app
<1>1. e.ticks \in 0..IconSize /\ (e.ticks # IconSize => e.ticks + 1 \in 0..IconSize)
  BY SizeIsNat DEF AppIcon
<1> QED BY <1>1, SizeIsNat DEF AppIcon, Swing

\* What stays of the list when some windows leave.
LEMMA StayList ==
    ASSUME NEW s \in Seq(AppIcon), Single(s), NEW I \in SUBSET (1..Len(s)),
           NEW kept \in Ascending(I), NEW t, t = [k \in DOMAIN kept |-> s[kept[k]]]
    PROVE  t \in Seq(AppIcon) /\ Single(t)
<1>1. Len(s) \in Nat /\ \A i \in 1..Len(s) : s[i] \in AppIcon
  BY SeqRange
<1>2. Cardinality(I) \in Nat
  <2>1. IsFiniteSet(1..Len(s))
    BY <1>1, FS_Interval
  <2> QED BY <2>1, FS_Subset, FS_CardinalityType
<1>3. /\ kept \in [1..Cardinality(I) -> I]
      /\ \A j, k \in 1..Cardinality(I) : j < k => kept[j] < kept[k]
  BY DEF Ascending
<1>4. t = [k \in 1..Cardinality(I) |-> s[kept[k]]]
  BY <1>3
<1>5. \A k \in 1..Cardinality(I) : t[k] = s[kept[k]] /\ kept[k] \in 1..Len(s)
  BY <1>3, <1>4
<1>6. t \in Seq(AppIcon) /\ Len(t) = Cardinality(I)
  BY <1>1, <1>2, <1>4, <1>5
<1>7. Single(t)
  <2> SUFFICES ASSUME NEW j \in 1..Cardinality(I), NEW k \in 1..Cardinality(I),
                      t[j].app = t[k].app, j # k
               PROVE  FALSE
    BY <1>6 DEF Single
  <2>1. /\ kept[j] \in 1..Len(s) /\ kept[k] \in 1..Len(s)
        /\ s[kept[j]].app = s[kept[k]].app
    BY <1>5
  <2>2. kept[j] = kept[k]
    BY <2>1 DEF Single
  <2>3. kept[j] \in Int /\ (j < k \/ k < j)
    BY <1>1, <1>2, <2>1
  <2> QED BY <1>3, <2>2, <2>3
<1> QED BY <1>6, <1>7

LEMMA FlasherTimerGood ==
    ASSUME FlasherInv, FlasherTimer
    PROVE  FlasherInv'
<1> DEFINE I == {i \in DOMAIN fl.apps : ~Leaves(fl.apps[i])}
<1>1. fl \in FlType /\ Single(fl.apps) /\ FlGood(fl)
  BY DEF FlasherInv, FlGood
<1>2. fl.apps \in Seq(AppIcon) /\ DOMAIN fl.apps = 1..Len(fl.apps)
  BY <1>1, FlFields
<1>3. I \in SUBSET (1..Len(fl.apps))
  BY <1>2
<1>4. /\ \E kept \in Ascending(I) :
           LET stay  == [k \in DOMAIN kept |-> fl.apps[kept[k]]]
               left  == IF Len(stay) = Len(fl.apps) THEN fl
                        ELSE recalc_size([fl EXCEPT !.apps = stay])
               swung == [left EXCEPT !.apps = [i \in DOMAIN @ |-> Swing(@[i])]]
           IN  fl' = IF left.shown THEN paint_flasher(swung) ELSE swung
      /\ UNCHANGED <<alive, front>>
  BY DEF FlasherTimer
<1> HIDE DEF I
<1>5. PICK kept \in Ascending(I) :
           LET stay  == [k \in DOMAIN kept |-> fl.apps[kept[k]]]
               left  == IF Len(stay) = Len(fl.apps) THEN fl
                        ELSE recalc_size([fl EXCEPT !.apps = stay])
               swung == [left EXCEPT !.apps = [i \in DOMAIN @ |-> Swing(@[i])]]
           IN  fl' = IF left.shown THEN paint_flasher(swung) ELSE swung
  BY <1>4
<1> DEFINE stay  == [k \in DOMAIN kept |-> fl.apps[kept[k]]]
           left  == IF Len(stay) = Len(fl.apps) THEN fl
                    ELSE recalc_size([fl EXCEPT !.apps = stay])
           swings == [i \in DOMAIN left.apps |-> Swing(left.apps[i])]
           swung == [left EXCEPT !.apps = swings]
<1>6. stay \in Seq(AppIcon) /\ Single(stay)
  BY <1>1, <1>2, <1>3, StayList
<1>7. FlGood(left)
  <2> HIDE DEF stay
  <2> DEFINE r == [fl EXCEPT !.apps = stay]
  <2>1. r \in FlType /\ r.apps = stay
    BY <1>1, <1>6 DEF FlType
  <2> HIDE DEF r
  <2>2. FlGood(recalc_size(r))
    BY <1>6, <2>1, RecalcFlasher
  <2> QED BY <1>1, <2>2 DEF r
<1>8. fl' = IF left.shown THEN paint_flasher(swung) ELSE swung
  BY <1>5
<1> HIDE DEF stay, left
<1>9. left \in FlType /\ Single(left.apps) /\ left.apps \in Seq(AppIcon)
      /\ DOMAIN left.apps = 1..Len(left.apps)
  BY <1>7, FlFields DEF FlGood
<1>10. \A i \in 1..Len(left.apps) : swings[i] \in AppIcon /\ swings[i].app = left.apps[i].app
  BY <1>9, FlFields, SwingType
<1>11. swings = [i \in 1..Len(left.apps) |-> swings[i]]
  BY <1>9
<1> HIDE DEF swings
<1>12. swings \in Seq(AppIcon) /\ SameApps(left.apps, swings)
  BY <1>9, <1>10, <1>11, MappedList
<1>13. swung \in FlType /\ swung.apps = swings /\ swung.size = left.size
       /\ swung.shown = left.shown
  BY <1>9, <1>12 DEF FlType
<1>14. Single(swings) /\ Len(swings) = Len(left.apps)
  BY <1>9, <1>12, SingleStays DEF SameApps
<1> HIDE DEF swung
<1>15. FlGood(fl')
  <2>1. CASE left.shown
    <3> DEFINE q == paint_flasher(swung)
    <3>1. /\ q \in FlType /\ q.size = swung.size /\ q.shown = swung.shown
          /\ q.painted = q.apps /\ SameApps(swung.apps, q.apps)
      BY <1>13, <1>14, PaintKeeps
    <3>2. fl' = q
      BY <1>8, <2>1
    <3> HIDE DEF q
    <3>3. Single(q.apps) /\ Len(q.apps) = Len(left.apps)
      BY <1>13, <1>14, <3>1, SingleStays DEF SameApps
    <3> QED BY <1>7, <1>13, <3>1, <3>2, <3>3 DEF FlGood
  <2>2. CASE ~left.shown
    BY <1>7, <1>8, <1>13, <1>14, <2>2 DEF FlGood
  <2> QED BY <2>1, <2>2
<1> QED BY <1>4, <1>15 DEF FlasherInv

LEMMA FlasherNextGood == FlasherInv /\ (FlasherNext \/ WindowsChange) => FlasherInv'
<1> SUFFICES ASSUME FlasherInv, FlasherNext \/ WindowsChange PROVE FlasherInv'
  OBVIOUS
<1>1. CASE \E w \in Apps : Flash(w) \/ Redraw(w)
  BY <1>1, FlashGood, RedrawGood
<1>2. CASE FlasherTimer
  BY <1>2, FlasherTimerGood
<1>3. ASSUME NEW i \in DOMAIN fl.painted, NEW y \in 0..(Breadth - 1), FlasherClick(i, y)
      PROVE  FlasherInv'
  BY <1>3 DEF FlasherClick, FlasherInv
<1>4. CASE WindowsChange
  <2>1. alive' \subseteq Apps /\ front' \in alive' \cup {Nobody} /\ fl' = fl
    BY <1>4 DEF WindowsChange, FlasherInv
  <2> QED BY <2>1 DEF FlasherInv
<1> QED BY <1>1, <1>2, <1>3, <1>4 DEF FlasherNext

LEMMA FlasherStartedGood == FlGood(FlasherStarted)
<1>1. <<>> \in Seq(AppIcon) /\ Len(<<>>) = 0
  BY EmptySeq
<1>2. NoFlasher \in FlType /\ NoFlasher.apps = <<>>
  BY <1>1 DEF NoFlasher, FlType
<1>3. Single(<<>>)
  BY <1>1 DEF Single
<1> QED BY <1>2, <1>3, RecalcFlasher DEF FlasherStarted

LEMMA FlasherFollows == FlasherInv => FlasherIsWhole
<1> SUFFICES ASSUME FlasherInv PROVE FlasherIsWhole
  OBVIOUS
<1>1. FlGood(fl) /\ alive \subseteq Apps /\ front \in alive \cup {Nobody}
  BY DEF FlasherInv
<1>2. \A i \in DOMAIN fl.apps : fl.apps[i] \in AppIcon
  BY <1>1, FlFields DEF FlGood
<1> QED BY <1>1, <1>2 DEF FlGood, Single, FlasherIsWhole, FlasherType, AppIcon

-----------------------------------------------------------------------------
(* The clock: its window has the size of its text.                         *)
ClockParts(c) == c = [datable |-> c.datable, font |-> c.font, size |-> c.size,
                      text |-> c.text, told |-> c.told, grav |-> c.grav]
ClockInv == ClockParts(ck) /\ ClockFits

\* A clock that has been painted, at an edge.
Shown(c, grav) ==
    /\ ClockParts(c) /\ c.size = Cardinality(c.text) /\ c.font
    /\ c.text = Lines(c.datable, c.told) /\ c.grav = grav

LEMMA PaintClock ==
    ASSUME NEW c, ClockParts(c), NEW d, d = paint_clock(c)
    PROVE  Shown(d, c.grav)
<1>1. d = [datable |-> c.datable, font |-> TRUE, size |-> Cardinality(Lines(c.datable, mail)),
           text |-> Lines(c.datable, mail), told |-> mail, grav |-> c.grav]
  BY Zenon DEF paint_clock, ClockParts
<1>2. /\ d.datable = c.datable /\ d.size = Cardinality(d.text)
      /\ d.text = Lines(c.datable, mail) /\ d.told = mail /\ d.grav = c.grav
  BY <1>1
<1>3. d.font
  BY <1>1
<1>4. ClockParts(d)
  BY <1>1, Zenon DEF ClockParts
<1> QED BY <1>2, <1>3, <1>4, Zenon DEF Shown

LEMMA MovedClock ==
    ASSUME NEW c, ClockParts(c), NEW e, NEW d, d = handle_slit_layout_change(c, e)
    PROVE  Shown(d, IF e \in Upright THEN "BOTTOM" ELSE "RIGHT")
<1> DEFINE g == IF e \in Upright THEN "BOTTOM" ELSE "RIGHT"
           b == [c EXCEPT !.grav = g]
<1>1. d = paint_clock(b)
  BY DEF handle_slit_layout_change
<1> HIDE DEF g
<1>2. ClockParts(b) /\ b.grav = g
  BY DEF ClockParts
<1> HIDE DEF b
<1>3. Shown(d, g)
  BY <1>1, <1>2, PaintClock
<1> QED BY <1>3 DEF g

LEMMA ClockNext == ClockInv /\ (ClockTimer \/ MailChanges \/ SlitMoves) => ClockInv'
<1> SUFFICES ASSUME ClockInv, ClockTimer \/ MailChanges \/ SlitMoves PROVE ClockInv'
  OBVIOUS
<1> DEFINE g(e) == IF e \in Upright THEN "BOTTOM" ELSE "RIGHT"
<1>1. CASE ClockTimer
  <2>1. ck' = paint_clock(ck) /\ edge' = edge
    BY <1>1 DEF ClockTimer
  <2>2. Shown(ck', g(edge'))
    BY <2>1, PaintClock DEF ClockInv, ClockFits
  <2> HIDE DEF g
  <2> QED BY <2>2, Zenon DEF Shown, ClockInv, ClockFits, g
<1>2. CASE MailChanges
  BY <1>2 DEF MailChanges, ClockInv, ClockFits, ClockParts
<1>3. CASE SlitMoves
  <2>1. PICK e \in {"LEFT", "RIGHT", "TOP", "BOTTOM"} :
           edge' = e /\ ck' = handle_slit_layout_change(ck, e)
    BY <1>3 DEF SlitMoves
  <2>2. Shown(ck', g(edge'))
    BY <2>1, MovedClock DEF ClockInv
  <2> HIDE DEF g
  <2> QED BY <2>2, Zenon DEF Shown, ClockInv, ClockFits, g
<1> QED BY <1>1, <1>2, <1>3

LEMMA ClockStartedGood ==
    ASSUME NEW d, ck = ClockStarted(d)
    PROVE  ClockInv
<1> DEFINE c == [NoClock EXCEPT !.datable = d]
<1>1. ck = handle_slit_layout_change(c, edge)
  BY DEF ClockStarted
<1>2. ClockParts(c)
  <2>1. ClockParts(NoClock)
    BY Zenon DEF ClockParts, NoClock
  <2> QED BY <2>1 DEF ClockParts
<1> HIDE DEF c
<1>3. Shown(ck, IF edge \in Upright THEN "BOTTOM" ELSE "RIGHT")
  BY <1>1, <1>2, MovedClock
<1> QED BY <1>3, Zenon DEF Shown, ClockInv, ClockFits

-----------------------------------------------------------------------------
(* The quick launch bar.                                                   *)
LEMMA AscendingIsOnto ==
    ASSUME NEW n \in Nat, NEW I \in SUBSET (1..n), NEW s \in Ascending(I)
    PROVE  /\ Cardinality(I) \in Nat
           /\ s \in [1..Cardinality(I) -> I]
           /\ \A j, k \in 1..Cardinality(I) : j < k => s[j] < s[k]
           /\ \A i \in I : \E k \in 1..Cardinality(I) : s[k] = i
<1> DEFINE D == 1..Cardinality(I)
<1>1. IsFiniteSet(1..n)
  BY FS_Interval
<1>2. IsFiniteSet(I)
  BY <1>1, FS_Subset
<1>3. Cardinality(I) \in Nat
  BY <1>2, FS_CardinalityType
<1>4. s \in [D -> I] /\ \A j, k \in D : j < k => s[j] < s[k]
  BY DEF Ascending
<1>5. s \in Injection(D, I)
  <2>1. \A j, k \in D : s[j] = s[k] => j = k
    <3> SUFFICES ASSUME NEW j \in D, NEW k \in D, s[j] = s[k], j # k PROVE FALSE
      OBVIOUS
    <3>1. s[j] \in 1..n /\ s[k] \in 1..n
      BY <1>4
    <3>2. j < k \/ k < j
      BY <1>3
    <3> QED BY <1>4, <3>1, <3>2
  <2> QED BY <2>1, <1>4 DEF Injection, IsInjective
<1>6. Cardinality(D) = Cardinality(I)
  BY <1>3, FS_Interval
<1>7. s \in Surjection(D, I)
  BY <1>2, <1>5, <1>6, FS_Injection
<1>8. \A i \in I : \E k \in D : s[k] = i
  BY <1>7 DEF Surjection
<1> QED BY <1>3, <1>4, <1>8

LEMMA Least ==
    ASSUME NEW I \in SUBSET Nat, NEW n \in I
    PROVE  \E i \in I : \A j \in I : ~(j < i)
<1>1. IsWellFoundedOn(OpToRel(<, Nat), Nat)
  BY NatLessThanWellFounded
<1>2. PICK i \in I : \A j \in I : ~(<<j, i>> \in OpToRel(<, Nat))
  BY <1>1, WFMin
<1> QED BY <1>2 DEF OpToRel

LEMMA Greatest ==
    ASSUME NEW k \in Nat, NEW I \in SUBSET (1..k), I # {}
    PROVE  \E i \in I : \A j \in I : j <= i
<1> DEFINE R == {k - i : i \in I}
<1>1. PICK i0 \in I : TRUE
  OBVIOUS
<1>2. R \in SUBSET Nat /\ k - i0 \in R
  BY <1>1
<1> HIDE DEF R
<1>3. PICK r \in R : \A q \in R : ~(q < r)
  BY <1>2, Least
<1> USE DEF R
<1>4. PICK i \in I : r = k - i
  BY <1>3
<1>5. \A j \in I : k - j \in R
  OBVIOUS
<1>6. \A j \in I : ~(k - j < k - i)
  BY <1>3, <1>4, <1>5
<1>7. \A j \in I : j <= i
  BY <1>6
<1> QED BY <1>7

LEMMA FilesAre ==
    /\ Len(Files) \in Nat /\ DOMAIN Files = 1..Len(Files) /\ Pad \in Nat
    /\ \A x \in DOMAIN Files : Files[x].wide \in Nat
<1>1. Files \in Seq(FileType) /\ Pad \in Nat
  BY QuickLaunchAssumption
<1>2. Len(Files) \in Nat /\ DOMAIN Files = 1..Len(Files) /\ \A x \in 1..Len(Files) : Files[x] \in FileType
  BY <1>1, SeqRange
<1> QED BY <1>1, <1>2 DEF FileType

LEMMA SizeType ==
    ASSUME NEW q, q.size \in Nat, NEW n \in Nat, NEW its \in [1..n -> DOMAIN Files],
           NEW k \in 0..n
    PROVE  SizeAt(q, its, k) \in Nat
<1> DEFINE known == {j \in 1..k : Files[its[j]].wide # 0}
           top == CHOOSE j \in known : \A m \in known : m <= j
<1>1. SizeAt(q, its, k) = IF known = {} THEN q.size ELSE Files[its[top]].wide
  BY DEF SizeAt
<1>2. known \in SUBSET (1..k) /\ k \in Nat
  OBVIOUS
<1>3. known # {} => top \in known
  <2> HIDE DEF known
  <2>1. known # {} => \E j \in known : \A m \in known : m <= j
    BY <1>2, Greatest
  <2> QED BY <2>1
<1>4. known # {} => top \in 1..n /\ its[top] \in DOMAIN Files
  <2>1. known # {} => top \in 1..k
    BY <1>3
  <2> HIDE DEF top
  <2> QED BY <2>1
<1> QED BY <1>1, <1>4, FilesAre

AllWide(its, n, w) == \A j \in 1..n : Files[its[j]].wide = w

LEMMA SizeOfAll ==
    ASSUME NEW q, NEW n \in Nat, NEW its \in [1..n -> DOMAIN Files], NEW k \in 1..n,
           NEW w, w # 0, AllWide(its, n, w)
    PROVE  SizeAt(q, its, k) = w
<1> DEFINE known == {j \in 1..k : Files[its[j]].wide # 0}
           top == CHOOSE j \in known : \A m \in known : m <= j
<1>1. SizeAt(q, its, k) = IF known = {} THEN q.size ELSE Files[its[top]].wide
  BY DEF SizeAt
<1>2. k \in known /\ \A m \in known : m <= k
  BY DEF AllWide
<1>3. top \in known
  <2> HIDE DEF known
  <2> QED BY <1>2
<1>4. top \in 1..n
  <2> HIDE DEF top
  <2> QED BY <1>3
<1> QED BY <1>1, <1>2, <1>4 DEF AllWide

\* What LinksAreWhole says of a plugin that runs, and the types it rests on.
Tool == [id : Nat, text : DOMAIN Files, size : Nat]
LinkType == [items : Seq(DOMAIN Files), hot : SUBSET Nat, icons : SUBSET DOMAIN Files,
             tools : SUBSET Tool, size : Nat, width : Nat, length : Nat, up : BOOLEAN]
Sized(q) == {q.items[i] : i \in 1..Len(q.items)}
ToolsWhole(q) ==
    /\ {t.id : t \in q.tools} = 1..Len(q.items)
    /\ \A t \in q.tools : t.text = q.items[t.id]
    /\ \A s, t \in q.tools : s.id = t.id => s = t
    /\ (\A x, y \in Sized(q) : Files[x].wide = Files[y].wide /\ Files[x].wide # 0)
          => \A t \in q.tools : t.size = q.size
Whole(q) == /\ ToolsWhole(q) /\ q.icons = Sized(q)
            /\ \A i \in q.hot : i <= Len(q.items) /\ q.hot = {i}
            /\ q.length = Pad + Len(q.items) * (q.size + Pad)

LinksInv == dir \subseteq DOMAIN Files /\ ql \in LinkType /\ (ql.up => Whole(ql))

LEMMA LinkFields ==
    ASSUME NEW q \in LinkType
    PROVE  /\ q.items \in Seq(DOMAIN Files) /\ q.hot \in SUBSET Nat
           /\ q.icons \in SUBSET DOMAIN Files /\ q.tools \in SUBSET Tool
           /\ q.size \in Nat /\ q.width \in Nat /\ q.length \in Nat
           /\ Len(q.items) \in Nat /\ DOMAIN q.items = 1..Len(q.items)
           /\ \A i \in 1..Len(q.items) : q.items[i] \in DOMAIN Files
<1>1. /\ q.items \in Seq(DOMAIN Files) /\ q.hot \in SUBSET Nat
      /\ q.icons \in SUBSET DOMAIN Files /\ q.tools \in SUBSET Tool
      /\ q.size \in Nat /\ q.width \in Nat /\ q.length \in Nat
  BY DEF LinkType
<1> QED BY <1>1, SeqRange

LEMMA LinksFollow == LinksInv => LinksAreWhole
BY DEF LinksInv, Whole, ToolsWhole, Sized, LinksAreWhole

LEMMA ListingType ==
    ASSUME dir \subseteq DOMAIN Files
    PROVE  Listing \in SUBSET (1..Len(Files)) /\ Listing \subseteq DOMAIN Files
BY FilesAre DEF Listing

\* Reading the directory makes a bar that is whole, if no tool tip of the last
\* reading is forgotten.
LEMMA ScanGood ==
    ASSUME dir \subseteq DOMAIN Files, NEW q \in LinkType,
           \A t \in q.tools : t.id <= Len(q.items),
           NEW r \in scan_dir(q)
    PROVE  r \in LinkType /\ Whole(r)
<1> DEFINE n == Cardinality(Listing)
<1>1. PICK its \in Ascending(Listing), u \in BOOLEAN :
         r = [Measure(ScanFiles(Forget(q), its)) EXCEPT !.up = u]
  BY DEF scan_dir
<1>2. /\ n \in Nat /\ its \in [1..n -> Listing]
      /\ \A j, k \in 1..n : j < k => its[j] < its[k]
      /\ \A x \in Listing : \E k \in 1..n : its[k] = x
  BY ListingType, FilesAre, AscendingIsOnto
<1>3. its \in [1..n -> DOMAIN Files]
  BY <1>2, ListingType
<1>4. its \in Seq(DOMAIN Files) /\ Len(its) = n
  BY <1>2, <1>3
<1> HIDE DEF n
<1> DEFINE f == Forget(q)
           Sz(k) == SizeAt(f, its, k)
           tips == {[id |-> k, text |-> its[k], size |-> Sz(k)] : k \in 1..n}
           a == ScanFiles(f, its)
           b == Measure(a)
<1>5. f.tools = {} /\ f.items = <<>> /\ f.hot = {} /\ f.size = q.size /\ f \in LinkType
  <2>1. f = [q EXCEPT !.items = <<>>, !.hot = {}, !.icons = {},
                      !.tools = {t \in @ : t.id > Len(q.items)}]
    BY DEF Forget
  <2>2. \A t \in q.tools : ~(t.id > Len(q.items))
    BY LinkFields DEF Tool
  <2>3. {t \in q.tools : t.id > Len(q.items)} = {}
    BY <2>2
  <2>4. f = [q EXCEPT !.items = <<>>, !.hot = {}, !.icons = {}, !.tools = {}]
    BY <2>1, <2>3, LinkFields DEF LinkType
  <2>5. <<>> \in Seq(DOMAIN Files)
    BY EmptySeq
  <2> HIDE DEF f
  <2> QED BY <2>4, <2>5 DEF LinkType
<1>6. \A k \in 0..n : Sz(k) \in Nat
  BY <1>2, <1>3, <1>5, LinkFields, SizeType
<1>7. \A w : w # 0 /\ AllWide(its, n, w) => \A k \in 1..n : Sz(k) = w
  <2> HIDE DEF f
  <2> QED BY <1>2, <1>3, SizeOfAll
<1>8. a = [f EXCEPT !.items = its, !.icons = Listing, !.size = Sz(n), !.tools = @ \cup tips]
  BY <1>4 DEF ScanFiles
<1> HIDE DEF f, Sz
<1>9. \A t \in tips : \E k \in 1..n : t.id = k /\ t.text = its[k] /\ t.size = Sz(k) /\ t \in Tool
  <2> SUFFICES ASSUME NEW k \in 1..n
               PROVE  [id |-> k, text |-> its[k], size |-> Sz(k)] \in Tool
    OBVIOUS
  <2>1. k \in Nat /\ its[k] \in DOMAIN Files /\ Sz(k) \in Nat
    BY <1>2, <1>3, <1>6
  <2> QED BY <2>1 DEF Tool
<1>10. \A k \in 1..n : \E t \in tips : t.id = k
  <2> SUFFICES ASSUME NEW k \in 1..n PROVE \E t \in tips : t.id = k
    OBVIOUS
  <2> WITNESS [id |-> k, text |-> its[k], size |-> Sz(k)] \in tips
  <2> QED OBVIOUS
<1>11. \A s, t \in tips : s.id = t.id => s = t
  OBVIOUS
<1>12. tips \in SUBSET Tool
  BY <1>9
<1> HIDE DEF tips
<1>13. Sz(n) \in Nat /\ Listing \in SUBSET DOMAIN Files
  BY <1>2, <1>6, ListingType
<1>14. /\ a \in LinkType /\ a.items = its /\ a.icons = Listing /\ a.size = Sz(n)
       /\ a.tools = tips /\ a.hot = {}
  <2>1. a = [f EXCEPT !.items = its, !.icons = Listing, !.size = Sz(n), !.tools = tips]
    BY <1>5, <1>8 DEF LinkType
  <2> HIDE DEF a
  <2> QED BY <1>4, <1>5, <1>12, <1>13, <2>1 DEF LinkType
<1> HIDE DEF a
<1>15. b = [a EXCEPT !.width = a.size + a.size \div 2,
                     !.length = Pad + (a.size + Pad) * n]
  BY <1>4, <1>14 DEF Measure
<1> HIDE DEF b
<1>16. /\ a.size + a.size \div 2 \in Nat /\ Pad + (a.size + Pad) * n \in Nat
       /\ (a.size + Pad) * n = n * (a.size + Pad)
  BY <1>2, <1>13, <1>14, FilesAre
<1>17. /\ b \in LinkType /\ b.items = its /\ b.icons = Listing /\ b.size = Sz(n)
       /\ b.tools = tips /\ b.hot = {} /\ b.length = Pad + n * (b.size + Pad)
  BY <1>14, <1>15, <1>16 DEF LinkType
<1>18. r = [b EXCEPT !.up = u]
  BY <1>1 DEF a, b, f
<1>19. /\ r.items = its /\ r.icons = Listing /\ r.size = Sz(n)
       /\ r.tools = tips /\ r.hot = {} /\ r.length = Pad + n * (r.size + Pad)
  BY <1>17, <1>18 DEF LinkType
<1>20. r \in LinkType
  BY <1>17, <1>18, Zenon DEF LinkType
<1>21. Sized(r) = Listing
  BY <1>2, <1>4, <1>19 DEF Sized
<1>22. ToolsWhole(r)
  <2>1. {t.id : t \in r.tools} = 1..Len(r.items)
    BY <1>4, <1>9, <1>10, <1>19
  <2>2. \A t \in r.tools : t.text = r.items[t.id]
    BY <1>9, <1>19
  <2>3. ASSUME \A x, y \in Sized(r) : Files[x].wide = Files[y].wide /\ Files[x].wide # 0,
               NEW t \in r.tools
        PROVE  t.size = r.size
    <3>1. PICK k \in 1..n : t.size = Sz(k)
      BY <1>9, <1>19
    <3>2. n \in 1..n
      BY <1>2, <3>1
    <3> DEFINE w == Files[its[n]].wide
    <3>3. \A j \in 1..n : its[j] \in Sized(r)
      BY <1>2, <1>21
    <3>4. w # 0 /\ AllWide(its, n, w)
      BY <2>3, <3>2, <3>3 DEF AllWide
    <3> HIDE DEF w
    <3>5. \A j \in 1..n : Sz(j) = w
      BY <1>7, <3>4
    <3> QED BY <1>19, <3>1, <3>2, <3>5
  <2> QED BY <1>11, <1>19, <2>1, <2>2, <2>3 DEF ToolsWhole
<1> QED BY <1>4, <1>19, <1>20, <1>21, <1>22 DEF Whole

\* A pixel is over at most one icon.
LEMMA OverOne ==
    ASSUME ql \in LinkType, NEW at \in Int
    PROVE  /\ Over(at) \in SUBSET Nat
           /\ \A i \in Over(at) : i <= Len(ql.items) /\ Over(at) = {i}
<1> DEFINE a == ql.size + Pad
           n == Len(ql.items)
<1>1. a \in Nat /\ Pad \in Nat /\ n \in Nat /\ DOMAIN ql.items = 1..n
  BY FilesAre, LinkFields
<1>2. \A i \in Over(at) : i \in 1..n /\ Pad + (i - 1) * a <= at /\ at < i * a
  <2>1. \A i \in Over(at) : i \in 1..n /\ at \in (Pad + (i - 1) * a) .. (i * a - 1)
    BY <1>1 DEF Over
  <2> HIDE DEF a
  <2>2. \A i \in 1..n : (i - 1) * a \in Int /\ i * a \in Int
    BY <1>1
  <2> QED BY <1>1, <2>1, <2>2
<1> HIDE DEF a
<1>3. ASSUME NEW i \in Over(at), NEW j \in Over(at), i < j
      PROVE  FALSE
  <2>1. i \in Nat /\ j \in Nat /\ j - 1 - i \in Nat
    BY <1>1, <1>2, <1>3
  <2>2. (j - 1) * a = i * a + (j - 1 - i) * a
    BY <1>1, <2>1
  <2>3. (j - 1 - i) * a \in Nat /\ i * a \in Nat
    BY <1>1, <2>1
  <2> QED BY <1>1, <1>2, <2>2, <2>3
<1>4. \A i, j \in Over(at) : i = j
  BY <1>1, <1>2, <1>3
<1> QED BY <1>1, <1>2, <1>4

LEMMA LinksNextGood ==
    LinksInv /\ (LinksNext \/ DirectoryChanges) => LinksInv'
<1> SUFFICES ASSUME LinksInv, LinksNext \/ DirectoryChanges PROVE LinksInv'
  OBVIOUS
<1>1. dir \subseteq DOMAIN Files /\ ql \in LinkType /\ (ql.up => Whole(ql))
  BY DEF LinksInv
<1>2. ql.up => \A t \in ql.tools : t.id <= Len(ql.items)
  BY <1>1, LinkFields DEF Whole, ToolsWhole
<1>3. ASSUME ql.up, ql' \in scan_dir(ql), UNCHANGED dir
      PROVE  LinksInv'
  <2>1. ql' \in LinkType /\ Whole(ql')
    BY <1>1, <1>2, <1>3, ScanGood
  <2> QED BY <1>1, <1>3, <2>1 DEF LinksInv
<1>4. Spots \subseteq Int
  BY <1>1, LinkFields, FilesAre DEF Spots
<1>5. ASSUME NEW at \in Int, LinksMouse(at)
      PROVE  LinksInv'
  <2>1. ql' = [ql EXCEPT !.hot = Over(at)] /\ dir' = dir /\ ql.up
    BY <1>5 DEF LinksMouse
  <2>2. /\ Over(at) \in SUBSET Nat
        /\ \A i \in Over(at) : i <= Len(ql.items) /\ Over(at) = {i}
    BY <1>1, OverOne
  <2> DEFINE h == Over(at)
  <2>3. ql' = [ql EXCEPT !.hot = h]
    BY <2>1
  <2> HIDE DEF h
  <2>4. /\ ql'.items = ql.items /\ ql'.icons = ql.icons /\ ql'.size = ql.size
        /\ ql'.tools = ql.tools /\ ql'.hot = h /\ ql'.length = ql.length
    BY <1>1, <2>3 DEF LinkType
  <2>5. ql' \in LinkType
    <3>1. h \in SUBSET Nat
      BY <2>2 DEF h
    <3> QED BY <1>1, <2>3, <3>1, Zenon DEF LinkType
  <2>6. Whole(ql')
    BY <1>1, <2>1, <2>2, <2>4 DEF Whole, ToolsWhole, Sized, h
  <2> QED BY <1>1, <2>1, <2>5, <2>6 DEF LinksInv
<1>6. ASSUME NEW at \in Int, LinksClick(at)
      PROVE  LinksInv'
  BY <1>1, <1>3, <1>6 DEF LinksClick, LinksInv
<1>7. CASE LinksKey
  BY <1>3, <1>7 DEF LinksKey
<1>8. CASE DirectoryChanges
  <2>1. dir' \subseteq DOMAIN Files /\ ql' = ql
    BY <1>1, <1>8 DEF DirectoryChanges
  <2> QED BY <1>1, <2>1 DEF LinksInv
<1> QED BY <1>4, <1>5, <1>6, <1>7, <1>8 DEF LinksNext

LEMMA NoLinksType == NoLinks \in LinkType /\ \A t \in NoLinks.tools : t.id <= Len(NoLinks.items)
<1>1. <<>> \in Seq(DOMAIN Files) /\ {} \in SUBSET Nat /\ {} \in SUBSET DOMAIN Files
      /\ {} \in SUBSET Tool /\ 32 \in Nat /\ 48 \in Nat /\ 40 \in Nat
  BY EmptySeq
<1>2. NoLinks \in LinkType
  BY <1>1, Zenon DEF NoLinks, LinkType
<1>3. NoLinks.tools = {}
  BY DEF NoLinks
<1> QED BY <1>2, <1>3

-----------------------------------------------------------------------------
(* The plugins together.                                                   *)
IInv == /\ loaded \subseteq Plugins /\ TrayInv
        /\ "flasher" \in loaded => FlasherInv
        /\ "quicklaunch" \in loaded => LinksInv
        /\ "clock" \in loaded => ClockInv

LEMMA Initial == PanelInit => IInv
<1> SUFFICES ASSUME PanelInit PROVE IInv
  OBVIOUS
<1>1. loaded \subseteq Plugins /\ TrayInv
  BY PanelAssumption, TrayInit DEF PanelInit
<1>2. ASSUME "flasher" \in loaded PROVE FlasherInv
  <2>1. alive = Apps /\ front = Nobody /\ fl = FlasherStarted
    BY <1>2 DEF PanelInit
  <2> QED BY <2>1, FlasherStartedGood DEF FlasherInv
<1>3. ASSUME "quicklaunch" \in loaded PROVE LinksInv
  <2>1. dir \subseteq DOMAIN Files /\ ql \in scan_dir(NoLinks)
    BY <1>3 DEF PanelInit
  <2>2. ql \in LinkType /\ Whole(ql)
    BY <2>1, NoLinksType, ScanGood
  <2> QED BY <2>1, <2>2 DEF LinksInv
<1>4. ClockInv
  <2>1. \E d : ck = ClockStarted(d)
    BY DEF PanelInit
  <2> QED BY <2>1, ClockStartedGood
<1> QED BY <1>1, <1>2, <1>3, <1>4 DEF IInv

LEMMA Step == IInv /\ [PanelNext]_panel => IInv'
<1> SUFFICES ASSUME IInv, [PanelNext]_panel PROVE IInv'
  OBVIOUS
<1>1. ASSUME UNCHANGED bar PROVE TrayInv'
  BY <1>1 DEF IInv, bar, TrayInv
<1>2. ASSUME UNCHANGED flasher, FlasherInv PROVE FlasherInv'
  BY <1>2 DEF flasher, FlasherInv
<1>3. ASSUME UNCHANGED links, LinksInv PROVE LinksInv'
  BY <1>3 DEF links, LinksInv
<1>4. ASSUME UNCHANGED clock, ClockInv PROVE ClockInv'
  BY <1>4 DEF clock, ClockInv, ClockFits
<1>5. CASE TrayStep
  <2>1. TrayInv'
    BY <1>5, TrayNext DEF TrayStep, IInv
  <2> QED BY <1>2, <1>3, <1>4, <1>5, <2>1 DEF TrayStep, IInv
<1>6. CASE FlashStep
  <2>1. FlasherInv'
    BY <1>6, FlasherNextGood DEF FlashStep, IInv
  <2> QED BY <1>1, <1>3, <1>4, <1>6, <2>1 DEF FlashStep, IInv
<1>7. CASE LinksStep
  <2>1. LinksInv'
    BY <1>7, LinksNextGood DEF LinksStep, IInv
  <2> QED BY <1>1, <1>2, <1>4, <1>7, <2>1 DEF LinksStep, IInv
<1>8. CASE ClockStep
  <2>1. ClockInv'
    BY <1>8, ClockNext DEF ClockStep, IInv
  <2> QED BY <1>1, <1>2, <1>3, <1>8, <2>1 DEF ClockStep, IInv
<1>9. ASSUME NEW x \in Plugins, Unload(x) PROVE IInv'
  <2>1. /\ loaded' = loaded \ {x} /\ UNCHANGED <<bar, alive, front, dir, clock>>
        /\ x # "flasher" => fl' = fl
        /\ x # "quicklaunch" => ql' = ql
    BY <1>9 DEF Unload
  <2>2. "flasher" \in loaded' => FlasherInv'
    BY <1>2, <2>1 DEF IInv, flasher
  <2>3. "quicklaunch" \in loaded' => LinksInv'
    BY <1>3, <2>1 DEF IInv, links
  <2>4. "clock" \in loaded' => ClockInv'
    BY <1>4, <2>1 DEF IInv
  <2> QED BY <1>1, <2>1, <2>2, <2>3, <2>4 DEF IInv
<1>10. CASE UNCHANGED panel
  BY <1>1, <1>2, <1>3, <1>4, <1>10 DEF panel, IInv
<1> QED BY <1>5, <1>6, <1>7, <1>8, <1>9, <1>10 DEF PanelNext

(* The invariant of the four plugins and the core's list, whichever are loaded. *)
THEOREM Invariance == PanelSpec => []IInv
BY Initial, Step, PTL DEF PanelSpec

(* The core's list, the plugin's vector, the queue of balloons and the tool tips
   agree: coretray.cpp and on_tray_change of tray.cpp. *)
THEOREM PanelAlwaysWhole == PanelSpec => []PanelIsWhole
<1>1. IInv => PanelIsWhole
  BY TrayFollows DEF IInv
<1> QED BY <1>1, Invariance, PTL

(* Flasher, quick launch bar and clock show what they do: flasher.cpp,
   quicklaunch.cpp and clock.cpp. *)
THEOREM PluginsAlwaysWhole == PanelSpec => []PluginsAreWhole
<1>1. IInv => PluginsAreWhole
  BY FlasherFollows, LinksFollow DEF IInv, PluginsAreWhole, ClockInv
<1> QED BY <1>1, Invariance, PTL
=============================================================================
