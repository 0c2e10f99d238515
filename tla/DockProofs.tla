----------------------------- MODULE DockProofs -----------------------------
(***************************************************************************)
(* The dock's list of icons is sound, keeps the windows that flash and     *)
(* comes to show its directory, for any windows, shortcuts and programs    *)
(* and any bound on what the world does.                                   *)
(*                                                                         *)
(* The list changes in five ways: the windows of an icon change, an icon   *)
(* is removed, a task icon is appended, the directory is scanned, or a     *)
(* menu holds and releases an icon.  What an invariant says of the list    *)
(* alone is stated for any list s, and one lemma for each way says that it *)
(* is kept.  All but the growing ones leave a list whose icons descend     *)
(* from the old ones in their order, which is why a window is still found  *)
(* at the icon that lists it.                                              *)
(*                                                                         *)
(* The second half is about the slits, in which the dock and the other     *)
(* plugins have their windows: they keep these apart, reserve what they    *)
(* need and can be brought back, for any slits, windows, sizes and edges.  *)
(***************************************************************************)
EXTENDS Dock, Slit, FiniteSetTheorems, SequenceTheorems, WellFoundedInduction, TLAPS

(*------------------------- the inductive invariant -----------------------*)
APPS == UNION {[S -> BOOLEAN] : S \in SUBSET Win}
ICON == [file : File \cup {NoFile}, module : Module \cup {Unreadable},
         apps : APPS, held : BOOLEAN]

(* find_matching_item finds a listed window at the icon that lists it: no  *)
(* icon before it lists the window or has its module below a resident one. *)
(* OneIconPerWindow follows, and Adopt needs it: a window that is not      *)
(* found by itself is listed nowhere.                                      *)
Hits(s, w, i) ==
    \/ w \in Apps(s[i])
    \/ /\ \E j \in 1..i : Resident(s[j])
       /\ moduleOf[w] # Unreadable /\ s[i].module = moduleOf[w]
Found(s) ==
    \A j \in 1..Len(s) : \A w \in Apps(s[j]) : \A i \in 1..(j - 1) : ~Hits(s, w, i)
Solid(s) == \A i \in 1..Len(s) : Resident(s[i]) \/ s[i].apps # NoApps
Single(s) ==
    \A i, j \in 1..Len(s) : Resident(s[i]) /\ s[i].file = s[j].file => i = j
Sound(s) == s \in Seq(ICON) /\ Found(s) /\ Solid(s) /\ Single(s)

(* The type invariant without the list's; the second half of scan_tasks    *)
(* alone moves at.                                                         *)
Scalars ==
    /\ alive \subseteq Win /\ visible \subseteq alive /\ elsewhere \subseteq App
    /\ dir \subseteq File /\ flashes \subseteq Win /\ moves \in 0..MaxMoves
    /\ armed \in BOOLEAN /\ noticed \in BOOLEAN /\ missed \in BOOLEAN
    /\ has_changed \in BOOLEAN /\ is_vert \in BOOLEAN
    /\ room \in [icons : Nat, vert : BOOLEAN]
    /\ menu \in [shown : BOOLEAN, launches : File \cup {NoFile}, removed : BOOLEAN]
    /\ dir_change_time \in {"off", "set", "due"}
    /\ pc \in {"idle", "enum", "dead"} /\ todo \subseteq Win
Position == at \in 1..(Len(items) + 1) /\ (pc # "dead" => at = 1)

(* Whoever adds or removes an icon has set has_changed.                    *)
Room == /\ pc = "idle" => ~has_changed
        /\ ~has_changed => room = [icons |-> Len(items), vert |-> is_vert]

(* What a shown menu launches is in the directory.                         *)
MenuFile == menu.launches # NoFile /\ ~menu.removed => menu.launches \in dir

(* Also while nobody watches, as long as nothing was missed.               *)
Followed == ~noticed /\ ~missed /\ dir_change_time = "off" => Residents(items) = dir

IInv == /\ Scalars /\ Position /\ Sound(items) /\ Room
        /\ MenuFile /\ MenuIconLives /\ Followed

-----------------------------------------------------------------------------
(* Sequences without one element, increasing ones and orders of a set.     *)

LEMMA Removed ==
    ASSUME NEW S, NEW s \in Seq(S), NEW i \in 1..Len(s)
    PROVE  /\ RemoveAt(s, i) \in Seq(S)
           /\ Len(RemoveAt(s, i)) = Len(s) - 1
           /\ \A k \in 1..(Len(s) - 1) :
                 RemoveAt(s, i)[k] = IF k < i THEN s[k] ELSE s[k + 1]
<1> DEFINE a == SubSeq(s, 1, i - 1)
           b == SubSeq(s, i + 1, Len(s))
<1>1. Len(s) \in Nat /\ i \in Int /\ \A k \in 1..Len(s) : s[k] \in S
  BY LenProperties, ElementOfSeq
<1>2. a \in Seq(S) /\ Len(a) = i - 1 /\ \A k \in 1..(i - 1) : a[k] = s[k]
  <2>1. \A k \in 1..(i - 1) : s[k] \in S
    BY <1>1
  <2>2. /\ a \in Seq(S)
        /\ Len(a) = (IF 1 <= i - 1 THEN i - 1 - 1 + 1 ELSE 0)
        /\ \A k \in 1..(i - 1 - 1 + 1) : a[k] = s[1 + k - 1]
    BY <2>1, <1>1, SubSeqProperties
  <2> QED BY <2>2, <1>1
<1>3. b \in Seq(S) /\ Len(b) = Len(s) - i /\ \A k \in 1..(Len(s) - i) : b[k] = s[i + k]
  <2>1. \A k \in (i + 1)..Len(s) : s[k] \in S
    BY <1>1
  <2>2. /\ b \in Seq(S)
        /\ Len(b) = (IF i + 1 <= Len(s) THEN Len(s) - (i + 1) + 1 ELSE 0)
        /\ \A k \in 1..(Len(s) - (i + 1) + 1) : b[k] = s[i + 1 + k - 1]
    BY <2>1, <1>1, SubSeqProperties
  <2> QED BY <2>2, <1>1
<1>4. /\ a \o b \in Seq(S) /\ Len(a \o b) = Len(a) + Len(b)
      /\ \A k \in 1..(Len(a) + Len(b)) :
            (a \o b)[k] = IF k <= Len(a) THEN a[k] ELSE b[k - Len(a)]
  BY <1>2, <1>3, ConcatProperties
<1>5. RemoveAt(s, i) = a \o b
  BY DEF RemoveAt
<1> HIDE DEF a, b
<1>6. ASSUME NEW k \in 1..(Len(s) - 1)
      PROVE  (a \o b)[k] = IF k < i THEN s[k] ELSE s[k + 1]
  <2>1. CASE k < i
    BY <1>1, <1>2, <1>3, <1>4, <2>1
  <2>2. CASE ~(k < i)
    <3>1. k - Len(a) \in 1..(Len(s) - i) /\ i + (k - Len(a)) = k + 1
      BY <1>1, <1>2, <2>2
    <3>2. b[k - Len(a)] = s[k + 1]
      BY <1>3, <3>1
    <3>3. (a \o b)[k] = b[k - Len(a)]
      BY <1>1, <1>2, <1>3, <1>4, <2>2
    <3> QED BY <2>2, <3>2, <3>3
  <2> QED BY <2>1, <2>2
<1> QED BY <1>1, <1>2, <1>3, <1>4, <1>5, <1>6

LEMMA AscendingIsOnto ==
    ASSUME NEW n \in Nat, NEW I \in SUBSET (1..n), NEW s \in Ascending(I)
    PROVE  /\ Cardinality(I) \in Nat /\ Cardinality(I) <= n
           /\ s \in [1..Cardinality(I) -> I]
           /\ \A j, k \in 1..Cardinality(I) : j < k => s[j] < s[k]
           /\ \A i \in I : \E k \in 1..Cardinality(I) : s[k] = i
<1> DEFINE D == 1..Cardinality(I)
<1>1. IsFiniteSet(1..n) /\ Cardinality(1..n) = n
  BY FS_Interval
<1>2. IsFiniteSet(I) /\ Cardinality(I) <= n
  BY <1>1, FS_Subset
<1>3. Cardinality(I) \in Nat
  BY <1>2, FS_CardinalityType
<1>4. s \in [D -> I] /\ \A j, k \in D : j < k => s[j] < s[k]
  BY DEF Ascending
<1>5. s \in Injection(D, I)
  <2>1. \A j, k \in D : s[j] = s[k] => j = k
    <3> SUFFICES ASSUME NEW j \in D, NEW k \in D, s[j] = s[k], j # k PROVE FALSE
      OBVIOUS
    <3>1. s[j] \in 1..n /\ s[k] \in 1..n
      BY <1>4
    <3>2. j < k \/ k < j
      BY <1>3
    <3> QED BY <1>4, <3>1, <3>2
  <2> QED BY <2>1, <1>4 DEF Injection, IsInjective
<1>6. Cardinality(D) = Cardinality(I)
  BY <1>3, FS_Interval
<1>7. s \in Surjection(D, I)
  BY <1>2, <1>5, <1>6, FS_Injection
<1>8. \A i \in I : \E k \in D : s[k] = i
  BY <1>7 DEF Surjection
<1> QED BY <1>1, <1>2, <1>3, <1>4, <1>8

LEMMA OrderIsOnto ==
    ASSUME NEW S, IsFiniteSet(S), NEW s \in Orders(S)
    PROVE  /\ Cardinality(S) \in Nat
           /\ s \in [1..Cardinality(S) -> S]
           /\ \A j, k \in 1..Cardinality(S) : s[j] = s[k] => j = k
           /\ \A e \in S : \E k \in 1..Cardinality(S) : s[k] = e
<1> DEFINE D == 1..Cardinality(S)
<1>1. Cardinality(S) \in Nat
  BY FS_CardinalityType
<1>2. s \in [D -> S] /\ \A j, k \in D : s[j] = s[k] => j = k
  BY DEF Orders
<1>3. s \in Injection(D, S)
  BY <1>2 DEF Injection, IsInjective
<1>4. Cardinality(D) = Cardinality(S)
  BY <1>1, FS_Interval
<1>5. s \in Surjection(D, S)
  BY <1>3, <1>4, FS_Injection
<1> QED BY <1>1, <1>2, <1>5 DEF Surjection

-----------------------------------------------------------------------------
(* Lists of icons.  Each icon of t descends from one of s, in the order of *)
(* s: it may lose windows and its shortcut.                                *)
Descends(s, t, from) ==
    /\ from \in [1..Len(t) -> 1..Len(s)]
    /\ \A j, k \in 1..Len(t) : j < k => from[j] < from[k]
    /\ \A k \in 1..Len(t) :
         /\ t[k].module = s[from[k]].module
         /\ Apps(t[k]) \subseteq Apps(s[from[k]])
         /\ t[k].file = s[from[k]].file \/ t[k].file = NoFile

(* What a menu holds is there still, and no window but those of gone has   *)
(* left the list.                                                          *)
HeldStays(s, t) ==
    \A f \in File : (\E i \in 1..Len(s) : s[i].held /\ s[i].file = f)
                 => (\E i \in 1..Len(t) : t[i].held /\ t[i].file = f)
Shows(s, w) == \E i \in 1..Len(s) : w \in Apps(s[i])
Misses(s, t, gone) == \A w \in Win : Shows(s, w) => Shows(t, w) \/ w \in gone
Becomes(s, t, n, gone) ==
    /\ Sound(t) /\ Len(t) = n
    /\ Residents(t) = Residents(s) /\ HeldStays(s, t) /\ Misses(s, t, gone)

LEMMA IconType ==
    ASSUME NEW s \in Seq(ICON)
    PROVE  /\ Len(s) \in Nat /\ DOMAIN s = 1..Len(s) /\ s \in [1..Len(s) -> ICON]
           /\ \A i \in 1..Len(s) :
                /\ s[i] \in ICON
                /\ s[i].apps \in APPS /\ Apps(s[i]) \subseteq Win
                /\ s[i].apps \in [Apps(s[i]) -> BOOLEAN]
                /\ s[i] = [file |-> s[i].file, module |-> s[i].module,
                           apps |-> s[i].apps, held |-> s[i].held]
<1>1. Len(s) \in Nat /\ DOMAIN s = 1..Len(s) /\ s \in [1..Len(s) -> ICON]
  BY LenProperties
<1>2. ASSUME NEW i \in 1..Len(s)
      PROVE  /\ s[i] \in ICON
             /\ s[i].apps \in APPS /\ Apps(s[i]) \subseteq Win
             /\ s[i].apps \in [Apps(s[i]) -> BOOLEAN]
             /\ s[i] = [file |-> s[i].file, module |-> s[i].module,
                        apps |-> s[i].apps, held |-> s[i].held]
  <2>1. s[i] \in ICON
    BY <1>1
  <2>2. s[i].apps \in APPS
    BY <2>1 DEF ICON
  <2>3. PICK D \in SUBSET Win : s[i].apps \in [D -> BOOLEAN]
    BY <2>2 DEF APPS
  <2>4. Apps(s[i]) = D
    BY <2>3 DEF Apps
  <2>5. s[i] = [file |-> s[i].file, module |-> s[i].module,
                apps |-> s[i].apps, held |-> s[i].held]
    BY <2>1 DEF ICON
  <2> QED BY <2>1, <2>2, <2>3, <2>4, <2>5
<1> QED BY <1>1, <1>2

LEMMA AppsType ==
    ASSUME NEW apps, NEW D \in SUBSET Win, apps \in [D -> BOOLEAN]
    PROVE  apps \in APPS
  BY DEF APPS

LEMMA DescentSound ==
    ASSUME NEW s \in Seq(ICON), NEW t \in Seq(ICON), NEW from, Descends(s, t, from)
    PROVE  (Found(s) => Found(t)) /\ (Single(s) => Single(t))
<1>1. /\ Len(s) \in Nat /\ Len(t) \in Nat
  BY IconType
<1>2. ASSUME Found(s), NEW j \in 1..Len(t), NEW w \in Apps(t[j]), NEW i \in 1..(j - 1)
      PROVE  ~Hits(t, w, i)
  <2>1. i \in 1..Len(t) /\ i < j
    BY <1>1
  <2>2. from[i] \in 1..Len(s) /\ from[j] \in 1..Len(s) /\ from[i] < from[j]
    BY <2>1 DEF Descends
  <2>3. from[i] \in 1..(from[j] - 1)
    BY <1>1, <2>2
  <2>4. ~Hits(s, w, from[i])
    <3>1. w \in Apps(s[from[j]])
      BY DEF Descends
    <3> QED BY <1>2, <2>2, <2>3, <3>1 DEF Found
  <2>5. w \notin Apps(t[i])
    BY <2>1, <2>4 DEF Hits, Descends
  <2>6. ASSUME NEW k \in 1..i, Resident(t[k])
        PROVE  \E l \in 1..from[i] : Resident(s[l])
    <3>1. k \in 1..Len(t) /\ (k < i \/ k = i)
      BY <1>1, <2>1
    <3>2. from[k] \in 1..Len(s) /\ (from[k] < from[i] \/ from[k] = from[i])
      BY <2>1, <3>1 DEF Descends
    <3>3. from[k] \in 1..from[i]
      BY <1>1, <2>2, <3>2
    <3>4. Resident(s[from[k]])
      BY <2>6, <3>1 DEF Descends, Resident
    <3> QED BY <3>3, <3>4
  <2>7. t[i].module = s[from[i]].module
    BY <2>1 DEF Descends
  <2> QED BY <2>4, <2>5, <2>6, <2>7 DEF Hits
<1>3. ASSUME Single(s), NEW i \in 1..Len(t), NEW j \in 1..Len(t),
             Resident(t[i]), t[i].file = t[j].file
      PROVE  i = j
  <2>1. /\ from[i] \in 1..Len(s) /\ from[j] \in 1..Len(s)
        /\ Resident(s[from[i]]) /\ s[from[i]].file = s[from[j]].file
    BY <1>3 DEF Descends, Resident
  <2>2. from[i] = from[j]
    BY <1>3, <2>1 DEF Single
  <2>3. ~(i < j) /\ ~(j < i)
    BY <1>1, <2>1, <2>2 DEF Descends
  <2> QED BY <1>1, <2>3
<1> QED BY <1>2, <1>3 DEF Found, Single

-----------------------------------------------------------------------------
(* The five ways in which the list changes.                                *)

Changed(s, i, apps) == [s EXCEPT ![i].apps = apps]
OnlyApps(s, i, apps, t) ==
    /\ t \in Seq(ICON) /\ Len(t) = Len(s)
    /\ t[i].apps = apps
    /\ \A k \in 1..Len(s) : t[k].file = s[k].file /\ t[k].module = s[k].module
                            /\ t[k].held = s[k].held
    /\ \A k \in 1..Len(s) \ {i} : t[k].apps = s[k].apps

LEMMA AppsChange ==
    ASSUME NEW s \in Seq(ICON), NEW i \in 1..Len(s), NEW apps \in APPS, NEW t,
           t = Changed(s, i, apps)
    PROVE  OnlyApps(s, i, apps, t)
<1> DEFINE e == [file |-> s[i].file, module |-> s[i].module,
                 apps |-> apps, held |-> s[i].held]
<1>1. s[i] \in ICON /\ s \in [1..Len(s) -> ICON] /\ Len(s) \in Nat
  BY IconType
<1>2. e \in ICON
  BY <1>1 DEF ICON
<1>3. [s[i] EXCEPT !.apps = apps] = e
  BY <1>1 DEF ICON
<1>4. t = [s EXCEPT ![i] = e]
  BY <1>1, <1>3 DEF Changed
<1>5. t \in Seq(ICON) /\ Len(t) = Len(s)
      /\ \A k \in 1..Len(s) : t[k] = IF k = i THEN e ELSE s[k]
  BY <1>2, <1>4, ExceptSeq
<1> QED BY <1>5 DEF OnlyApps

(* An icon loses windows, or some of them flash or are calmed.             *)
LEMMA ShrinkSound ==
    ASSUME NEW s, Sound(s), NEW i \in 1..Len(s), NEW D \in SUBSET Apps(s[i]),
           NEW apps \in [D -> BOOLEAN], Resident(s[i]) \/ apps # NoApps,
           NEW t, t = Changed(s, i, apps)
    PROVE  Becomes(s, t, Len(s), Apps(s[i]) \ D)
<1>1. s \in Seq(ICON) /\ Solid(s) /\ Len(s) \in Nat /\ DOMAIN s = 1..Len(s)
  BY IconType DEF Sound
<1>2. apps \in APPS /\ DOMAIN apps = D
  BY <1>1, IconType, AppsType
<1>3. /\ t \in Seq(ICON) /\ Len(t) = Len(s) /\ DOMAIN t = 1..Len(s)
      /\ t[i].apps = apps
      /\ \A k \in 1..Len(s) : t[k].file = s[k].file /\ t[k].module = s[k].module
                              /\ t[k].held = s[k].held
      /\ \A k \in 1..Len(s) \ {i} : t[k].apps = s[k].apps
  <2>1. s \in Seq(ICON) /\ i \in 1..Len(s) /\ apps \in APPS /\ t = Changed(s, i, apps)
    BY <1>1, <1>2
  <2>2. OnlyApps(s, i, apps, t)
    BY <2>1, AppsChange
  <2> QED BY <2>2, IconType DEF OnlyApps
<1>4. \A k \in 1..Len(s) : Apps(t[k]) \subseteq Apps(s[k])
  BY <1>2, <1>3 DEF Apps
<1> DEFINE from == [k \in 1..Len(t) |-> k]
<1>5. Descends(s, t, from)
  BY <1>1, <1>3, <1>4 DEF Descends
<1> HIDE DEF from
<1>6. Found(t) /\ Single(t)
  BY <1>1, <1>3, <1>5, DescentSound DEF Sound
<1>7. Solid(t)
  BY <1>1, <1>3 DEF Solid, Resident
<1>8. Residents(t) = Residents(s)
  BY <1>1, <1>3 DEF Residents
<1>9. HeldStays(s, t)
  BY <1>3 DEF HeldStays
<1>10. Misses(s, t, Apps(s[i]) \ D)
  BY <1>2, <1>3 DEF Misses, Shows, Apps
<1> QED BY <1>3, <1>6, <1>7, <1>8, <1>9, <1>10 DEF Sound, Becomes

(* An icon that stands for no shortcut is removed.                         *)
LEMMA RemoveSound ==
    ASSUME NEW s, Sound(s), NEW i \in 1..Len(s), ~Resident(s[i])
    PROVE  Becomes(s, RemoveAt(s, i), Len(s) - 1, Apps(s[i]))
<1> DEFINE t == RemoveAt(s, i)
           from == [k \in 1..Len(t) |-> IF k < i THEN k ELSE k + 1]
           to(k) == IF k < i THEN k ELSE k - 1
<1>1. s \in Seq(ICON) /\ Solid(s) /\ Len(s) \in Nat /\ DOMAIN s = 1..Len(s)
  BY IconType DEF Sound
<1>2. t \in Seq(ICON) /\ Len(t) = Len(s) - 1 /\ DOMAIN t = 1..Len(t)
      /\ \A k \in 1..Len(t) : t[k] = s[from[k]]
  <2>1. /\ t \in Seq(ICON) /\ Len(t) = Len(s) - 1
        /\ \A k \in 1..(Len(s) - 1) : t[k] = IF k < i THEN s[k] ELSE s[k + 1]
    BY <1>1, Removed
  <2> HIDE DEF t
  <2> QED BY <2>1, IconType
<1> HIDE DEF t
<1>3. from \in [1..Len(t) -> 1..Len(s)] /\ \A k \in 1..Len(t) : from[k] # i
  BY <1>1, <1>2
<1>4. \A k \in 1..Len(s) \ {i} : to(k) \in 1..Len(t) /\ from[to(k)] = k
  BY <1>1, <1>2
<1>5. Descends(s, t, from)
  <2>1. \A j, k \in 1..Len(t) : j < k => from[j] < from[k]
    BY <1>1, <1>2
  <2> HIDE DEF from
  <2> QED BY <1>2, <1>3, <2>1 DEF Descends
<1> HIDE DEF from, to
<1>6. Found(t) /\ Single(t)
  BY <1>1, <1>2, <1>5, DescentSound DEF Sound
<1>7. Solid(t)
  BY <1>1, <1>2, <1>3 DEF Solid
<1>8. \A k \in 1..Len(s) \ {i} : t[to(k)] = s[k] /\ to(k) \in 1..Len(t)
  BY <1>2, <1>4
<1>9. Residents(t) = Residents(s)
  <2>1. ASSUME NEW k \in 1..Len(s), s[k].file # NoFile
        PROVE  \E j \in 1..Len(t) : t[j].file = s[k].file
    <3>1. k # i
      BY <2>1 DEF Resident
    <3> QED BY <1>8, <3>1
  <2>2. \A j \in 1..Len(t) : \E k \in 1..Len(s) : s[k].file = t[j].file
    BY <1>2, <1>3
  <2> QED BY <1>1, <1>2, <2>1, <2>2 DEF Residents
<1>10. HeldStays(s, t)
  <2> SUFFICES ASSUME NEW f \in File, NEW k \in 1..Len(s), s[k].held, s[k].file = f
               PROVE  \E j \in 1..Len(t) : t[j].held /\ t[j].file = f
    BY DEF HeldStays
  <2>1. k # i
    BY DockAssumption DEF Resident
  <2> QED BY <1>8, <2>1
<1>11. Misses(s, t, Apps(s[i]))
  BY <1>8 DEF Misses, Shows
<1> QED BY <1>2, <1>6, <1>7, <1>9, <1>10, <1>11 DEF Sound, Becomes, t

(* A window is listed once.                                                *)
LEMMA OnePlace ==
    ASSUME NEW s, Sound(s), NEW i \in 1..Len(s), NEW j \in 1..Len(s),
           NEW w \in Apps(s[i]), w \in Apps(s[j])
    PROVE  i = j
<1>1. Found(s) /\ Len(s) \in Nat
  BY IconType DEF Sound
<1>2. \A k \in 1..(j - 1) : w \notin Apps(s[k])
  BY <1>1 DEF Found, Hits
<1>3. \A k \in 1..(i - 1) : w \notin Apps(s[k])
  BY <1>1 DEF Found, Hits
<1>4. i \notin 1..(j - 1) /\ j \notin 1..(i - 1)
  BY <1>2, <1>3
<1> QED BY <1>1, <1>4

LEMMA WithType ==
    ASSUME NEW D \in SUBSET Win, NEW apps \in [D -> BOOLEAN], NEW w \in Win,
           NEW flashing \in BOOLEAN
    PROVE  /\ With(apps, w, flashing) \in [D \cup {w} -> BOOLEAN]
           /\ With(apps, w, flashing) # NoApps
           /\ \A v \in D \ {w} : With(apps, w, flashing)[v] = apps[v]
<1>1. With(apps, w, flashing) \in [D \cup {w} -> BOOLEAN]
      /\ \A v \in D \ {w} : With(apps, w, flashing)[v] = apps[v]
  BY DEF With
<1>2. With(apps, w, flashing) # NoApps
  <2>1. w \in DOMAIN With(apps, w, flashing)
    BY <1>1
  <2>2. DOMAIN NoApps = {}
    BY DEF NoApps
  <2> QED BY <2>1, <2>2
<1> QED BY <1>1, <1>2

(* A window listed nowhere joins the first icon that it hits.              *)
LEMMA GrowSound ==
    ASSUME NEW s, Sound(s), NEW i \in 1..Len(s), NEW w \in Win, ~Shows(s, w),
           \A j \in 1..(i - 1) : ~Hits(s, w, j),
           NEW flashing \in BOOLEAN,
           NEW t, t = Changed(s, i, With(s[i].apps, w, flashing))
    PROVE  Becomes(s, t, Len(s), {})
<1> DEFINE apps == With(s[i].apps, w, flashing)
<1>1. s \in Seq(ICON) /\ Found(s) /\ Solid(s) /\ Single(s)
      /\ Len(s) \in Nat /\ DOMAIN s = 1..Len(s)
  BY IconType DEF Sound
<1>2. /\ apps \in APPS /\ DOMAIN apps = Apps(s[i]) \cup {w} /\ apps # NoApps
  <2>1. s[i].apps \in [Apps(s[i]) -> BOOLEAN] /\ Apps(s[i]) \subseteq Win
    BY <1>1, IconType
  <2>2. apps \in [Apps(s[i]) \cup {w} -> BOOLEAN] /\ apps # NoApps
    <3>1. \A D \in SUBSET Win : \A f \in [D -> BOOLEAN] :
             With(f, w, flashing) \in [D \cup {w} -> BOOLEAN] /\ With(f, w, flashing) # NoApps
      BY WithType
    <3>2. Apps(s[i]) \in SUBSET Win
      BY <2>1
    <3> QED BY <2>1, <3>1, <3>2, Zenon
  <2>3. Apps(s[i]) \cup {w} \in SUBSET Win
    BY <2>1
  <2> HIDE DEF apps
  <2> QED BY <2>2, <2>3, AppsType
<1>3. t = Changed(s, i, apps)
  OBVIOUS
<1> HIDE DEF apps
<1>4. OnlyApps(s, i, apps, t)
  BY <1>1, <1>2, <1>3, AppsChange
<1>5. t \in Seq(ICON) /\ Len(t) = Len(s)
  BY <1>4 DEF OnlyApps
<1>6. t[i].apps = apps /\ \A k \in 1..Len(s) \ {i} : t[k].apps = s[k].apps
  BY <1>4 DEF OnlyApps
<1>7. \A k \in 1..Len(s) : t[k].file = s[k].file /\ t[k].module = s[k].module
                           /\ t[k].held = s[k].held
  BY <1>4 DEF OnlyApps
<1>8. DOMAIN t = 1..Len(s)
  BY <1>5, IconType
<1>9. Apps(t[i]) = Apps(s[i]) \cup {w} /\ \A k \in 1..Len(s) \ {i} : Apps(t[k]) = Apps(s[k])
  BY <1>2, <1>6 DEF Apps
<1>10. Found(t)
  <2> SUFFICES ASSUME NEW j \in 1..Len(s), NEW v \in Apps(t[j]), NEW k \in 1..(j - 1)
               PROVE  ~Hits(t, v, k)
    BY <1>5 DEF Found
  <2>1. k \in 1..Len(s) /\ k # j /\ k < j
    BY <1>1
  <2>2. \A l \in 1..k : l \in 1..Len(s)
    BY <1>1, <2>1
  <2>3. CASE j = i /\ v = w
    <3>1. ~Hits(s, w, k)
      BY <2>3
    <3> QED BY <1>7, <1>9, <2>1, <2>2, <2>3, <3>1 DEF Hits, Resident
  <2>4. CASE ~(j = i /\ v = w)
    <3>1. v \in Apps(s[j])
      BY <1>9, <2>4
    <3>2. v # w
      BY <3>1 DEF Shows
    <3>3. ~Hits(s, v, k)
      BY <1>1, <3>1 DEF Found
    <3> QED BY <1>7, <1>9, <2>1, <2>2, <3>2, <3>3 DEF Hits, Resident
  <2> QED BY <2>3, <2>4
<1>11. Solid(t)
  BY <1>1, <1>2, <1>5, <1>6, <1>7 DEF Solid, Resident
<1>12. Single(t)
  BY <1>1, <1>5, <1>7 DEF Single, Resident
<1>13. Residents(t) = Residents(s)
  BY <1>1, <1>7, <1>8 DEF Residents
<1>14. HeldStays(s, t)
  BY <1>5, <1>7 DEF HeldStays
<1>15. Misses(s, t, {})
  BY <1>5, <1>9 DEF Misses, Shows
<1> QED BY <1>5, <1>10, <1>11, <1>12, <1>13, <1>14, <1>15 DEF Sound, Becomes

(* A window that hits no icon gets a task icon of its own.                 *)
LEMMA AppendSound ==
    ASSUME NEW s, Sound(s), NEW w \in Win, \A j \in 1..Len(s) : ~Hits(s, w, j),
           NEW flashing \in BOOLEAN
    PROVE  Becomes(s, Append(s, TaskFor(w, flashing)), Len(s) + 1, {})
<1> DEFINE it == TaskFor(w, flashing)
           t  == Append(s, it)
<1>1. s \in Seq(ICON) /\ Found(s) /\ Solid(s) /\ Single(s)
      /\ Len(s) \in Nat /\ DOMAIN s = 1..Len(s)
  BY IconType DEF Sound
<1>2. it \in ICON /\ Apps(it) = {w} /\ it.apps # NoApps /\ it.file = NoFile
  <2>1. With(NoApps, w, flashing) \in [{w} -> BOOLEAN] /\ With(NoApps, w, flashing) # NoApps
    <3>1. DOMAIN NoApps = {}
      BY DEF NoApps
    <3>2. With(NoApps, w, flashing) = [v \in {w} |-> flashing]
      BY <3>1 DEF With
    <3> QED BY <3>1, <3>2
  <2>2. With(NoApps, w, flashing) \in APPS
    BY <2>1, AppsType
  <2>3. moduleOf[w] \in Module \cup {Unreadable}
    BY DockAssumption
  <2> QED BY <2>1, <2>2, <2>3 DEF TaskFor, ICON, Apps, get_window_module_path
<1> HIDE DEF it
<1>3. /\ t \in Seq(ICON) /\ Len(t) = Len(s) + 1 /\ DOMAIN t = 1..(Len(s) + 1)
      /\ \A k \in 1..Len(s) : t[k] = s[k]
      /\ t[Len(s) + 1] = it
  <2>1. /\ t \in Seq(ICON) /\ Len(t) = Len(s) + 1
        /\ \A k \in 1..Len(s) : t[k] = s[k]
        /\ t[Len(s) + 1] = it
    BY <1>1, <1>2, AppendProperties
  <2> HIDE DEF t
  <2> QED BY <2>1, IconType
<1> HIDE DEF t
<1>4. \A k \in 1..(Len(s) + 1) : k \in 1..Len(s) \/ k = Len(s) + 1
  BY <1>1
<1>5. Found(t)
  <2> SUFFICES ASSUME NEW j \in 1..(Len(s) + 1), NEW v \in Apps(t[j]), NEW k \in 1..(j - 1)
               PROVE  ~Hits(t, v, k)
    BY <1>3 DEF Found
  <2>1. k \in 1..Len(s) /\ \A l \in 1..k : l \in 1..Len(s)
    BY <1>1
  <2>2. Hits(t, v, k) => Hits(s, v, k)
    BY <1>3, <2>1 DEF Hits
  <2>3. CASE j = Len(s) + 1
    BY <1>2, <1>3, <2>1, <2>2, <2>3
  <2>4. CASE j \in 1..Len(s)
    BY <1>1, <1>3, <2>2, <2>4 DEF Found
  <2> QED BY <1>4, <2>3, <2>4
<1>6. Solid(t)
  BY <1>1, <1>2, <1>3, <1>4 DEF Solid
<1>7. Single(t)
  <2> SUFFICES ASSUME NEW i \in 1..(Len(s) + 1), NEW j \in 1..(Len(s) + 1),
                      Resident(t[i]), t[i].file = t[j].file
               PROVE  i = j
    BY <1>3 DEF Single
  <2>1. i \in 1..Len(s) /\ j \in 1..Len(s)
    BY <1>2, <1>3, <1>4 DEF Resident
  <2> QED BY <1>1, <1>3, <2>1 DEF Single
<1>8. Residents(t) = Residents(s)
  BY <1>1, <1>2, <1>3, <1>4 DEF Residents
<1>9. HeldStays(s, t)
  BY <1>1, <1>3 DEF HeldStays
<1>10. Misses(s, t, {})
  BY <1>1, <1>3 DEF Misses, Shows
<1> QED BY <1>3, <1>5, <1>6, <1>7, <1>8, <1>9, <1>10 DEF Sound, Becomes, t, it

(* A menu holds an icon or lets go of it.                                  *)
HeldBy(s, t, held) ==
    /\ Sound(t) /\ Len(t) = Len(s) /\ DOMAIN t = DOMAIN s
    /\ Residents(t) = Residents(s) /\ Misses(s, t, {})
    /\ \A i \in 1..Len(s) : t[i].file = s[i].file /\ t[i].held = held[i]

LEMMA HoldSound ==
    ASSUME NEW s, Sound(s), NEW held \in [1..Len(s) -> BOOLEAN],
           NEW t, t = [i \in 1..Len(s) |-> [s[i] EXCEPT !.held = held[i]]]
    PROVE  HeldBy(s, t, held)
<1>1. s \in Seq(ICON) /\ Found(s) /\ Solid(s) /\ Single(s)
      /\ Len(s) \in Nat /\ DOMAIN s = 1..Len(s)
  BY IconType DEF Sound
<1>2. ASSUME NEW i \in 1..Len(s)
      PROVE  /\ t[i] \in ICON /\ t[i].held = held[i] /\ t[i].file = s[i].file
             /\ t[i].module = s[i].module /\ t[i].apps = s[i].apps
  <2>1. s[i] \in ICON
    BY <1>1, IconType
  <2> QED BY <2>1 DEF ICON
<1>3. t \in Seq(ICON) /\ Len(t) = Len(s) /\ DOMAIN t = 1..Len(s)
  BY <1>1, <1>2
<1> DEFINE from == [k \in 1..Len(t) |-> k]
<1>4. Descends(s, t, from)
  BY <1>1, <1>2, <1>3 DEF Descends, Apps
<1> HIDE DEF from
<1>5. Found(t) /\ Single(t)
  BY <1>1, <1>3, <1>4, DescentSound
<1>6. Solid(t)
  BY <1>1, <1>2, <1>3 DEF Solid, Resident
<1>7. Residents(t) = Residents(s)
  BY <1>1, <1>2, <1>3 DEF Residents
<1>8. Misses(s, t, {})
  BY <1>2, <1>3 DEF Misses, Shows, Apps
<1> QED BY <1>1, <1>2, <1>3, <1>5, <1>6, <1>7, <1>8 DEF Sound, HeldBy

(* The directory is scanned.                                               *)
LEMMA ScanSound ==
    ASSUME Sound(items), dir \subseteq File,
           NEW old \in Ascending({i \in DOMAIN items : Kept(items[i])}),
           NEW new \in Orders(dir \ Residents(items)),
           NEW t, t = [k \in DOMAIN old |-> Demoted(items[old[k]])]
                        \o [k \in DOMAIN new |-> NewResident(new[k])]
    PROVE  /\ Sound(t)
           /\ ~(Len(old) < Len(items)) /\ new = <<>> => Len(t) = Len(items)
           /\ Residents(t) = dir
           /\ \A f \in dir :
                 (\E i \in 1..Len(items) : items[i].held /\ items[i].file = f)
                    => \E i \in 1..Len(t) : t[i].held /\ t[i].file = f
           /\ Misses(items, t, {})
<1> DEFINE K == {i \in DOMAIN items : Kept(items[i])}
           F == dir \ Residents(items)
           a == [k \in DOMAIN old |-> Demoted(items[old[k]])]
           b == [k \in DOMAIN new |-> NewResident(new[k])]
           m == Cardinality(K)
           n == Cardinality(F)
<1>1. items \in Seq(ICON) /\ Found(items) /\ Solid(items) /\ Single(items)
      /\ Len(items) \in Nat /\ DOMAIN items = 1..Len(items)
  BY IconType DEF Sound
<1>2. /\ m \in Nat /\ m <= Len(items) /\ old \in [1..m -> K]
      /\ \A j, k \in 1..m : j < k => old[j] < old[k]
      /\ \A i \in K : \E k \in 1..m : old[k] = i
  <2>1. K \in SUBSET (1..Len(items))
    BY <1>1
  <2>2. old \in Ascending(K)
    OBVIOUS
  <2> HIDE DEF K
  <2>3. Len(items) \in Nat
    BY <1>1
  <2>4. Cardinality(K) \in Nat /\ Cardinality(K) <= Len(items)
    BY <2>1, <2>2, <2>3, AscendingIsOnto
  <2>5. old \in [1..Cardinality(K) -> K]
    BY <2>1, <2>2, <2>3, AscendingIsOnto
  <2>6. \A j, k \in 1..Cardinality(K) : j < k => old[j] < old[k]
    BY <2>1, <2>2, <2>3, AscendingIsOnto
  <2>7. \A i \in K : \E k \in 1..Cardinality(K) : old[k] = i
    BY <2>1, <2>2, <2>3, AscendingIsOnto
  <2> QED BY <2>4, <2>5, <2>6, <2>7
<1>3. /\ n \in Nat /\ new \in [1..n -> F]
      /\ \A j, k \in 1..n : new[j] = new[k] => j = k
      /\ \A e \in F : \E k \in 1..n : new[k] = e
  <2>1. IsFiniteSet(F)
    BY DockAssumption, FS_Subset
  <2>2. new \in Orders(F)
    OBVIOUS
  <2> HIDE DEF F
  <2> QED BY <2>1, <2>2, OrderIsOnto
<1>4. ASSUME NEW i \in 1..Len(items)
      PROVE  /\ Demoted(items[i]) \in ICON
             /\ Demoted(items[i]).module = items[i].module
             /\ Demoted(items[i]).apps = items[i].apps
             /\ Demoted(items[i]).held = items[i].held
             /\ Demoted(items[i]).file =
                   IF Resident(items[i]) /\ items[i].file \notin dir
                   THEN NoFile ELSE items[i].file
  <2>1. items[i] \in ICON
    BY <1>1, IconType
  <2> QED BY <2>1 DEF Demoted, ICON
<1>5. ASSUME NEW f \in File
      PROVE  /\ NewResident(f) \in ICON /\ NewResident(f).file = f
             /\ NewResident(f).apps = NoApps /\ Apps(NewResident(f)) = {}
  <2>1. NoApps \in [{} -> BOOLEAN] /\ DOMAIN NoApps = {}
    BY DEF NoApps
  <2>2. NoApps \in APPS
    BY <2>1, AppsType
  <2>3. target[f] \in Module
    BY DockAssumption
  <2> QED BY <2>1, <2>2, <2>3 DEF NewResident, ICON, Apps, get_module_name
<1> HIDE DEF K, F
<1>6. \A k \in 1..m : old[k] \in 1..Len(items) /\ Kept(items[old[k]])
  BY <1>1, <1>2 DEF K
<1>7. \A k \in 1..n : new[k] \in dir /\ new[k] \in File /\ new[k] \notin Residents(items)
  BY <1>3 DEF F
<1>8. /\ a \in Seq(ICON) /\ Len(a) = m
      /\ \A k \in 1..m : a[k] = Demoted(items[old[k]])
  <2>1. DOMAIN old = 1..m
    BY <1>2
  <2> HIDE DEF m
  <2>2. \A k \in 1..m : Demoted(items[old[k]]) \in ICON
    BY <1>4, <1>6
  <2> QED BY <1>2, <2>1, <2>2
<1>9. /\ b \in Seq(ICON) /\ Len(b) = n
      /\ \A k \in 1..n : b[k] = NewResident(new[k])
  BY <1>3, <1>5, <1>7
<1>10. t = a \o b
  OBVIOUS
<1>11. Len(old) = m /\ (new = <<>> => n = 0)
  BY <1>2, <1>3
<1> HIDE DEF a, b, m, n
<1>12. /\ t \in Seq(ICON) /\ Len(t) = m + n /\ DOMAIN t = 1..(m + n)
       /\ \A k \in 1..m : t[k] = a[k]
       /\ \A k \in 1..n : t[m + k] = b[k]
  <2>1. /\ t \in Seq(ICON) /\ Len(t) = m + n
        /\ \A k \in 1..(m + n) : t[k] = IF k <= m THEN a[k] ELSE b[k - m]
    <3>1. /\ a \o b \in Seq(ICON) /\ Len(a \o b) = Len(a) + Len(b)
          /\ \A k \in 1..(Len(a) + Len(b)) :
                (a \o b)[k] = IF k <= Len(a) THEN a[k] ELSE b[k - Len(a)]
      BY <1>8, <1>9, ConcatProperties
    <3> QED BY <1>8, <1>9, <1>10, <3>1
  <2>2. \A k \in 1..m : k \in 1..(m + n) /\ k <= m
    BY <1>2, <1>3
  <2>3. DOMAIN t = 1..(m + n)
    BY <2>1, IconType
  <2>4. \A k \in 1..m : t[k] = a[k]
    BY <2>1, <2>2
  <2>5. \A k \in 1..n : t[m + k] = b[k]
    <3> SUFFICES ASSUME NEW k \in 1..n PROVE t[m + k] = b[k]
      OBVIOUS
    <3> DEFINE p == m + k
    <3>1. p \in 1..(m + n) /\ ~(p <= m) /\ p - m = k
      BY <1>2, <1>3
    <3> HIDE DEF p
    <3>2. t[p] = b[p - m]
      BY <2>1, <3>1
    <3> QED BY <3>1, <3>2 DEF p
  <2> QED BY <2>1, <2>3, <2>4, <2>5
<1>13. \A k \in 1..(m + n) : k \in 1..m \/ \E l \in 1..n : k = m + l
  <2> SUFFICES ASSUME NEW k \in 1..(m + n), k \notin 1..m PROVE k - m \in 1..n /\ k = m + (k - m)
    BY Zenon
  <2> QED BY <1>2, <1>3
<1>14. /\ \A k \in 1..m : t[k] = Demoted(items[old[k]])
       /\ \A k \in 1..n : t[m + k] = NewResident(new[k])
       /\ \A k \in 1..m : k \in 1..(m + n)
       /\ \A k \in 1..n : m + k \in 1..(m + n)
  BY <1>2, <1>3, <1>8, <1>9, <1>12
<1>15. Found(a) /\ Single(a)
  <2>1. Descends(items, a, old)
    BY <1>2, <1>4, <1>6, <1>8 DEF Descends, Apps
  <2> QED BY <1>1, <1>8, <2>1, DescentSound
<1>16. \A k \in 1..n : t[m + k].file = new[k] /\ Apps(t[m + k]) = {}
  BY <1>5, <1>7, <1>14
<1>17. Found(t)
  <2> SUFFICES ASSUME NEW j \in 1..(m + n), NEW w \in Apps(t[j]), NEW i \in 1..(j - 1)
               PROVE  ~Hits(t, w, i)
    BY <1>12 DEF Found
  <2>1. j \in 1..m
    <3> SUFFICES ASSUME j \notin 1..m PROVE FALSE
      OBVIOUS
    <3>1. PICK l \in 1..n : j = m + l
      BY <1>13
    <3> QED BY <1>16, <3>1
  <2>2. i \in 1..m /\ \A l \in 1..i : l \in 1..m
    BY <1>2, <2>1
  <2>3. ~Hits(a, w, i)
    BY <1>8, <1>12, <1>15, <2>1 DEF Found
  <2> QED BY <1>12, <2>2, <2>3 DEF Hits
<1>18. Solid(t)
  <2>1. ASSUME NEW k \in 1..m PROVE Resident(t[k]) \/ t[k].apps # NoApps
    <3>1. old[k] \in 1..Len(items) /\ Kept(items[old[k]]) /\ t[k] = Demoted(items[old[k]])
      BY <1>6, <1>14
    <3>2. Resident(items[old[k]]) \/ items[old[k]].apps # NoApps
      BY <1>1, <3>1 DEF Solid
    <3> QED BY <1>4, <3>1, <3>2 DEF Kept, Resident
  <2>2. ASSUME NEW k \in 1..n PROVE Resident(t[m + k])
    <3>1. t[m + k].file = new[k] /\ new[k] \in File
      BY <1>7, <1>16
    <3> QED BY <3>1, DockAssumption DEF Resident
  <2> QED BY <1>12, <1>13, <2>1, <2>2 DEF Solid
<1>19. \A k \in 1..m : Resident(t[k]) => t[k].file \in dir \cap Residents(items)
  <2> SUFFICES ASSUME NEW k \in 1..m, Resident(t[k])
               PROVE  t[k].file \in dir \cap Residents(items)
    OBVIOUS
  <2>1. old[k] \in 1..Len(items) /\ t[k] = Demoted(items[old[k]])
    BY <1>6, <1>14
  <2>2. t[k].file = items[old[k]].file /\ t[k].file \in dir
    BY <1>4, <2>1 DEF Resident
  <2> QED BY <1>1, <2>1, <2>2 DEF Residents, Resident
<1>20. Single(t)
  <2> SUFFICES ASSUME NEW i \in 1..(m + n), NEW j \in 1..(m + n),
                      Resident(t[i]), t[i].file = t[j].file
               PROVE  i = j
    BY <1>12 DEF Single
  <2>1. Resident(t[j])
    BY DEF Resident
  <2>2. CASE i \in 1..m /\ j \in 1..m
    BY <1>8, <1>12, <1>15, <2>2 DEF Single
  <2>3. CASE i \in 1..m /\ j \notin 1..m
    <3>1. PICK l \in 1..n : j = m + l
      BY <1>13, <2>3
    <3>2. t[i].file \in Residents(items) /\ t[j].file \notin Residents(items)
      BY <1>7, <1>19, <1>16, <2>3, <3>1
    <3> QED BY <3>2
  <2>4. CASE i \notin 1..m /\ j \in 1..m
    <3>1. PICK l \in 1..n : i = m + l
      BY <1>13, <2>4
    <3>2. t[j].file \in Residents(items) /\ t[i].file \notin Residents(items)
      BY <1>7, <1>19, <1>16, <2>1, <2>4, <3>1
    <3> QED BY <3>2
  <2>5. CASE i \notin 1..m /\ j \notin 1..m
    <3>1. PICK k \in 1..n : i = m + k
      BY <1>13, <2>5
    <3>2. PICK l \in 1..n : j = m + l
      BY <1>13, <2>5
    <3>3. new[k] = new[l]
      BY <1>16, <3>1, <3>2
    <3> QED BY <1>3, <3>1, <3>2, <3>3
  <2> QED BY <2>2, <2>3, <2>4, <2>5
<1>21. ASSUME NEW i \in 1..Len(items), Kept(items[i])
       PROVE  \E k \in 1..(m + n) : t[k] = Demoted(items[i])
  <2>1. i \in K
    BY <1>1, <1>21 DEF K
  <2>2. PICK k \in 1..m : old[k] = i
    BY <1>2, <2>1
  <2> QED BY <1>14, <2>2
<1>22. ASSUME NEW f \in dir, NEW i \in 1..Len(items), items[i].file = f
       PROVE  \E k \in 1..(m + n) : t[k].file = f /\ (items[i].held => t[k].held)
  <2>1. Kept(items[i])
    BY <1>22 DEF Kept
  <2>2. PICK k \in 1..(m + n) : t[k] = Demoted(items[i])
    BY <1>21, <2>1
  <2> QED BY <1>4, <1>22, <2>2
<1>23. Residents(t) = dir
  <2>1. ASSUME NEW k \in 1..(m + n), t[k].file # NoFile PROVE t[k].file \in dir
    BY <1>7, <1>13, <1>19, <1>16, <2>1 DEF Resident
  <2>2. ASSUME NEW f \in dir PROVE f # NoFile /\ \E k \in 1..(m + n) : t[k].file = f
    <3>1. f # NoFile
      BY DockAssumption
    <3>2. CASE f \in Residents(items)
      <4>1. PICK i \in 1..Len(items) : items[i].file = f
        BY <1>1, <3>2 DEF Residents
      <4> QED BY <1>22, <3>1, <4>1
    <3>3. CASE f \notin Residents(items)
      <4>1. f \in F
        BY <3>3 DEF F
      <4>2. PICK k \in 1..n : new[k] = f
        BY <1>3, <4>1
      <4> QED BY <1>14, <1>16, <3>1, <4>2
    <3> QED BY <3>1, <3>2, <3>3
  <2>3. Residents(t) = {t[k].file : k \in 1..(m + n)} \ {NoFile}
    BY <1>12 DEF Residents
  <2>4. Residents(t) \subseteq dir
    BY <2>1, <2>3
  <2>5. dir \subseteq Residents(t)
    BY <2>2, <2>3
  <2> QED BY <2>4, <2>5
<1>24. Misses(items, t, {})
  <2> SUFFICES ASSUME NEW w \in Win, NEW i \in 1..Len(items), w \in Apps(items[i])
               PROVE  \E k \in 1..(m + n) : w \in Apps(t[k])
    BY <1>12 DEF Misses, Shows
  <2>1. items[i].apps # NoApps
    BY DEF Apps, NoApps
  <2>2. PICK k \in 1..(m + n) : t[k] = Demoted(items[i])
    BY <1>21, <2>1 DEF Kept
  <2> QED BY <1>4, <2>2 DEF Apps
<1>25. ~(Len(old) < Len(items)) /\ new = <<>> => Len(t) = Len(items)
  <2>1. m \in Nat /\ m <= Len(items) /\ Len(items) \in Nat /\ n \in Nat
    BY <1>1, <1>2, <1>3
  <2>2. Len(t) = m + n
    BY <1>12
  <2> QED BY <1>11, <2>1, <2>2
<1>26. ASSUME NEW f \in dir, \E i \in 1..Len(items) : items[i].held /\ items[i].file = f
       PROVE  \E i \in 1..Len(t) : t[i].held /\ t[i].file = f
  <2>1. PICK i \in 1..Len(items) : items[i].held /\ items[i].file = f
    BY <1>26
  <2>2. PICK k \in 1..(m + n) : t[k].file = f /\ (items[i].held => t[k].held)
    BY <1>22, <2>1
  <2> QED BY <1>12, <2>1, <2>2
<1> QED BY <1>12, <1>17, <1>18, <1>20, <1>23, <1>24, <1>25, <1>26 DEF Sound

-----------------------------------------------------------------------------
(* What the operations on the list do to it.                               *)

LEMMA Least ==
    ASSUME NEW I \in SUBSET Nat, NEW n \in I
    PROVE  \E i \in I : \A j \in I : ~(j < i)
<1>1. IsWellFoundedOn(OpToRel(<, Nat), Nat)
  BY NatLessThanWellFounded
<1>2. PICK i \in I : \A j \in I : ~(<<j, i>> \in OpToRel(<, Nat))
  BY <1>1, WFMin
<1> QED BY <1>2 DEF OpToRel

LEMMA Finding ==
    ASSUME Sound(items), NEW w \in Win
    PROVE  /\ \A i \in find_matching_item(w) :
                 i \in 1..Len(items) /\ \A j \in 1..(i - 1) : ~Hits(items, w, j)
           /\ Exact(w) => Shows(items, w)
           /\ Shows(items, w) => Exact(w)
           /\ Exact(w) => \A i \in find_matching_item(w) : w \in Apps(items[i])
           /\ find_matching_item(w) = {} => \A j \in 1..Len(items) : ~Hits(items, w, j)
<1>1. items \in Seq(ICON) /\ Found(items) /\ Len(items) \in Nat /\ DOMAIN items = 1..Len(items)
  BY IconType DEF Sound
<1>2. \A i \in 1..Len(items) : Matches(w, i) = Hits(items, w, i)
  BY DEF Matches, Hits, ByModule, get_window_module_path
<1>3. \A i \in find_matching_item(w) :
         i \in 1..Len(items) /\ Hits(items, w, i) /\ \A j \in 1..(i - 1) : ~Hits(items, w, j)
  <2> SUFFICES ASSUME NEW i \in find_matching_item(w)
               PROVE  i \in 1..Len(items) /\ Hits(items, w, i)
                      /\ \A j \in 1..(i - 1) : ~Hits(items, w, j)
    OBVIOUS
  <2>1. i \in 1..Len(items) /\ Matches(w, i) /\ \A j \in 1..(i - 1) : ~Matches(w, j)
    BY <1>1 DEF find_matching_item
  <2>2. \A j \in 1..(i - 1) : j \in 1..Len(items)
    BY <1>1, <2>1
  <2> QED BY <1>2, <2>1, <2>2
<1>4. ASSUME NEW i \in 1..Len(items), Hits(items, w, i),
             \A j \in 1..(i - 1) : ~Hits(items, w, j)
      PROVE  i \in find_matching_item(w)
  <2>1. \A j \in 1..(i - 1) : j \in 1..Len(items)
    BY <1>1
  <2> QED BY <1>1, <1>2, <1>4, <2>1 DEF find_matching_item
<1>5. ASSUME NEW i \in find_matching_item(w), NEW j \in find_matching_item(w)
      PROVE  i = j
  <2>1. i \in 1..Len(items) /\ j \in 1..Len(items)
    BY <1>3
  <2>2. i < j => i \in 1..(j - 1)
    BY <1>1, <2>1
  <2>3. j < i => j \in 1..(i - 1)
    BY <1>1, <2>1
  <2> QED BY <1>1, <1>3, <2>1, <2>2, <2>3
<1>6. Exact(w) => Shows(items, w)
  BY <1>3 DEF Exact, Shows
<1>7. Shows(items, w) => Exact(w)
  <2> SUFFICES ASSUME NEW i \in 1..Len(items), w \in Apps(items[i]) PROVE Exact(w)
    BY DEF Shows
  <2>1. \A j \in 1..(i - 1) : ~Hits(items, w, j)
    BY <1>1 DEF Found
  <2>2. i \in find_matching_item(w)
    BY <1>4, <2>1 DEF Hits
  <2> QED BY <2>2 DEF Exact
<1>8. Exact(w) => \A i \in find_matching_item(w) : w \in Apps(items[i])
  BY <1>5 DEF Exact
<1>9. ASSUME find_matching_item(w) = {}, NEW k \in 1..Len(items), Hits(items, w, k)
      PROVE  FALSE
  <2> DEFINE H == {i \in 1..Len(items) : Hits(items, w, i)}
  <2>1. H \in SUBSET Nat /\ k \in H
    BY <1>1, <1>9
  <2>2. PICK i \in H : \A j \in H : ~(j < i)
    <3> HIDE DEF H
    <3> QED BY <2>1, Least
  <2>3. \A j \in 1..(i - 1) : ~Hits(items, w, j)
    BY <1>1, <2>2
  <2> QED BY <1>4, <1>9, <2>2, <2>3
<1> QED BY <1>3, <1>6, <1>7, <1>8, <1>9

LEMMA ForgetStep ==
    ASSUME Sound(items), NEW i \in 1..Len(items), NEW w \in Apps(items[i]), Forget(i, w)
    PROVE  \/ Becomes(items, items', Len(items), {w})
           \/ Becomes(items, items', Len(items) - 1, {w})
<1>1. items \in Seq(ICON) /\ Solid(items) /\ Len(items) \in Nat
  BY IconType DEF Sound
<1> DEFINE apps == Without(items[i].apps, w)
           D    == Apps(items[i]) \ {w}
<1>2. items[i].apps \in [Apps(items[i]) -> BOOLEAN] /\ Apps(items[i]) \subseteq Win
  BY <1>1, IconType
<1>3. apps \in [D -> BOOLEAN]
  BY <1>2 DEF Without, Apps
<1>4. CASE apps = NoApps /\ ~Resident(items[i])
  <2>1. items' = RemoveAt(items, i)
    BY <1>4 DEF Forget
  <2>2. D = {}
    BY <1>3, <1>4 DEF NoApps
  <2>3. Apps(items[i]) = {w}
    BY <2>2
  <2> QED BY <1>1, <1>4, <2>1, <2>3, RemoveSound
<1>5. CASE ~(apps = NoApps /\ ~Resident(items[i]))
  <2>1. items' = Changed(items, i, apps)
    BY <1>5 DEF Forget, SetApps, Changed
  <2>2. Apps(items[i]) \ D = {w} /\ D \in SUBSET Apps(items[i])
    OBVIOUS
  <2>3. Resident(items[i]) \/ apps # NoApps
    BY <1>5
  <2> HIDE DEF apps, D
  <2>4. Becomes(items, items', Len(items), Apps(items[i]) \ D)
    BY <1>3, <2>1, <2>2, <2>3, ShrinkSound
  <2> QED BY <2>2, <2>4
<1> QED BY <1>4, <1>5

LEMMA AdoptStep ==
    ASSUME Sound(items), NEW w \in Win, ~Exact(w), NEW flashing \in BOOLEAN,
           Adopt(w, flashing)
    PROVE  \/ Becomes(items, items', Len(items), {})
           \/ Becomes(items, items', Len(items) + 1, {})
<1>1. ~Shows(items, w)
  BY Finding
<1>2. CASE find_matching_item(w) = {} /\ items' = Append(items, TaskFor(w, flashing))
  BY <1>2, Finding, AppendSound
<1>3. ASSUME NEW i \in find_matching_item(w),
             SetApps(i, With(items[i].apps, w, flashing))
      PROVE  Becomes(items, items', Len(items), {})
  <2>1. i \in 1..Len(items) /\ \A j \in 1..(i - 1) : ~Hits(items, w, j)
    BY Finding
  <2>2. items' = Changed(items, i, With(items[i].apps, w, flashing))
    BY <1>3 DEF SetApps, Changed
  <2> QED BY <1>1, <2>1, <2>2, GrowSound
<1> QED BY <1>2, <1>3 DEF Adopt

(* A listed window flashes or is calmed.                                   *)
LEMMA MarkStep ==
    ASSUME Sound(items), NEW i \in 1..Len(items), NEW w \in Apps(items[i]),
           NEW flashing \in BOOLEAN, SetApps(i, With(items[i].apps, w, flashing))
    PROVE  Becomes(items, items', Len(items), {})
<1> DEFINE apps == With(items[i].apps, w, flashing)
           D    == Apps(items[i])
<1>1. items[i].apps \in [D -> BOOLEAN] /\ D \in SUBSET Win
  BY IconType DEF Sound
<1>2. apps \in [D \cup {w} -> BOOLEAN] /\ apps # NoApps
  <2> HIDE DEF D
  <2>1. w \in Win
    BY <1>1 DEF D
  <2>2. \A S \in SUBSET Win : \A f \in [S -> BOOLEAN] :
           With(f, w, flashing) \in [S \cup {w} -> BOOLEAN] /\ With(f, w, flashing) # NoApps
    BY <2>1, WithType
  <2> QED BY <1>1, <2>2, Zenon
<1>3. D \cup {w} = D
  OBVIOUS
<1>4. items' = Changed(items, i, apps)
  BY DEF SetApps, Changed
<1>5. D \in SUBSET Apps(items[i]) /\ Apps(items[i]) \ D = {}
  OBVIOUS
<1> HIDE DEF apps, D
<1>6. Becomes(items, items', Len(items), Apps(items[i]) \ D)
  BY <1>2, <1>3, <1>4, <1>5, ShrinkSound
<1> QED BY <1>5, <1>6

-----------------------------------------------------------------------------
(* The steps of the dock.  FlashStep is what FlashKept says of one step.   *)
FlashStep == \A w \in Flashing : w \in Listed' \/ w \notin alive \cap visible

LEMMA InitIInv == Init => IInv
<1> SUFFICES ASSUME Init PROVE IInv
  OBVIOUS
<1>1. PICK new \in Orders(dir) : items = [k \in DOMAIN new |-> NewResident(new[k])]
  BY DEF Init
<1> DEFINE n == Cardinality(dir)
<1>2. /\ n \in Nat /\ new \in [1..n -> dir]
      /\ \A j, k \in 1..n : new[j] = new[k] => j = k
      /\ \A e \in dir : \E k \in 1..n : new[k] = e
  <2>1. IsFiniteSet(dir)
    BY DockAssumption, FS_Subset DEF Init
  <2> QED BY <2>1, OrderIsOnto
<1> HIDE DEF n
<1>3. ASSUME NEW k \in 1..n
      PROVE  /\ NewResident(new[k]) \in ICON /\ NewResident(new[k]).file = new[k]
             /\ Apps(NewResident(new[k])) = {} /\ new[k] # NoFile
  <2>1. NoApps \in [{} -> BOOLEAN] /\ DOMAIN NoApps = {}
    BY DEF NoApps
  <2>2. NoApps \in APPS
    BY <2>1, AppsType
  <2>3. new[k] \in File /\ target[new[k]] \in Module
    BY <1>2, DockAssumption DEF Init
  <2> QED BY <2>1, <2>2, <2>3, DockAssumption DEF NewResident, ICON, Apps, get_module_name
<1>4. /\ items \in Seq(ICON) /\ Len(items) = n /\ DOMAIN items = 1..n
      /\ \A k \in 1..n : items[k] = NewResident(new[k])
  BY <1>1, <1>2, <1>3
<1>5. Sound(items)
  <2>1. Found(items)
    BY <1>3, <1>4 DEF Found
  <2>2. Solid(items)
    BY <1>3, <1>4 DEF Solid, Resident
  <2>3. Single(items)
    BY <1>2, <1>3, <1>4 DEF Single
  <2> QED BY <1>4, <2>1, <2>2, <2>3 DEF Sound
<1>6. Residents(items) = dir
  <2>1. Residents(items) \subseteq dir
    BY <1>2, <1>3, <1>4 DEF Residents
  <2>2. dir \subseteq Residents(items)
    BY <1>2, <1>3, <1>4 DEF Residents
  <2> QED BY <2>1, <2>2
<1>7. Scalars
  <2>1. /\ alive \subseteq Win /\ visible \subseteq alive /\ elsewhere \subseteq App
        /\ dir \subseteq File /\ flashes \subseteq Win /\ todo \subseteq Win
    BY DEF Init
  <2>2. room \in [icons : Nat, vert : BOOLEAN] /\ is_vert \in BOOLEAN
    BY <1>2, <1>4 DEF Init
  <2>3. menu \in [shown : BOOLEAN, launches : File \cup {NoFile}, removed : BOOLEAN]
    BY DEF Init, Closed
  <2>4. moves \in 0..MaxMoves
    BY DockAssumption DEF Init
  <2> QED BY <2>1, <2>2, <2>3, <2>4 DEF Init, Scalars
<1>8. Position /\ Room
  BY <1>2, <1>4 DEF Init, Position, Room
<1>9. MenuFile /\ MenuIconLives
  BY DEF Init, MenuFile, MenuIconLives, Closed
<1> QED BY <1>5, <1>6, <1>7, <1>8, <1>9 DEF IInv, Followed

LEMMA Showing ==
    ASSUME NEW s \in Seq(ICON), s = items
    PROVE  /\ \A w \in Listed : w \in Win /\ Shows(items, w)
           /\ \A w : Shows(items, w) => w \in Listed
           /\ Flashing \subseteq Listed
<1>1. DOMAIN items = 1..Len(items) /\ \A i \in 1..Len(items) : Apps(items[i]) \subseteq Win
  BY IconType
<1> QED BY <1>1 DEF Listed, Shows, Flashing

LEMMA FlashesStay ==
    ASSUME Sound(items), NEW n, NEW gone, Becomes(items, items', n, gone),
           \A w \in gone : w \notin Flashing \/ w \notin alive \cap visible
    PROVE  FlashStep
<1>1. items \in Seq(ICON) /\ items' \in Seq(ICON) /\ Misses(items, items', gone)
  BY DEF Sound, Becomes
<1>2. DOMAIN items' = 1..Len(items')
  BY <1>1, IconType
<1> SUFFICES ASSUME NEW w \in Flashing, w \notin gone PROVE w \in Listed'
  BY DEF FlashStep
<1>3. w \in Win /\ Shows(items, w)
  BY <1>1, Showing
<1>4. Shows(items', w)
  BY <1>1, <1>3 DEF Misses
<1> QED BY <1>2, <1>4 DEF Shows, Listed

LEMMA SameList ==
    ASSUME Sound(items), items' = items
    PROVE  Becomes(items, items', Len(items), {})
  BY DEF Becomes, HeldStays, Misses

(* A step of the list while neither the directory nor the menu changes.    *)
LEMMA ListStep ==
    ASSUME IInv, NEW n, NEW gone, Becomes(items, items', n, gone),
           dir' = dir, menu' = menu,
           UNCHANGED <<noticed, missed, dir_change_time>>
    PROVE  Sound(items') /\ MenuFile' /\ MenuIconLives' /\ Followed'
<1>1. Sound(items') /\ Residents(items') = Residents(items) /\ HeldStays(items, items')
  BY DEF Becomes
<1>2. items \in Seq(ICON) /\ items' \in Seq(ICON)
  BY <1>1 DEF IInv, Sound
<1>3. DOMAIN items = 1..Len(items) /\ DOMAIN items' = 1..Len(items')
  BY <1>2, IconType
<1>4. menu.launches \in File \cup {NoFile}
  BY DEF IInv, Scalars
<1>5. MenuIconLives'
  <2> SUFFICES ASSUME menu.launches # NoFile, ~menu.removed
               PROVE  \E i \in 1..Len(items') : items'[i].held /\ items'[i].file = menu.launches
    BY <1>3 DEF MenuIconLives
  <2>1. \E i \in 1..Len(items) : items[i].held /\ items[i].file = menu.launches
    BY <1>3 DEF IInv, MenuIconLives
  <2> QED BY <1>1, <1>4, <2>1 DEF HeldStays
<1>6. MenuFile' /\ Followed'
  BY <1>1 DEF IInv, MenuFile, Followed
<1> QED BY <1>1, <1>5, <1>6

LEMMA ScanDirStep ==
    ASSUME IInv, scan_dir, pc = "idle", UNCHANGED <<dir, menu, noticed, is_vert>>
    PROVE  /\ Sound(items') /\ MenuFile' /\ MenuIconLives' /\ Followed'
           /\ has_changed' = FALSE /\ room' = [icons |-> Len(items'), vert |-> is_vert]
           /\ Misses(items, items', {})
<1>1. PICK old \in Ascending({i \in DOMAIN items : Kept(items[i])}),
           new \in Orders(dir \ Residents(items)) :
         /\ items' = [k \in DOMAIN old |-> Demoted(items[old[k]])]
                       \o [k \in DOMAIN new |-> NewResident(new[k])]
         /\ IF has_changed \/ Len(old) < Len(items) \/ new # <<>>
                THEN update_view
                ELSE UNCHANGED <<has_changed, room>>
  BY DEF scan_dir
<1>2. /\ Sound(items')
      /\ ~(Len(old) < Len(items)) /\ new = <<>> => Len(items') = Len(items)
      /\ Residents(items') = dir
      /\ \A f \in dir :
            (\E i \in 1..Len(items) : items[i].held /\ items[i].file = f)
               => \E i \in 1..Len(items') : items'[i].held /\ items'[i].file = f
      /\ Misses(items, items', {})
  <2>1. Sound(items) /\ dir \subseteq File
    BY DEF IInv, Scalars
  <2> DEFINE t == items'
  <2>2. t = [k \in DOMAIN old |-> Demoted(items[old[k]])]
              \o [k \in DOMAIN new |-> NewResident(new[k])]
    BY <1>1
  <2> HIDE DEF t
  <2>3. Sound(t) /\ Misses(items, t, {})
    BY <2>1, <2>2, ScanSound
  <2>4. ~(Len(old) < Len(items)) /\ new = <<>> => Len(t) = Len(items)
    BY <2>1, <2>2, ScanSound
  <2>5. Residents(t) = dir
    BY <2>1, <2>2, ScanSound
  <2>6. \A f \in dir :
            (\E i \in 1..Len(items) : items[i].held /\ items[i].file = f)
               => \E i \in 1..Len(t) : t[i].held /\ t[i].file = f
    BY <2>1, <2>2, ScanSound
  <2> QED BY <2>3, <2>4, <2>5, <2>6 DEF t
<1>3. items \in Seq(ICON) /\ items' \in Seq(ICON)
  BY <1>2 DEF IInv, Sound
<1>4. DOMAIN items = 1..Len(items) /\ DOMAIN items' = 1..Len(items') /\ Len(items') \in Nat
  BY <1>3, IconType
<1>5. MenuIconLives'
  <2> SUFFICES ASSUME menu.launches # NoFile, ~menu.removed
               PROVE  \E i \in 1..Len(items') : items'[i].held /\ items'[i].file = menu.launches
    BY <1>4 DEF MenuIconLives
  <2>1. menu.launches \in dir
    BY DEF IInv, MenuFile
  <2>2. \E i \in 1..Len(items) : items[i].held /\ items[i].file = menu.launches
    BY <1>4 DEF IInv, MenuIconLives
  <2> QED BY <1>2, <2>1, <2>2
<1>6. MenuFile' /\ Followed'
  BY <1>2 DEF IInv, MenuFile, Followed
<1>7. has_changed' = FALSE /\ room' = [icons |-> Len(items'), vert |-> is_vert]
  <2>1. CASE update_view
    BY <2>1 DEF update_view
  <2>2. CASE ~update_view
    <3>1. has_changed' = has_changed /\ room' = room /\ ~has_changed
          /\ ~(Len(old) < Len(items)) /\ new = <<>>
      BY <1>1, <2>2
    <3>2. Len(items') = Len(items)
      BY <1>2, <3>1
    <3> QED BY <3>1, <3>2 DEF IInv, Scalars, Room
  <2> QED BY <2>1, <2>2
<1> QED BY <1>2, <1>5, <1>6, <1>7

LEMMA ScanStep ==
    ASSUME IInv, NEW w \in Win, do_task_scan(w)
    PROVE  IInv' /\ FlashStep
<1>1. Sound(items) /\ Len(items) \in Nat /\ pc = "enum" /\ at = 1
  BY IconType DEF IInv, Sound, do_task_scan, Position
<1>2. \E n \in {Len(items), Len(items) - 1, Len(items) + 1} :
         /\ \E gone : /\ Becomes(items, items', n, gone)
                      /\ \A v \in gone : v \notin Flashing \/ v \notin alive \cap visible
         /\ n # Len(items) => has_changed'
         /\ room' = room /\ has_changed' \in BOOLEAN
         /\ has_changed => has_changed'
  <2>1. CASE UNCHANGED <<items, has_changed, room>>
    <3>1. Becomes(items, items', Len(items), {})
      BY <1>1, <2>1, SameList
    <3> QED BY <2>1, <3>1 DEF IInv, Scalars
  <2>2. ASSUME Exact(w), NEW i \in find_matching_item(w), Leaves(i, w), Forget(i, w),
               has_changed' = (has_changed \/ Len(items') < Len(items)), room' = room
        PROVE  \E n \in {Len(items), Len(items) - 1} :
                  /\ Becomes(items, items', n, {w}) /\ w \notin Flashing
                  /\ n # Len(items) => has_changed'
                  /\ has_changed' \in BOOLEAN /\ (has_changed => has_changed')
    <3>1. i \in 1..Len(items) /\ w \in Apps(items[i])
      BY <1>1, <2>2, Finding
    <3>2. PICK n \in {Len(items), Len(items) - 1} : Becomes(items, items', n, {w})
      BY <1>1, <2>2, <3>1, ForgetStep
    <3>3. n # Len(items) => has_changed'
      <4>1. n # Len(items) => Len(items') < Len(items)
        BY <1>1, <3>2 DEF Becomes
      <4> QED BY <2>2, <4>1, Zenon
    <3>4. w \notin Flashing
      <4> SUFFICES ASSUME NEW j \in DOMAIN items, w \in Apps(items[j]), items[j].apps[w]
                   PROVE  FALSE
        BY DEF Flashing
      <4>1. j \in 1..Len(items)
        BY <1>1, IconType DEF Sound
      <4>2. i = j
        BY <1>1, <3>1, <4>1, OnePlace
      <4> QED BY <2>2, <4>2 DEF Leaves
    <3> QED BY <2>2, <3>2, <3>3, <3>4
  <2>3. ASSUME ~Exact(w), Adopt(w, FALSE), has_changed' = TRUE, room' = room
        PROVE  \E n \in {Len(items), Len(items) + 1} : Becomes(items, items', n, {})
    BY <1>1, <2>3, AdoptStep
  <2>4. CASE w \notin visible
    BY <2>1, <2>4 DEF do_task_scan, icons
  <2>5. CASE w \in visible
    <3>1. room' = room
      BY <2>5 DEF do_task_scan
    <3>2. CASE Exact(w)
      <4>1. PICK i \in find_matching_item(w) :
               IF Leaves(i, w)
               THEN /\ Forget(i, w)
                    /\ has_changed' = (has_changed \/ Len(items') < Len(items))
               ELSE UNCHANGED <<items, has_changed>>
        BY <2>5, <3>2 DEF do_task_scan
      <4>2. CASE Leaves(i, w)
        BY <2>2, <3>1, <3>2, <4>1, <4>2
      <4> QED BY <2>1, <3>1, <4>1, <4>2
    <3>3. CASE ~Exact(w) /\ Adopt(w, FALSE) /\ has_changed' = TRUE
      BY <2>3, <3>1, <3>3
    <3>4. CASE UNCHANGED <<items, has_changed>>
      BY <2>1, <3>1, <3>4
    <3> QED BY <2>5, <3>2, <3>3, <3>4 DEF do_task_scan
  <2> QED BY <2>4, <2>5
<1>3. PICK n, gone :
         /\ n \in {Len(items), Len(items) - 1, Len(items) + 1}
         /\ Becomes(items, items', n, gone)
         /\ \A v \in gone : v \notin Flashing \/ v \notin alive \cap visible
         /\ n # Len(items) => has_changed'
         /\ room' = room /\ has_changed' \in BOOLEAN
         /\ has_changed => has_changed'
  BY <1>2
<1>4. Sound(items') /\ MenuFile' /\ MenuIconLives' /\ Followed'
  BY <1>3, ListStep DEF do_task_scan, world, watch, shape
<1>5. FlashStep
  BY <1>1, <1>3, FlashesStay
<1>6. Len(items') = n /\ n \in Nat
  <2>1. Len(items') = n
    BY <1>3 DEF Becomes
  <2>2. Len(items') \in Nat
    BY <1>4, IconType DEF Sound
  <2> QED BY <2>1, <2>2
<1>7. Scalars'
  BY <1>3 DEF IInv, Scalars, do_task_scan, world, watch, shape
<1>8. Position'
  BY <1>1, <1>6 DEF Position, do_task_scan
<1>9. Room'
  BY <1>1, <1>3, <1>6 DEF IInv, Room, do_task_scan, shape
<1> QED BY <1>4, <1>5, <1>7, <1>8, <1>9 DEF IInv

LEMMA DropStep ==
    ASSUME IInv, DropDead
    PROVE  IInv' /\ FlashStep
<1>1. /\ Sound(items) /\ Len(items) \in Nat /\ pc = "dead"
      /\ at \in 1..Len(items) /\ has_changed \in BOOLEAN
  BY IconType DEF IInv, Sound, DropDead, Position, Scalars
<1>2. CASE Dead(at) = {}
  <2>1. Becomes(items, items', Len(items), {})
    BY <1>1, <1>2, SameList DEF DropDead
  <2>2. Sound(items') /\ MenuFile' /\ MenuIconLives' /\ Followed'
    BY <2>1, ListStep DEF DropDead, world, watch, shape
  <2>3. FlashStep
    BY <1>1, <2>1, FlashesStay
  <2>4. Scalars' /\ Position' /\ Room'
    BY <1>1, <1>2 DEF IInv, Scalars, Position, Room, DropDead, world, watch, shape
  <2> QED BY <2>2, <2>3, <2>4 DEF IInv
<1>3. CASE Dead(at) # {}
  <2>1. PICK w \in Dead(at) : Forget(at, w)
    BY <1>3 DEF DropDead
  <2>2. w \in Apps(items[at]) /\ w \notin alive \cap visible
    BY <2>1 DEF Dead
  <2>3. PICK n \in {Len(items), Len(items) - 1} : Becomes(items, items', n, {w})
    BY <1>1, <2>1, <2>2, ForgetStep
  <2>4. Sound(items') /\ MenuFile' /\ MenuIconLives' /\ Followed'
    BY <2>3, ListStep DEF DropDead, world, watch, shape
  <2>5. FlashStep
    BY <1>1, <2>2, <2>3, FlashesStay
  <2>6. Len(items') = n /\ n \in Nat
    BY <2>3, <2>4, IconType DEF Becomes, Sound
  <2>7. Scalars'
    BY <1>3 DEF IInv, Scalars, DropDead, world, watch, shape
  <2>8. Position'
    BY <1>1, <1>3, <2>3, <2>6 DEF Position, DropDead
  <2>9. Room'
    BY <1>1, <1>3 DEF Room, DropDead
  <2> QED BY <2>4, <2>5, <2>7, <2>8, <2>9 DEF IInv
<1> QED BY <1>2, <1>3

(* The steps between which the list stays as it is.                        *)
LEMMA QuietStep ==
    ASSUME IInv, items' = items, dir' = dir, menu' = menu,
           UNCHANGED <<noticed, missed, dir_change_time>>,
           Scalars', Position', Room'
    PROVE  IInv' /\ FlashStep
<1>1. Sound(items) /\ Becomes(items, items', Len(items), {})
  BY SameList DEF IInv
<1>2. Sound(items') /\ MenuFile' /\ MenuIconLives' /\ Followed'
  BY <1>1, ListStep
<1>3. FlashStep
  BY <1>1, FlashesStay
<1> QED BY <1>2, <1>3 DEF IInv

LEMMA ScanEnds ==
    ASSUME IInv, EnumDone \/ ScanDone
    PROVE  IInv' /\ FlashStep
<1>1. Len(items) \in Nat
  BY IconType DEF IInv, Sound
<1>2. CASE EnumDone
  <2>1. Scalars' /\ Position' /\ Room'
    BY <1>1, <1>2 DEF IInv, Scalars, Position, Room, EnumDone, world, watch, icons, shape
  <2> QED BY <1>2, <2>1, QuietStep DEF EnumDone, world, watch, icons, shape
<1>3. CASE ScanDone
  <2>1. Scalars'
    <3>1. has_changed' \in BOOLEAN /\ room' \in [icons : Nat, vert : BOOLEAN]
      <4>1. CASE has_changed
        <5>1. update_view /\ items' = items
          BY <1>3, <4>1 DEF ScanDone
        <5>2. has_changed' = FALSE /\ room' = [icons |-> Len(items), vert |-> is_vert]
          BY <5>1 DEF update_view
        <5> QED BY <1>1, <5>2 DEF IInv, Scalars
      <4>2. CASE ~has_changed
        BY <1>3, <4>2 DEF IInv, Scalars, ScanDone
      <4> QED BY <4>1, <4>2
    <3> QED BY <1>3, <3>1 DEF IInv, Scalars, ScanDone, world, watch, shape
  <2>2. Position' /\ Room'
    BY <1>1, <1>3 DEF IInv, Scalars, Position, Room, ScanDone, update_view, world, watch, shape
  <2> QED BY <1>3, <2>1, <2>2, QuietStep DEF ScanDone, world, watch, shape
<1> QED BY <1>2, <1>3

(* The steps that scan the directory, or may.                              *)
LEMMA ReadDirectory ==
    ASSUME IInv, NEW interval_over \in BOOLEAN, Timer(interval_over) \/ ClickBeside
    PROVE  IInv' /\ FlashStep
<1>1. /\ Sound(items) /\ items \in Seq(ICON) /\ Len(items) \in Nat
      /\ pc = "idle" /\ at = 1 /\ alive \cap App \subseteq Win
  BY IconType, DockAssumption DEF IInv, Sound, Timer, ClickBeside, Position, Scalars
<1>2. /\ UNCHANGED <<world, armed, noticed, shape>>
      /\ at' = at /\ pc' \in {"idle", "enum"} /\ todo' \subseteq Win
      /\ pc' = "idle" \/ pc' = "enum"
  BY <1>1 DEF Timer, ClickBeside, scan_tasks, scan, IInv, Scalars
<1>3. CASE scan_dir
  <2>1. UNCHANGED <<dir, menu, noticed, is_vert>>
    BY <1>2 DEF world, shape
  <2>2. /\ Sound(items') /\ MenuFile' /\ MenuIconLives' /\ Followed'
        /\ has_changed' = FALSE /\ room' = [icons |-> Len(items'), vert |-> is_vert]
        /\ Misses(items, items', {})
    BY <1>1, <1>3, <2>1, ScanDirStep
  <2>3. items' \in Seq(ICON)
    BY <2>2 DEF Sound
  <2>4. Len(items') \in Nat
    BY <2>3, IconType
  <2>5. room' \in [icons : Nat, vert : BOOLEAN]
    BY <2>2, <2>4 DEF IInv, Scalars
  <2>6. Scalars'
    BY <1>2, <1>3, <2>2, <2>5 DEF IInv, Scalars, scan_dir, world, shape
  <2>7. Position' /\ Room'
    BY <1>1, <1>2, <2>1, <2>2, <2>4 DEF Position, Room
  <2>8. FlashStep
    <3>1. DOMAIN items' = 1..Len(items')
      BY <2>3, IconType
    <3> SUFFICES ASSUME NEW w \in Flashing PROVE w \in Listed'
      BY DEF FlashStep
    <3>2. w \in Win /\ Shows(items, w)
      BY <1>1, Showing
    <3>3. Shows(items', w)
      BY <2>2, <3>2 DEF Misses
    <3> QED BY <3>1, <3>3 DEF Shows, Listed
  <2> QED BY <2>2, <2>6, <2>7, <2>8 DEF IInv
<1>4. CASE ~scan_dir
  <2>1. UNCHANGED <<icons, dir_change_time, missed>>
    BY <1>4 DEF Timer, ClickBeside
  <2>2. Scalars' /\ Position' /\ Room'
    BY <1>1, <1>2, <2>1 DEF IInv, Scalars, Position, Room, icons, world, shape
  <2> QED BY <1>2, <2>1, <2>2, QuietStep DEF icons, world, shape
<1> QED BY <1>3, <1>4

(* A window flashes or is calmed.                                          *)
LEMMA Marks ==
    ASSUME IInv,
           (\E i \in DOMAIN items : ClickIcon(i)) \/ (\E w \in Win : Redraw(w) \/ Flash(w))
    PROVE  IInv' /\ FlashStep
<1>1. /\ Sound(items) /\ items \in Seq(ICON) /\ Len(items) \in Nat
      /\ DOMAIN items = 1..Len(items) /\ \A i \in 1..Len(items) : Apps(items[i]) \subseteq Win
      /\ pc = "idle" /\ at = 1 /\ has_changed = FALSE
      /\ room = [icons |-> Len(items), vert |-> is_vert]
  BY IconType DEF IInv, Sound, ClickIcon, Redraw, Flash, Position, Scalars, Room
<1>2. /\ UNCHANGED <<alive, visible, elsewhere, dir, moves, watch, dir_change_time, scan, shape>>
      /\ flashes' \subseteq Win
  BY DEF ClickIcon, Redraw, Flash, world, IInv, Scalars
<1>3. \A i \in 1..Len(items) : \A w \in Win :
        Calms(i, w) => Becomes(items, items', Len(items), {})
  BY <1>1, MarkStep DEF Calms
<1>4. /\ \E n \in {Len(items), Len(items) + 1} : Becomes(items, items', n, {})
      /\ update_view \/ (items' = items /\ UNCHANGED <<has_changed, room>>)
         \/ (UNCHANGED <<has_changed, room>> /\ Becomes(items, items', Len(items), {}))
  <2>1. ASSUME NEW i \in DOMAIN items, ClickIcon(i)
        PROVE  UNCHANGED <<has_changed, room>> /\ Becomes(items, items', Len(items), {})
    BY <1>1, <1>3, <2>1 DEF ClickIcon
  <2>2. ASSUME NEW w \in Win, Redraw(w)
        PROVE  update_view /\ Becomes(items, items', Len(items), {})
    <3>1. PICK i \in find_matching_item(w) : Calms(i, w)
      BY <2>2 DEF Redraw
    <3>2. i \in 1..Len(items)
      BY <1>1, Finding
    <3> QED BY <1>3, <2>2, <3>1, <3>2 DEF Redraw
  <2>3. ASSUME NEW w \in Win, Flash(w), ~(UNCHANGED icons)
        PROVE  /\ update_view
               /\ \E n \in {Len(items), Len(items) + 1} : Becomes(items, items', n, {})
    <3>1. update_view
      BY <2>3 DEF Flash
    <3>2. CASE ~Exact(w) /\ Adopt(w, TRUE)
      BY <1>1, <3>1, <3>2, AdoptStep
    <3>3. CASE Exact(w) /\ \E i \in find_matching_item(w) : SetApps(i, With(items[i].apps, w, TRUE))
      <4>1. PICK i \in find_matching_item(w) : SetApps(i, With(items[i].apps, w, TRUE))
        BY <3>3
      <4>2. i \in 1..Len(items) /\ w \in Apps(items[i])
        BY <1>1, <3>3, Finding
      <4> QED BY <1>1, <3>1, <4>1, <4>2, MarkStep
    <3> QED BY <2>3, <3>2, <3>3 DEF Flash
  <2>4. ASSUME NEW w \in Win, Flash(w), UNCHANGED icons
        PROVE  /\ items' = items /\ UNCHANGED <<has_changed, room>>
               /\ Becomes(items, items', Len(items), {})
    BY <1>1, <2>4, SameList DEF icons
  <2> QED BY <2>1, <2>2, <2>3, <2>4
<1>5. PICK n \in {Len(items), Len(items) + 1} : Becomes(items, items', n, {})
  BY <1>4
<1>6. Sound(items') /\ MenuFile' /\ MenuIconLives' /\ Followed'
  BY <1>2, <1>5, ListStep DEF watch, shape
<1>7. Len(items') \in Nat
  BY <1>6, IconType DEF Sound
<1>8. has_changed' = FALSE /\ room' = [icons |-> Len(items'), vert |-> is_vert]
  BY <1>1, <1>4 DEF update_view, Becomes
<1>9. room' \in [icons : Nat, vert : BOOLEAN]
  BY <1>7, <1>8 DEF IInv, Scalars
<1>10. Scalars'
  BY <1>2, <1>8, <1>9 DEF IInv, Scalars, watch, scan, shape
<1>11. Position' /\ Room'
  BY <1>1, <1>2, <1>7, <1>8 DEF Position, Room, scan, shape
<1>12. FlashStep
  BY <1>1, <1>5, FlashesStay
<1> QED BY <1>6, <1>10, <1>11, <1>12 DEF IInv

(* The steps of the menu.                                                  *)
LEMMA MenuSteps ==
    ASSUME IInv, (\E i \in DOMAIN items : ContextMenu(i)) \/ MenuEnds
    PROVE  IInv' /\ FlashStep
<1>1. /\ Sound(items) /\ items \in Seq(ICON) /\ Len(items) \in Nat
      /\ DOMAIN items = 1..Len(items) /\ pc = "idle" /\ at = 1
      /\ \A i \in 1..Len(items) : items[i] \in ICON
      /\ \A i \in 1..Len(items) : items[i].file \in File \cup {NoFile} /\ items[i].held \in BOOLEAN
  <2>1. \A it \in ICON : it.file \in File \cup {NoFile} /\ it.held \in BOOLEAN
    BY DEF ICON
  <2> QED BY <2>1, IconType DEF IInv, Sound, ContextMenu, MenuEnds, Position
<1>2. /\ UNCHANGED <<alive, visible, elsewhere, dir, flashes, watch, has_changed, room,
                     is_vert, dir_change_time, scan>>
      /\ moves' \in 0..MaxMoves
  BY DockAssumption DEF ContextMenu, MenuEnds, Moves, world, IInv, Scalars
<1>3. ASSUME NEW held \in [1..Len(items) -> BOOLEAN],
             items' = [k \in 1..Len(items) |-> [items[k] EXCEPT !.held = held[k]]],
             menu' \in [shown : BOOLEAN, launches : File \cup {NoFile}, removed : BOOLEAN],
             menu'.launches # NoFile /\ ~menu'.removed =>
                \E k \in 1..Len(items) : held[k] /\ items[k].file = menu'.launches
                                         /\ items[k].file \in dir
      PROVE  IInv' /\ FlashStep
  <2> DEFINE t == items'
  <2>1. t = [k \in 1..Len(items) |-> [items[k] EXCEPT !.held = held[k]]]
    BY <1>3
  <2> HIDE DEF t
  <2>2. HeldBy(items, t, held)
    BY <1>1, <1>3, <2>1, HoldSound
  <2>3. Sound(t) /\ Misses(items, t, {})
    BY <2>2 DEF HeldBy
  <2>4. Len(t) = Len(items) /\ DOMAIN t = DOMAIN items
    BY <2>2 DEF HeldBy
  <2>5. Residents(t) = Residents(items)
    BY <2>2 DEF HeldBy
  <2>6. \A i \in 1..Len(items) : t[i].file = items[i].file /\ t[i].held = held[i]
    BY <2>2 DEF HeldBy
  <2>7. MenuFile' /\ MenuIconLives'
    BY <1>1, <1>2, <1>3, <2>4, <2>6 DEF MenuFile, MenuIconLives, t
  <2>8. Followed'
    BY <1>2, <2>5 DEF IInv, Followed, watch, t
  <2>9. Scalars'
    BY <1>2, <1>3 DEF IInv, Scalars, watch, scan
  <2>10. Position' /\ Room'
    BY <1>2, <2>4 DEF IInv, Position, Room, scan, t
  <2>11. FlashStep
    <3> SUFFICES ASSUME NEW w \in Flashing PROVE w \in Listed'
      BY DEF FlashStep
    <3>1. w \in Win /\ Shows(items, w)
      BY <1>1, Showing
    <3>2. Shows(t, w)
      BY <2>3, <3>1 DEF Misses
    <3> QED BY <1>1, <2>4, <3>2 DEF Shows, Listed, t
  <2> QED BY <2>3, <2>7, <2>8, <2>9, <2>10, <2>11 DEF IInv, t
<1>4. ASSUME NEW i \in DOMAIN items, ContextMenu(i)
      PROVE  IInv' /\ FlashStep
  <2> DEFINE held == [k \in 1..Len(items) |-> IF k = i THEN Resident(items[i]) ELSE items[k].held]
  <2>1. held \in [1..Len(items) -> BOOLEAN]
    BY <1>1 DEF Resident
  <2>2. items' = [k \in 1..Len(items) |-> [items[k] EXCEPT !.held = held[k]]]
    <3>1. items \in [1..Len(items) -> ICON]
      BY <1>1, IconType
    <3>2. items' = [items EXCEPT ![i] = [items[i] EXCEPT !.held = Resident(items[i])]]
      BY <1>4 DEF ContextMenu, Hold
    <3>3. \A k \in 1..Len(items) : [items[k] EXCEPT !.held = items[k].held] = items[k]
      BY <1>1 DEF ICON
    <3>4. \A k \in 1..Len(items) : [items[k] EXCEPT !.held = held[k]] =
             IF k = i THEN [items[i] EXCEPT !.held = Resident(items[i])] ELSE items[k]
      BY <3>3
    <3> QED BY <1>1, <3>1, <3>2, <3>4
  <2>3. menu' = [shown |-> TRUE, launches |-> items[i].file,
                 removed |-> Resident(items[i]) /\ items[i].file \notin dir]
    BY <1>4 DEF ContextMenu
  <2>4. menu' \in [shown : BOOLEAN, launches : File \cup {NoFile}, removed : BOOLEAN]
    BY <1>1, <2>3
  <2>5. menu'.launches # NoFile /\ ~menu'.removed =>
           held[i] /\ items[i].file = menu'.launches /\ items[i].file \in dir
    BY <1>1, <2>3 DEF Resident
  <2> HIDE DEF held
  <2> QED BY <1>1, <1>3, <2>1, <2>2, <2>4, <2>5
<1>5. CASE MenuEnds
  <2> DEFINE held == [k \in 1..Len(items) |-> FALSE]
  <2>1. held \in [1..Len(items) -> BOOLEAN]
    OBVIOUS
  <2>2. items' = [k \in 1..Len(items) |-> [items[k] EXCEPT !.held = held[k]]]
    BY <1>1, <1>5 DEF MenuEnds
  <2>3. menu' = Closed
    BY <1>5 DEF MenuEnds
  <2>4. menu' \in [shown : BOOLEAN, launches : File \cup {NoFile}, removed : BOOLEAN]
    BY <2>3 DEF Closed
  <2>5. menu'.launches = NoFile
    BY <2>3 DEF Closed
  <2> HIDE DEF held
  <2> QED BY <1>3, <2>1, <2>2, <2>4, <2>5
<1> QED BY <1>4, <1>5

(* The rest of the system, and the steps of the dock that leave the list.  *)
LEMMA WorldSteps ==
    ASSUME IInv,
           \/ WindowCreated \/ DelayOver \/ monitor_dir \/ dir_changed
           \/ handle_slit_layout_change \/ DesktopSwitched
           \/ \E w \in Win : WindowChanges(w) \/ WindowDies(w) \/ WindowFlashes(w) \/ WindowMoves(w)
           \/ \E f \in File : DirectoryChanges(f)
    PROVE  IInv' /\ FlashStep
<1>1. /\ Sound(items) /\ Len(items) \in Nat /\ Becomes(items, items, Len(items), {})
      /\ alive \cap App \subseteq Win
  BY IconType, SameList, DockAssumption DEF IInv, Sound, Becomes, HeldStays, Misses
<1>2. CASE WindowCreated
  <2>1. Scalars' /\ Position' /\ Room'
    BY <1>1, <1>2 DEF IInv, Scalars, Position, Room, WindowCreated, scan_tasks,
                      world, watch, icons, shape
  <2> QED BY <1>2, <2>1, QuietStep DEF WindowCreated, world, watch, icons, shape
<1>3. CASE DesktopSwitched
  <2>1. Scalars' /\ Position' /\ Room'
    BY <1>1, <1>3, DockAssumption
       DEF IInv, Scalars, Position, Room, DesktopSwitched, scan_tasks, Moves,
           watch, icons, shape
  <2> QED BY <1>3, <2>1, QuietStep DEF DesktopSwitched, watch, icons, shape
<1>4. ASSUME NEW w \in Win,
             WindowChanges(w) \/ WindowDies(w) \/ WindowFlashes(w) \/ WindowMoves(w)
      PROVE  IInv' /\ FlashStep
  <2>1. /\ UNCHANGED <<dir, watch, icons, dir_change_time, scan, shape>>
        /\ moves' \in 0..MaxMoves
    BY <1>4, DockAssumption
       DEF WindowChanges, WindowDies, WindowFlashes, WindowMoves, Moves, IInv, Scalars
  <2>2. /\ alive' \subseteq Win /\ visible' \subseteq alive' /\ elsewhere' \subseteq App
        /\ flashes' \subseteq Win
    BY <1>4 DEF WindowChanges, WindowDies, WindowFlashes, WindowMoves, IInv, Scalars
  <2>3. Scalars' /\ Position' /\ Room'
    BY <2>1, <2>2 DEF IInv, Scalars, Position, Room, watch, icons, scan, shape
  <2> QED BY <2>1, <2>3, QuietStep DEF watch, icons, shape
<1>5. CASE handle_slit_layout_change
  <2>1. has_changed' = FALSE /\ room' = [icons |-> Len(items), vert |-> ~is_vert]
        /\ is_vert' = ~is_vert
    BY <1>5 DEF handle_slit_layout_change, IInv, Room, Scalars
  <2>2. room' \in [icons : Nat, vert : BOOLEAN] /\ is_vert' \in BOOLEAN
    BY <1>1, <2>1
  <2>3. has_changed' \in BOOLEAN /\ moves' \in 0..MaxMoves
    <3>1. moves \in 0..MaxMoves /\ moves < MaxMoves /\ moves' = moves + 1
      BY <1>5 DEF IInv, Scalars, handle_slit_layout_change, Moves
    <3>2. moves' \in 0..MaxMoves
      BY <3>1, DockAssumption
    <3>3. has_changed' \in BOOLEAN
      BY <2>1
    <3> QED BY <3>2, <3>3
  <2>4. Scalars'
    BY <1>5, <2>2, <2>3 DEF IInv, Scalars, handle_slit_layout_change, watch, scan
  <2>5. Position' /\ Room'
    BY <1>5, <2>1 DEF IInv, Position, Room, handle_slit_layout_change, scan
  <2> QED BY <1>5, <2>4, <2>5, QuietStep DEF handle_slit_layout_change, watch
<1>6. CASE DelayOver \/ monitor_dir \/ dir_changed
  <2>1. UNCHANGED <<world, icons, scan, shape>>
    BY <1>6 DEF DelayOver, monitor_dir, dir_changed
  <2>2. /\ armed' \in BOOLEAN /\ noticed' \in BOOLEAN /\ missed' \in BOOLEAN
        /\ dir_change_time' \in {"off", "set", "due"}
    <3>1. armed' = armed \/ armed' = TRUE
      BY <1>6 DEF DelayOver, monitor_dir, dir_changed, watch
    <3>2. noticed' = noticed \/ noticed' = FALSE
      BY <1>6 DEF DelayOver, monitor_dir, dir_changed, watch
    <3>3. missed' = missed
      BY <1>6 DEF DelayOver, monitor_dir, dir_changed, watch
    <3>4. dir_change_time' \in {"off", "set", "due"}
      BY <1>6 DEF DelayOver, monitor_dir, dir_changed, IInv, Scalars
    <3> QED BY <3>1, <3>2, <3>3, <3>4 DEF IInv, Scalars
  <2>3. Scalars' /\ Position' /\ Room'
    BY <2>1, <2>2 DEF IInv, Scalars, Position, Room, world, icons, scan, shape
  <2>4. MenuFile' /\ MenuIconLives'
    BY <2>1 DEF IInv, MenuFile, MenuIconLives, world, icons, shape
  <2>5. Followed'
    BY <1>6 DEF IInv, Followed, DelayOver, monitor_dir, dir_changed, world, watch, icons
  <2>6. FlashStep
    BY <1>1, <2>1, FlashesStay DEF icons
  <2> QED BY <2>1, <2>3, <2>4, <2>5, <2>6 DEF IInv, icons
<1>7. ASSUME NEW f \in File, DirectoryChanges(f)
      PROVE  IInv' /\ FlashStep
  <2>1. /\ UNCHANGED <<alive, visible, elsewhere, flashes, armed, icons, is_vert,
                       dir_change_time, scan>>
        /\ noticed' = (noticed \/ armed) /\ missed' = (missed \/ ~armed)
        /\ menu' = [menu EXCEPT !.removed = @ \/ f = menu.launches]
        /\ dir' = IF f \in dir THEN dir \ {f} ELSE dir \cup {f}
        /\ moves' \in 0..MaxMoves
    BY <1>7, DockAssumption DEF DirectoryChanges, Moves, IInv, Scalars
  <2>2. menu \in [shown : BOOLEAN, launches : File \cup {NoFile}, removed : BOOLEAN]
    BY DEF IInv, Scalars
  <2>3. /\ menu' \in [shown : BOOLEAN, launches : File \cup {NoFile}, removed : BOOLEAN]
        /\ menu'.launches = menu.launches
        /\ ~menu'.removed => ~menu.removed /\ f # menu.launches
    BY <2>1, <2>2
  <2>4. Scalars'
    <3>1. noticed' \in BOOLEAN /\ missed' \in BOOLEAN
      BY <2>1
    <3> QED BY <2>1, <2>3, <3>1 DEF IInv, Scalars, icons, scan
  <2>5. Position' /\ Room'
    BY <2>1 DEF IInv, Position, Room, icons, scan
  <2>6. MenuFile' /\ MenuIconLives'
    BY <2>1, <2>3 DEF IInv, MenuFile, MenuIconLives, icons
  <2>7. Followed'
    BY <2>1 DEF IInv, Scalars, Followed
  <2>8. FlashStep
    BY <1>1, <2>1, FlashesStay DEF icons
  <2> QED BY <2>1, <2>4, <2>5, <2>6, <2>7, <2>8 DEF IInv, icons
<1> QED BY <1>2, <1>3, <1>4, <1>5, <1>6, <1>7

-----------------------------------------------------------------------------
(* The theorems.                                                           *)

LEMMA NextIInv ==
    ASSUME IInv, [Next]_vars
    PROVE  IInv' /\ (FlashStep \/ UNCHANGED vars)
<1>1. CASE UNCHANGED vars
  BY <1>1 DEF vars, world, watch, icons, shape, scan, IInv, Scalars, Position, Room,
              MenuFile, MenuIconLives, Followed
<1>2. CASE Steps \/ Deliver
  BY <1>2, ScanStep, DropStep, ScanEnds, Marks DEF Steps, Deliver
<1>3. CASE (\E interval_over \in BOOLEAN : Timer(interval_over)) \/ ClickBeside
  BY <1>3, ReadDirectory
<1>4. CASE \E i \in DOMAIN items : ClickIcon(i) \/ ContextMenu(i)
  BY <1>4, Marks, MenuSteps
<1>5. CASE MenuEnds \/ \E w \in Win : Redraw(w)
  BY <1>5, Marks, MenuSteps
<1>6. CASE \/ WindowCreated \/ DelayOver \/ monitor_dir \/ dir_changed
           \/ handle_slit_layout_change \/ DesktopSwitched
           \/ \E w \in Win : WindowChanges(w) \/ WindowDies(w) \/ WindowFlashes(w) \/ WindowMoves(w)
           \/ \E f \in File : DirectoryChanges(f)
  BY <1>6, WorldSteps
<1> QED BY <1>1, <1>2, <1>3, <1>4, <1>5, <1>6 DEF Next

(* The invariant is inductive: whatever the windows, the directory and the *)
(* user do between the call-backs of the dock's scans.                     *)
THEOREM Invariance == Spec => []IInv
<1>1. IInv /\ [Next]_vars => IInv'
  BY NextIInv
<1> QED BY InitIInv, <1>1, PTL DEF Spec

(* The list of icons is sound at every step of a scan: its types, no       *)
(* window at two icons, no task icon without a window, the dock window as  *)
(* long as the icons between messages, and the icon of an open menu.       *)
THEOREM IconsAlwaysSound == Spec => []IconsAreSound
<1>1. ASSUME IInv PROVE IconsAreSound
  <2>1. /\ Sound(items) /\ items \in Seq(ICON) /\ Len(items) \in Nat
        /\ DOMAIN items = 1..Len(items) /\ \A i \in 1..Len(items) : items[i] \in ICON
        /\ \A i \in 1..Len(items) : /\ Apps(items[i]) \subseteq Win
                                    /\ items[i].apps \in [Apps(items[i]) -> BOOLEAN]
    BY <1>1, IconType DEF IInv, Sound
  <2>2. ASSUME NEW i \in DOMAIN items
        PROVE  /\ items[i].file \in File \cup {NoFile}
               /\ items[i].module \in Module \cup {Unreadable}
               /\ Apps(items[i]) \subseteq Win
               /\ \A w \in Apps(items[i]) : items[i].apps[w] \in BOOLEAN
               /\ items[i].held \in BOOLEAN
    BY <2>1 DEF ICON
  <2>3. TypeOK
    BY <1>1, <2>2 DEF IInv, Scalars, Position, TypeOK
  <2>4. OneIconPerWindow
    BY <2>1, OnePlace DEF OneIconPerWindow
  <2>5. NoHollowTask
    BY <2>1 DEF NoHollowTask, Sound, Solid
  <2>6. DockFits /\ MenuIconLives
    BY <1>1 DEF IInv, Room, DockFits
  <2> QED BY <2>3, <2>4, <2>5, <2>6 DEF IconsAreSound
<1> QED BY Invariance, <1>1, PTL

(* When no change of the directory is under way and none was missed before *)
(* the first monitor_dir, the resident icons are its shortcuts, each once. *)
THEOREM DirectoryAlwaysShown == Spec => []DirectoryShown
<1>1. ASSUME IInv PROVE DirectoryShown
  <2>1. items \in Seq(ICON) /\ Single(items)
    BY <1>1 DEF IInv, Sound
  <2>2. DOMAIN items = 1..Len(items)
    BY <2>1, IconType
  <2> QED BY <1>1, <2>1, <2>2 DEF IInv, Followed, Single, DirectoryShown
<1> QED BY Invariance, <1>1, PTL

(* A window that flashes is not taken from the dock before it is gone or   *)
(* hidden, on whatever desktop it is.                                      *)
THEOREM FlashAlwaysKept == Spec => FlashKept
<1>1. IInv /\ [Next]_vars => [\A w \in Flashing : w \in Listed' \/ w \notin alive \cap visible]_vars
  BY NextIInv DEF FlashStep
<1> QED BY Invariance, <1>1, PTL DEF Spec, FlashKept

-----------------------------------------------------------------------------
(***************************************************************************)
(* Slits.  The invariant says of each slit how its window stands to its    *)
(* settings: shown, it is at its edge; hidden, its timer runs, and at the  *)
(* far edges part of it is on the screen if it is saved, whatever its size *)
(* is now.  Hiding moves a window and computes no work area: the work area *)
(* stays right because a slit with a timer asks for its strip and not for  *)
(* its size, and one without a timer is not hidden.                        *)
(* Every measuring of a slit leaves it Settled; its neighbours, which it   *)
(* does not measure, keep what they had.                                   *)
(***************************************************************************)

(* Finite sets of numbers.                                                 *)
LEMMA LeastPixel ==
    ASSUME NEW I \in SUBSET Nat, NEW n \in I
    PROVE  \E i \in I : \A j \in I : ~(j < i)
<1>1. IsWellFoundedOn(OpToRel(<, Nat), Nat)
  BY NatLessThanWellFounded
<1>2. PICK i \in I : \A j \in I : ~(<<j, i>> \in OpToRel(<, Nat))
  BY <1>1, WFMin
<1> QED BY <1>2 DEF OpToRel

HasMax(S) == \E m \in S : \A x \in S : m >= x

LEMMA FiniteHasMax ==
    ASSUME NEW S \in SUBSET Nat, IsFiniteSet(S), S # {}
    PROVE  HasMax(S)
<1> DEFINE Bad(T) == T \in SUBSET Nat /\ IsFiniteSet(T) /\ T # {} /\ ~HasMax(T)
           I == {n \in Nat : \E T : Bad(T) /\ Cardinality(T) = n}
<1>1. SUFFICES ASSUME ~HasMax(S) PROVE FALSE
  OBVIOUS
<1>2. Cardinality(S) \in I
  BY <1>1, FS_CardinalityType
<1>3. PICK n \in I : \A j \in I : ~(j < n)
  <2> HIDE DEF I
  <2>1. I \in SUBSET Nat
    BY DEF I
  <2> QED BY <1>2, <2>1, LeastPixel
<1>4. PICK T : Bad(T) /\ Cardinality(T) = n
  OBVIOUS
<1>5. PICK x \in T : TRUE
  BY <1>4
<1> DEFINE U == T \ {x}
<1>6. IsFiniteSet(U) /\ Cardinality(U) = n - 1 /\ U \in SUBSET Nat
  BY <1>4, <1>5, FS_RemoveElement
<1>7. CASE U = {}
  <2>1. \A y \in T : x >= y
    BY <1>4, <1>5, <1>7
  <2> QED BY <1>4, <1>5, <2>1 DEF HasMax
<1>8. CASE U # {}
  <2>1. n - 1 \in Nat
    BY <1>6, FS_CardinalityType
  <2>2. HasMax(U)
    <3>1. SUFFICES ASSUME ~HasMax(U) PROVE FALSE
      OBVIOUS
    <3>2. n - 1 \in I
      BY <1>6, <1>8, <2>1, <3>1
    <3> QED BY <1>3, <2>1, <3>2
  <2>3. PICK m \in U : \A y \in U : m >= y
    BY <2>2 DEF HasMax
  <2> DEFINE top == IF m >= x THEN m ELSE x
  <2>4. top \in T /\ \A y \in T : top >= y
    BY <1>4, <1>5, <1>6, <2>3
  <2> QED BY <1>4, <2>4 DEF HasMax
<1> QED BY <1>7, <1>8

LEMMA MaxIsNat ==
    ASSUME NEW S \in SUBSET Nat, IsFiniteSet(S)
    PROVE  MaxOf(S) \in Nat
<1>1. CASE S = {}
  BY <1>1 DEF MaxOf
<1>2. CASE S # {}
  <2>1. PICK m \in S : \A x \in S : m >= x
    BY <1>2, FiniteHasMax DEF HasMax
  <2>2. Max(S) \in S
    BY <2>1 DEF Max
  <2> QED BY <1>2, <2>2 DEF MaxOf
<1> QED BY <1>1, <1>2

\* What a function makes of a finite set.
LEMMA ImageFinite ==
    ASSUME NEW S, IsFiniteSet(S), NEW f, NEW T, T = {f[x] : x \in S}
    PROVE  IsFiniteSet(T)
<1> DEFINE g == [x \in S |-> f[x]]
<1>1. g \in Surjection(S, T)
  BY DEF Surjection
<1> QED BY <1>1, FS_Surjection

-----------------------------------------------------------------------------
(* The length of children: of more children it is more, and lengths of     *)
(* different children add up.                                              *)
Sized == size \in [Kids -> Sizes]

LEMMA AlongType ==
    ASSUME Sized, NEW k \in Kids, NEW edge
    PROVE  Along(edge, size[k]) \in Nat \ {0} /\ Across(edge, size[k]) \in Nat \ {0}
<1>1. size[k] \in [w : Nat \ {0}, h : Nat \ {0}]
  BY SlitAssumption DEF Sized
<1> QED BY <1>1 DEF Along, Across

LEMMA PixelsFinite ==
    ASSUME Sized, NEW K \in SUBSET Kids, NEW edge
    PROVE  IsFiniteSet(Pixels(edge, K)) /\ Length(edge, K) \in Nat
<1> DEFINE f == [k \in K |-> {k} \X (1..Along(edge, size[k]))]
           T == {f[k] : k \in K}
<1>1. IsFiniteSet(K)
  BY SlitAssumption, FS_Subset
<1>2. IsFiniteSet(T)
  <2> HIDE DEF f
  <2> QED BY <1>1, ImageFinite
<1>3. \A t \in T : IsFiniteSet(t)
  <2> SUFFICES ASSUME NEW k \in K PROVE IsFiniteSet(f[k])
    OBVIOUS
  <2>1. IsFiniteSet({k})
    BY FS_Singleton
  <2>2. IsFiniteSet(1..Along(edge, size[k]))
    BY AlongType, FS_Interval
  <2>3. f[k] = {k} \X (1..Along(edge, size[k]))
    OBVIOUS
  <2> QED BY <2>1, <2>2, <2>3, FS_Product
<1>4. Pixels(edge, K) = UNION T
  BY DEF Pixels
<1> HIDE DEF T
<1>5. IsFiniteSet(Pixels(edge, K))
  BY <1>2, <1>3, <1>4, FS_UNION
<1> QED BY <1>5, FS_CardinalityType DEF Length

LEMMA LengthMonotone ==
    ASSUME Sized, NEW K \in SUBSET Kids, NEW J \in SUBSET K, NEW edge
    PROVE  Length(edge, J) <= Length(edge, K)
<1>1. Pixels(edge, J) \in SUBSET Pixels(edge, K)
  BY DEF Pixels
<1> QED BY <1>1, PixelsFinite, FS_Subset DEF Length

LEMMA LengthAdds ==
    ASSUME Sized, NEW K \in SUBSET Kids, NEW J \in SUBSET Kids, J \cap K = {}, NEW edge
    PROVE  Length(edge, J \cup K) = Length(edge, J) + Length(edge, K)
<1>1. Pixels(edge, J \cup K) = Pixels(edge, J) \cup Pixels(edge, K)
  BY DEF Pixels
<1>2. Pixels(edge, J) \cap Pixels(edge, K) = {}
  <2>1. \A p \in Pixels(edge, J) : p[1] \in J
    BY DEF Pixels
  <2>2. \A p \in Pixels(edge, K) : p[1] \in K
    BY DEF Pixels
  <2> QED BY <2>1, <2>2
<1>3. Cardinality({}) = 0
  BY FS_EmptySet
<1>4. Length(edge, J) \in Nat /\ Length(edge, K) \in Nat
  BY PixelsFinite
<1>5. IsFiniteSet(Pixels(edge, J)) /\ IsFiniteSet(Pixels(edge, K))
  BY PixelsFinite
<1>6. Cardinality(Pixels(edge, J) \cup Pixels(edge, K)) =
         Cardinality(Pixels(edge, J)) + Cardinality(Pixels(edge, K)) - 0
  BY <1>2, <1>3, <1>5, FS_Union
<1>7. /\ Length(edge, J \cup K) = Cardinality(Pixels(edge, J) \cup Pixels(edge, K))
      /\ Length(edge, J) = Cardinality(Pixels(edge, J))
      /\ Length(edge, K) = Cardinality(Pixels(edge, K))
  BY <1>1, Zenon DEF Length
<1> QED BY <1>4, <1>6, <1>7

LEMMA LengthOfOne ==
    ASSUME Sized, NEW k \in Kids, NEW edge
    PROVE  Length(edge, {k}) = Along(edge, size[k])
<1> DEFINE n == Along(edge, size[k])
<1>1. Pixels(edge, {k}) = {k} \X (1..n)
  BY DEF Pixels
<1>2. n \in Nat
  BY AlongType
<1> HIDE DEF n
<1>3. IsFiniteSet(1..n) /\ Cardinality(1..n) = n
  BY <1>2, FS_Interval
<1>4. IsFiniteSet({k}) /\ Cardinality({k}) = 1
  BY FS_Singleton
<1>5. Cardinality({k} \X (1..n)) = 1 * n
  <2> DEFINE I == 1..n
  <2>1. IsFiniteSet(I) /\ Cardinality(I) = n
    BY <1>3
  <2> HIDE DEF I
  <2>2. Cardinality({k} \X I) = 1 * n
    BY <1>4, <2>1, FS_Product
  <2> QED BY <2>2 DEF I
<1>6. Length(edge, {k}) = Cardinality({k} \X (1..n))
  BY <1>1, Zenon DEF Length
<1>7. Length(edge, {k}) = n
  BY <1>2, <1>5, <1>6
<1> QED BY <1>7 DEF n

LEMMA LengthAddOne ==
    ASSUME Sized, NEW K \in SUBSET Kids, NEW k \in Kids \ K, NEW edge
    PROVE  Length(edge, K \cup {k}) = Length(edge, K) + Along(edge, size[k])
<1>1. {k} \in SUBSET Kids /\ K \cap {k} = {}
  OBVIOUS
<1>2. Length(edge, K \cup {k}) = Length(edge, K) + Length(edge, {k})
  BY <1>1, LengthAdds
<1> QED BY <1>2, LengthOfOne

-----------------------------------------------------------------------------
(* The children of a slit lie within it, apart and in order.               *)
End(edge, p, k) == p[k] + Along(edge, size[k])
Apart(edge, r, K, p) ==
    \A k \in K :
       /\ p[k] \in Nat /\ End(edge, p, k) <= Along(edge, r)
       /\ \A l \in K \ {k} :
            /\ End(edge, p, k) <= p[l] \/ End(edge, p, l) <= p[k]
            /\ grav[k] = grav[l] /\ pri[k] > pri[l] => (p[k] < p[l] <=> grav[k] = "hi")

Ahead(K, o, k) == {l \in K : grav[l] = grav[k] /\ o[l] < o[k]}

LEMMA MetricLength ==
    ASSUME NEW K, NEW edge
    PROVE  Along(edge, Metric(edge, K)) = Length(edge, K)
BY DEF Metric, Along

LEMMA LaidOutApart ==
    ASSUME Sized, NEW K \in SUBSET Kids, NEW edge, NEW o \in LayoutOrders(K),
           NEW p, p = LaidOut(edge, K, o)
    PROVE  Apart(edge, Metric(edge, K), K, p) /\ \A k \in Kids \ K : p[k] = pos[k]
<1> DEFINE A(k) == Ahead(K, o, k)
           B(k) == A(k) \cup {k}
           L(S) == Length(edge, S)
           len(k) == Along(edge, size[k])
<1>1. /\ \A k \in K : o[k] \in Int
      /\ \A k, l \in K : o[k] = o[l] => k = l
      /\ \A k, l \in K : grav[k] = grav[l] /\ pri[k] > pri[l] => o[k] < o[l]
      /\ \A k \in K : grav[k] \in {"hi", "lo"}
  BY SlitAssumption DEF LayoutOrders, IsInjective
<1>2. \A S \in SUBSET K : \A T \in SUBSET S : L(T) <= L(S) /\ L(T) \in Nat /\ L(S) \in Nat
  <2> SUFFICES ASSUME NEW S \in SUBSET K, NEW T \in SUBSET S
               PROVE  L(T) <= L(S) /\ L(T) \in Nat /\ L(S) \in Nat
    OBVIOUS
  <2>1. S \in SUBSET Kids /\ T \in SUBSET Kids
    OBVIOUS
  <2> QED BY <2>1, LengthMonotone, PixelsFinite
<1>3. \A k \in K : A(k) \in SUBSET K /\ k \notin A(k) /\ B(k) \in SUBSET K
  BY <1>1 DEF Ahead
<1>4. \A k \in K : len(k) \in Nat \ {0} /\ L(B(k)) = L(A(k)) + len(k)
  <2> SUFFICES ASSUME NEW k \in K
               PROVE  len(k) \in Nat \ {0} /\ L(B(k)) = L(A(k)) + len(k)
    OBVIOUS
  <2>1. A(k) \in SUBSET Kids /\ k \in Kids \ A(k)
    BY <1>3
  <2> HIDE DEF A
  <2> QED BY <2>1, AlongType, LengthAddOne
<1>5. \A k \in K : p[k] = IF grav[k] = "hi" THEN L(A(k)) ELSE L(K) - L(B(k))
  BY DEF LaidOut, Offset, Ahead
<1>6. \A k \in Kids \ K : p[k] = pos[k]
  BY DEF LaidOut
<1> HIDE DEF A, L, len
<1>7. \A k \in K : /\ L(A(k)) \in Nat /\ L(B(k)) \in Nat /\ L(K) \in Nat
                   /\ L(A(k)) <= L(B(k)) /\ L(B(k)) <= L(K)
  BY <1>2, <1>3
<1>8. \A k \in K : p[k] \in Nat /\ p[k] + len(k) <= L(K)
  <2> SUFFICES ASSUME NEW k \in K PROVE p[k] \in Nat /\ p[k] + len(k) <= L(K)
    OBVIOUS
  <2>1. /\ L(B(k)) = L(A(k)) + len(k) /\ len(k) \in Nat /\ L(A(k)) \in Nat
        /\ L(B(k)) \in Nat /\ L(K) \in Nat /\ L(B(k)) <= L(K)
    BY <1>4, <1>7
  <2> HIDE DEF B
  <2>2. CASE grav[k] = "hi"
    <3>1. p[k] = L(A(k))
      BY <1>5, <2>2
    <3> QED BY <2>1, <3>1
  <2>3. CASE grav[k] # "hi"
    <3>1. p[k] = L(K) - L(B(k))
      BY <1>5, <2>3
    <3> QED BY <2>1, <3>1
  <2> QED BY <2>2, <2>3
<1>9. ASSUME NEW k \in K, NEW l \in K, grav[k] = grav[l], o[k] < o[l]
      PROVE  IF grav[k] = "hi" THEN p[k] + len(k) <= p[l] ELSE p[l] + len(l) <= p[k]
  <2>1. B(k) \in SUBSET A(l)
    BY <1>1, <1>9 DEF A, Ahead
  <2>2. L(B(k)) <= L(A(l))
    BY <1>2, <1>3, <2>1
  <2> HIDE DEF B
  <2>3. CASE grav[k] = "hi"
    BY <1>4, <1>5, <1>7, <1>9, <2>2, <2>3
  <2>4. CASE grav[k] # "hi"
    BY <1>4, <1>5, <1>7, <1>9, <2>2, <2>4
  <2> QED BY <2>3, <2>4
<1>10. ASSUME NEW k \in K, NEW l \in K, grav[k] = "hi", grav[l] = "lo"
       PROVE  p[k] + len(k) <= p[l]
  <2>1. B(k) \cap B(l) = {} /\ B(k) \cup B(l) \in SUBSET K
    BY <1>3, <1>10 DEF A, Ahead
  <2>2. B(k) \in SUBSET Kids /\ B(l) \in SUBSET Kids
    BY <1>3
  <2> HIDE DEF B
  <2>3. L(B(k) \cup B(l)) = L(B(k)) + L(B(l))
    BY <2>1, <2>2, LengthAdds DEF L
  <2>4. L(B(k)) + L(B(l)) <= L(K)
    BY <1>2, <2>1, <2>3
  <2> QED BY <1>4, <1>5, <1>7, <1>10, <2>4
<1>11. ASSUME NEW k \in K, NEW l \in K \ {k}
       PROVE  /\ p[k] + len(k) <= p[l] \/ p[l] + len(l) <= p[k]
              /\ grav[k] = grav[l] /\ pri[k] > pri[l] => (p[k] < p[l] <=> grav[k] = "hi")
  <2>1. CASE grav[k] = grav[l]
    <3>1. o[k] < o[l] \/ o[l] < o[k]
      BY <1>1
    <3>2. p[k] + len(k) <= p[l] \/ p[l] + len(l) <= p[k]
      BY <1>9, <2>1, <3>1
    <3>3. ASSUME pri[k] > pri[l] PROVE p[k] < p[l] <=> grav[k] = "hi"
      <4>1. IF grav[k] = "hi" THEN p[k] + len(k) <= p[l] ELSE p[l] + len(l) <= p[k]
        BY <1>1, <1>9, <2>1, <3>3
      <4>2. len(k) \in Nat \ {0} /\ len(l) \in Nat \ {0} /\ p[k] \in Nat /\ p[l] \in Nat
        BY <1>4, <1>8
      <4>3. CASE grav[k] = "hi"
        BY <4>1, <4>2, <4>3
      <4>4. CASE grav[k] # "hi"
        <5>1. ~(p[k] < p[l])
          BY <4>1, <4>2, <4>4
        <5> QED BY <4>4, <5>1
      <4> QED BY <4>3, <4>4
    <3> QED BY <3>2, <3>3
  <2>2. CASE grav[k] # grav[l]
    BY <1>1, <1>10, <2>2
  <2> QED BY <2>1, <2>2
<1>12. Along(edge, Metric(edge, K)) = L(K)
  BY MetricLength DEF L
<1> QED BY <1>6, <1>8, <1>11, <1>12 DEF Apart, End, len

-----------------------------------------------------------------------------
(* The inductive invariant.                                                *)
InfoType == [align : Edges, floating : BOOLEAN, auto_hide : {0, Strip},
             interval : BOOLEAN, hidden : BOOLEAN, left : BOOLEAN]
WinType == [r : [w : Nat, h : Nat], where : Edges, off : Int]

TypeInv ==
    /\ phase \in {"config", "running"}
    /\ registry \in [Slits -> SettingsType \cup {<<>>}]
    /\ info \in [Slits -> InfoType] /\ window \in [Slits -> WinType]
    /\ kids \subseteq Kids /\ Sized /\ pos \in [Kids -> Nat]
    /\ resized \subseteq Slits /\ over \subseteq Slits
    /\ workarea \in [Edges -> Nat] /\ commands \in 0..MaxCommands

\* Settings that a slit may have: it is hidden by its timer, and a named slit
\* with a timer has a strip.
Timed(s, i) == /\ i.hidden => i.interval
               /\ s \in Named /\ i.interval => i.auto_hide = Strip

\* Where a slit is: shown, at its edge; hidden, not beyond it.
AtEdge(i, win) == /\ win.where = i.align
                  /\ win.off = IF i.align \in Near THEN 0 ELSE Across(i.align, win.r)
Stands(s, i, win) ==
    /\ Timed(s, i)
    /\ ~i.hidden => AtEdge(i, win)
    /\ i.hidden /\ s \in Named /\ win.where \notin Near => win.off > 0

AllStand == \A s \in Slits : Stands(s, info[s], window[s])

\* The work area may be that of an earlier shell until every slit has a child.
Reserved == phase = "running" \/ (\A s \in Slits : KidsOf(s) # {})
               => workarea = WorkArea(info, window)
Laid == \A s \in Slits \ resized : Apart(info[s].align, window[s].r, KidsOf(s), pos)

Early == phase = "config" => \A s \in Slits : ~info[s].hidden

SlitInv == TypeInv /\ AllStand /\ Reserved /\ Laid /\ Early

-----------------------------------------------------------------------------
(* Settings, sizes and the work area.                                      *)
LEMMA InfoFields ==
    ASSUME NEW i \in InfoType
    PROVE  /\ i.align \in Edges /\ i.auto_hide \in {0, Strip} /\ i.auto_hide \in Nat
           /\ i.floating \in BOOLEAN /\ i.interval \in BOOLEAN
           /\ i.hidden \in BOOLEAN /\ i.left \in BOOLEAN
<1>1. i.align \in Edges /\ i.auto_hide \in {0, Strip}
  BY DEF InfoType
<1>2. /\ i.floating \in BOOLEAN /\ i.interval \in BOOLEAN
      /\ i.hidden \in BOOLEAN /\ i.left \in BOOLEAN
  BY Zenon DEF InfoType
<1> QED BY <1>1, <1>2, SlitAssumption

LEMMA AutoHidingTimed ==
    ASSUME NEW i \in InfoType, NEW s, i.hidden => i.interval, NEW j, j = AutoHiding(i)
    PROVE  /\ j \in InfoType /\ Timed(s, j) /\ (j.hidden => i.hidden) /\ j.align = i.align
<1>1. CASE i.interval
  <2> DEFINE a == IF i.auto_hide = 0 THEN Strip ELSE i.auto_hide
  <2>1. a = Strip
    BY <1>1, InfoFields
  <2>2. j = [i EXCEPT !.auto_hide = Strip, !.floating = FALSE, !.left = TRUE, !.hidden = FALSE]
    <3>1. j = [i EXCEPT !.auto_hide = IF i.auto_hide = 0 THEN Strip ELSE i.auto_hide,
                        !.floating = FALSE, !.left = TRUE, !.hidden = FALSE]
      BY <1>1, Zenon DEF AutoHiding, InfoType
    <3> HIDE DEF a
    <3> QED BY <2>1, <3>1 DEF a
  <2> HIDE DEF a
  <2>3. j = [align |-> i.align, floating |-> FALSE, auto_hide |-> Strip,
             interval |-> i.interval, hidden |-> FALSE, left |-> TRUE]
    BY <2>2, Zenon DEF InfoType
  <2>4. j \in InfoType
    BY <2>3, InfoFields, Zenon DEF InfoType
  <2>5. ~j.hidden /\ j.auto_hide = Strip /\ j.align = i.align
    BY <2>3
  <2> QED BY <2>4, <2>5, Zenon DEF Timed
<1>2. CASE ~i.interval
  <2>1. j = i
    BY <1>2 DEF AutoHiding
  <2> QED BY <1>2, <2>1 DEF Timed
<1> QED BY <1>1, <1>2

LEMMA MetricType ==
    ASSUME Sized, NEW K \in SUBSET Kids, NEW edge
    PROVE  Metric(edge, K) \in [w : Nat, h : Nat]
<1> DEFINE T == {Across(edge, size[k]) : k \in K}
           f == [k \in K |-> Across(edge, size[k])]
<1>1. IsFiniteSet(K)
  BY SlitAssumption, FS_Subset
<1>2. T = {f[k] : k \in K}
  OBVIOUS
<1>3. T \in SUBSET Nat
  BY AlongType
<1> HIDE DEF f, T
<1>4. MaxOf(T) \in Nat
  BY <1>1, <1>2, <1>3, ImageFinite, MaxIsNat
<1>5. Length(edge, K) \in Nat
  BY PixelsFinite
<1> QED BY <1>4, <1>5 DEF Metric, T

LEMMA AcrossType ==
    ASSUME NEW r \in [w : Nat, h : Nat], NEW edge
    PROVE  Across(edge, r) \in Nat /\ Along(edge, r) \in Nat
BY DEF Across, Along

LEMMA WorkAreaType ==
    ASSUME NEW infos \in [Slits -> InfoType], NEW windows \in [Slits -> WinType]
    PROVE  WorkArea(infos, windows) \in [Edges -> Nat]
<1> DEFINE S(e) == {t \in Slits : infos[t].align = e}
           T(e) == {Reserve(infos[s], windows[s]) : s \in S(e)}
           f(e) == [s \in S(e) |-> Reserve(infos[s], windows[s])]
<1>1. \A s \in Slits : Reserve(infos[s], windows[s]) \in Nat
  <2> SUFFICES ASSUME NEW s \in Slits PROVE Reserve(infos[s], windows[s]) \in Nat
    OBVIOUS
  <2>1. infos[s] \in InfoType /\ windows[s].r \in [w : Nat, h : Nat]
    BY DEF WinType
  <2> QED BY <2>1, InfoFields, AcrossType DEF Reserve
<1>2. ASSUME NEW e \in Edges PROVE MaxOf(T(e)) \in Nat
  <2>1. IsFiniteSet(S(e))
    BY SlitAssumption, FS_Subset
  <2>2. T(e) \in SUBSET Nat /\ T(e) = {f(e)[s] : s \in S(e)}
    BY <1>1
  <2> HIDE DEF S, T, f
  <2> QED BY <2>1, <2>2, ImageFinite, MaxIsNat
<1>3. WorkArea(infos, windows) = [e \in Edges |-> MaxOf(T(e))]
  BY DEF WorkArea
<1> HIDE DEF T
<1> QED BY <1>2, <1>3

LEMMA SameWorkArea ==
    ASSUME NEW infos, NEW windows, NEW infos2, NEW windows2,
           \A s \in Slits : /\ infos2[s].align = infos[s].align
                            /\ Reserve(infos2[s], windows2[s]) = Reserve(infos[s], windows[s])
    PROVE  WorkArea(infos2, windows2) = WorkArea(infos, windows)
<1>1. \A e \in Edges :
        {Reserve(infos2[s], windows2[s]) : s \in {t \in Slits : infos2[t].align = e}}
        = {Reserve(infos[s], windows[s]) : s \in {t \in Slits : infos[t].align = e}}
  OBVIOUS
<1> QED BY <1>1 DEF WorkArea

-----------------------------------------------------------------------------
(* recalc_slit_size.                                                       *)
LEMMA PlacedStands ==
    ASSUME NEW s, NEW i \in InfoType, Timed(s, i), NEW old \in WinType,
           i.hidden /\ s \in Named /\ old.where \notin Near => old.off > 0,
           NEW m \in [w : Nat, h : Nat], NEW win, win = Placed(i, old, m)
    PROVE  win \in WinType /\ win.r = m /\ Stands(s, i, win)
<1>1. i.align \in Edges /\ old.where \in Edges /\ old.off \in Int
  BY InfoFields DEF WinType
<1>2. CASE i.hidden
  <2>1. win = [r |-> m, where |-> old.where, off |-> old.off]
    BY <1>2 DEF Placed, Timed
  <2> QED BY <1>1, <1>2, <2>1 DEF WinType, Stands
<1>3. CASE ~i.hidden
  <2> DEFINE off == IF i.align \in Near THEN 0 ELSE Across(i.align, m)
  <2>1. win = [r |-> m, where |-> i.align, off |-> off]
    BY <1>3 DEF Placed
  <2>2. off \in Int
    BY AcrossType
  <2>3. win \in WinType /\ win.r = m /\ win.where = i.align /\ win.off = off
    <3> HIDE DEF off
    <3> QED BY <1>1, <2>1, <2>2 DEF WinType
  <2>4. AtEdge(i, win)
    BY <2>3 DEF AtEdge
  <2> QED BY <1>3, <2>3, <2>4 DEF Stands
<1> QED BY <1>2, <1>3

\* What is so after slit s has been measured with children K.
Settled(s, K) ==
    /\ info' \in [Slits -> InfoType] /\ window' \in [Slits -> WinType]
    /\ pos' \in [Kids -> Nat] /\ workarea' \in [Edges -> Nat]
    /\ \A t \in Slits : Stands(t, info'[t], window'[t])
    /\ workarea' = WorkArea(info', window')
    /\ Apart(info'[s].align, window'[s].r, K, pos')
    /\ \A t \in Slits \ {s} : info'[t] = info[t] /\ window'[t] = window[t]
    /\ \A k \in Kids \ K : pos'[k] = pos[k]

LEMMA RecalcSettles ==
    ASSUME TypeInv, AllStand, NEW s \in Slits, NEW i \in InfoType, Timed(s, i),
           i.hidden => info[s].hidden, NEW K \in SUBSET Kids,
           NEW infos, infos = [info EXCEPT ![s] = i], recalc_slit_size(s, infos, K)
    PROVE  Settled(s, K) /\ info'[s] = i
<1> DEFINE m == Metric(i.align, K)
<1>1. info \in [Slits -> InfoType] /\ window \in [Slits -> WinType] /\ pos \in [Kids -> Nat] /\ Sized
  BY DEF TypeInv
<1>2. infos \in [Slits -> InfoType] /\ infos[s] = i /\ \A t \in Slits \ {s} : infos[t] = info[t]
  BY <1>1
<1>3. PICK o \in LayoutOrders(K) :
         /\ info' = infos
         /\ window' = [window EXCEPT ![s] = Placed(infos[s], @, Metric(infos[s].align, K))]
         /\ pos' = LaidOut(infos[s].align, K, o)
         /\ workarea' = WorkArea(infos, window')
  BY DEF recalc_slit_size
<1>4. m \in [w : Nat, h : Nat]
  BY <1>1, MetricType
<1> DEFINE win == Placed(i, window[s], m)
<1>5. win \in WinType /\ win.r = m /\ Stands(s, i, win)
  <2>1. i.hidden /\ s \in Named /\ window[s].where \notin Near => window[s].off > 0
    BY DEF AllStand, Stands
  <2>2. window[s] \in WinType
    BY <1>1
  <2> HIDE DEF m
  <2> QED BY <1>4, <2>1, <2>2, PlacedStands
<1>6. window' = [window EXCEPT ![s] = win]
  BY <1>2, <1>3
<1> HIDE DEF win
<1>7. /\ window' \in [Slits -> WinType] /\ window'[s] = win
      /\ \A t \in Slits \ {s} : window'[t] = window[t]
  BY <1>1, <1>5, <1>6
<1>8. Apart(i.align, m, K, pos') /\ \A k \in Kids \ K : pos'[k] = pos[k]
  BY <1>1, <1>2, <1>3, LaidOutApart
<1>9. pos' \in [Kids -> Nat]
  <2>1. pos' = [k \in Kids |-> pos'[k]]
    BY <1>3 DEF LaidOut
  <2>2. \A k \in Kids : pos'[k] \in Nat
    BY <1>1, <1>8 DEF Apart
  <2> QED BY <2>1, <2>2
<1>10. workarea' \in [Edges -> Nat]
  BY <1>2, <1>3, <1>7, WorkAreaType
<1>11. \A t \in Slits : Stands(t, info'[t], window'[t])
  BY <1>2, <1>3, <1>5, <1>7 DEF AllStand
<1> HIDE DEF m
<1> QED BY <1>2, <1>3, <1>5, <1>7, <1>8, <1>9, <1>10, <1>11 DEF Settled

\* A recalc keeps the invariant of the whole, whatever else happens to the
\* children of the slit, if those not measured have sent a message.
SettledIn(s) ==
    \E K \in SUBSET Kids :
       /\ \A k \in K : home[k] = s
       /\ Settled(s, K)
       /\ s \in resized' \/ {k \in kids' : home[k] = s} \subseteq K

LEMMA SettledKeeps ==
    ASSUME SlitInv, NEW s \in Slits, SettledIn(s), UNCHANGED size,
           phase' \in {"config", "running"},
           registry' \in [Slits -> SettingsType \cup {<<>>}],
           kids' \subseteq Kids, resized' \subseteq Slits, over' \subseteq Slits,
           commands' \in 0..MaxCommands,
           resized \ {s} \subseteq resized',
           phase' = "config" => phase = "config" /\ ~info'[s].hidden,
           \A k \in kids' : home[k] # s => k \in kids
    PROVE  SlitInv'
<1>1. PICK K \in SUBSET Kids :
       /\ \A k \in K : home[k] = s
       /\ Settled(s, K)
       /\ s \in resized' \/ {k \in kids' : home[k] = s} \subseteq K
  BY DEF SettledIn
<1>2. TypeInv'
  BY <1>1 DEF SlitInv, TypeInv, Settled, Sized
<1>3. AllStand' /\ Reserved'
  BY <1>1 DEF Settled, AllStand, Reserved
<1>4. ASSUME NEW t \in Slits, t \notin resized'
      PROVE  Apart(info'[t].align, window'[t].r, KidsOf(t)', pos')
  <2>1. CASE t = s
    <3>1. KidsOf(s)' \subseteq K
      BY <1>1, <1>4, <2>1 DEF KidsOf
    <3>2. Apart(info'[s].align, window'[s].r, K, pos')
      BY <1>1 DEF Settled
    <3> QED BY <2>1, <3>1, <3>2 DEF Apart, End
  <2>2. CASE t # s
    <3>1. KidsOf(t)' \subseteq KidsOf(t) /\ KidsOf(t) \subseteq Kids \ K
      BY <1>1, <2>2 DEF KidsOf, SlitInv, TypeInv
    <3>2. info'[t] = info[t] /\ window'[t] = window[t] /\ \A k \in KidsOf(t) : pos'[k] = pos[k]
      BY <1>1, <2>2, <3>1 DEF Settled
    <3>3. Apart(info[t].align, window[t].r, KidsOf(t), pos)
      BY <1>4, <2>2 DEF SlitInv, Laid
    <3> QED BY <3>1, <3>2, <3>3 DEF Apart, End
  <2> QED BY <2>1, <2>2
<1>5. Laid'
  <2>1. \A t \in Slits \ resized' :
           Apart(info[t].align, window[t].r, KidsOf(t), pos)'
           <=> Apart(info'[t].align, window'[t].r, KidsOf(t)', pos')
    BY DEF Apart, End
  <2> QED BY <1>4, <2>1 DEF Laid
<1>6. Early'
  BY <1>1 DEF SlitInv, Early, Settled
<1> QED BY <1>2, <1>3, <1>5, <1>6 DEF SlitInv

-----------------------------------------------------------------------------
(* Steps that measure nothing.                                             *)
\* Only the settings of s, or where its window is, are different.
OnlySlit(s, i, win) ==
    /\ info' = [info EXCEPT ![s] = i] /\ window' = [window EXCEPT ![s] = win]
    /\ i \in InfoType /\ win \in WinType /\ Stands(s, i, win)
    /\ i.align = info[s].align /\ win.r = window[s].r
    /\ \/ Reserve(i, win) = Reserve(info[s], window[s])
       \/ phase = "config" /\ KidsOf(s) = {}
    /\ phase = "config" => ~i.hidden
    /\ UNCHANGED <<phase, registry, pos, workarea, kids, size, resized>>
    /\ over' \subseteq Slits /\ commands' \in 0..MaxCommands

LEMMA OnlySlitKeeps ==
    ASSUME SlitInv, NEW s \in Slits, NEW i, NEW win, OnlySlit(s, i, win)
    PROVE  SlitInv'
<1>1. /\ info \in [Slits -> InfoType] /\ window \in [Slits -> WinType]
  BY DEF SlitInv, TypeInv
<1>2. /\ info' \in [Slits -> InfoType] /\ window' \in [Slits -> WinType]
      /\ info'[s] = i /\ window'[s] = win
      /\ \A t \in Slits \ {s} : info'[t] = info[t] /\ window'[t] = window[t]
  BY <1>1 DEF OnlySlit
<1>3. TypeInv'
  BY <1>2 DEF OnlySlit, SlitInv, TypeInv, Sized
<1>4. AllStand'
  BY <1>2 DEF OnlySlit, SlitInv, AllStand
<1>5. Reserved'
  <2>1. SUFFICES ASSUME phase' = "running" \/ (\A t \in Slits : KidsOf(t)' # {})
                 PROVE  workarea' = WorkArea(info', window')
    BY DEF Reserved
  <2>2. \A t \in Slits : KidsOf(t)' = KidsOf(t)
    BY DEF OnlySlit, KidsOf
  <2>3. workarea = WorkArea(info, window)
    BY <2>1, <2>2 DEF OnlySlit, SlitInv, Reserved
  <2>4. Reserve(i, win) = Reserve(info[s], window[s])
    BY <2>1, <2>2 DEF OnlySlit
  <2>5. \A t \in Slits : /\ info'[t].align = info[t].align
                         /\ Reserve(info'[t], window'[t]) = Reserve(info[t], window[t])
    BY <1>2, <2>4 DEF OnlySlit
  <2>6. WorkArea(info', window') = WorkArea(info, window)
    BY <2>5, SameWorkArea
  <2> QED BY <2>3, <2>6 DEF OnlySlit
<1>6. Laid'
  <2>1. \A t \in Slits : info'[t].align = info[t].align /\ window'[t].r = window[t].r
    BY <1>2 DEF OnlySlit
  <2> QED BY <2>1 DEF OnlySlit, SlitInv, Laid, KidsOf, Apart, End
<1>7. Early'
  BY <1>2 DEF OnlySlit, SlitInv, Early
<1> QED BY <1>3, <1>4, <1>5, <1>6, <1>7 DEF SlitInv

LEMMA TimerTickKeeps ==
    ASSUME SlitInv, NEW s \in Slits, TimerTick(s)
    PROVE  SlitInv'
<1> DEFINE i == [info[s] EXCEPT !.hidden = TRUE]
           depth == Across(info[s].align, window[s].r)
           off == IF info[s].align \in Near THEN (window[s].off + info[s].auto_hide) - depth
                  ELSE window[s].off - (depth - info[s].auto_hide)
           win == [window[s] EXCEPT !.off = off]
<1>1. /\ info \in [Slits -> InfoType] /\ window \in [Slits -> WinType]
      /\ info[s] \in InfoType /\ window[s] \in WinType
  BY DEF SlitInv, TypeInv
<1>2. /\ info[s].interval /\ ~info[s].hidden /\ phase = "running"
      /\ UNCHANGED <<phase, registry, pos, workarea, kids, size, resized, over, commands>>
  BY DEF TimerTick, do_hide_slit, children
<1>3. info' = [info EXCEPT ![s] = i] /\ window' = [window EXCEPT ![s] = win]
  BY <1>1 DEF TimerTick, do_hide_slit
<1>4. /\ depth \in Nat /\ window[s].off \in Int /\ info[s].auto_hide \in Nat
      /\ window[s].r \in [w : Nat, h : Nat]
  BY <1>1, InfoFields, AcrossType DEF WinType
<1>5. /\ i.hidden /\ i.interval /\ i.align = info[s].align
      /\ i.auto_hide = info[s].auto_hide /\ i.floating = info[s].floating
  BY <1>1, <1>2 DEF InfoType
<1>6. i \in InfoType
  BY <1>1, Zenon DEF InfoType
<1>7. off \in Int
  BY <1>4
<1>8. s \in Named /\ window[s].where \notin Near => off > 0
  <2>1. Stands(s, info[s], window[s])
    BY DEF SlitInv, AllStand
  <2>2. AtEdge(info[s], window[s]) /\ (s \in Named => info[s].auto_hide = Strip)
    BY <1>2, <2>1 DEF Stands, Timed
  <2>3. ASSUME s \in Named, window[s].where \notin Near PROVE off > 0
    <3>1. /\ info[s].align \notin Near /\ window[s].off = depth
          /\ info[s].auto_hide = Strip
      BY <2>2, <2>3 DEF AtEdge
    <3>2. off = depth - (depth - Strip)
      BY <3>1
    <3> QED BY <1>4, <3>2, SlitAssumption
  <2> QED BY <2>3
<1> HIDE DEF off
<1>9. win \in WinType /\ win.r = window[s].r /\ win.where = window[s].where /\ win.off = off
  BY <1>1, <1>7 DEF WinType
<1> HIDE DEF i, win
<1>10. Stands(s, i, win)
  <2>1. Stands(s, info[s], window[s])
    BY DEF SlitInv, AllStand
  <2> QED BY <1>2, <1>5, <1>8, <1>9, <2>1 DEF Stands, Timed
<1>11. Reserve(i, win) = Reserve(info[s], window[s])
  BY <1>2, <1>5, <1>9 DEF Reserve
<1>12. over' \subseteq Slits /\ commands' \in 0..MaxCommands
  BY <1>2 DEF SlitInv, TypeInv
<1>13. OnlySlit(s, i, win)
  BY <1>2, <1>3, <1>5, <1>6, <1>9, <1>10, <1>11, <1>12 DEF OnlySlit
<1> QED BY <1>13, OnlySlitKeeps

\* Settings that differ in what nobody else looks at.
LEMMA LeftKeeps ==
    ASSUME SlitInv, NEW s \in Slits, NEW b \in BOOLEAN,
           info' = [info EXCEPT ![s] = [info[s] EXCEPT !.left = b]],
           UNCHANGED <<geometry, phase, registry, kids, size, resized, commands>>,
           over' \subseteq Slits
    PROVE  SlitInv'
<1> DEFINE i == [info[s] EXCEPT !.left = b]
<1>1. /\ info \in [Slits -> InfoType] /\ window \in [Slits -> WinType]
      /\ info[s] \in InfoType /\ window[s] \in WinType
  BY DEF SlitInv, TypeInv
<1>2. i \in InfoType
  BY <1>1, Zenon DEF InfoType
<1>3. /\ i.interval = info[s].interval /\ i.hidden = info[s].hidden
  BY <1>1, Zenon DEF InfoType
<1>4. /\ i.align = info[s].align
      /\ i.auto_hide = info[s].auto_hide /\ i.floating = info[s].floating
  BY <1>1 DEF InfoType
<1>5. info' = [info EXCEPT ![s] = i] /\ window' = [window EXCEPT ![s] = window[s]]
  BY <1>1 DEF geometry
<1> HIDE DEF i
<1>6. Stands(s, i, window[s])
  BY <1>3, <1>4 DEF SlitInv, AllStand, Stands, Timed, AtEdge
<1>7. Reserve(i, window[s]) = Reserve(info[s], window[s])
  BY <1>3, <1>4 DEF Reserve
<1>8. phase = "config" => ~i.hidden
  BY <1>3 DEF SlitInv, Early
<1>9. over' \subseteq Slits /\ commands' \in 0..MaxCommands
  BY DEF SlitInv, TypeInv
<1>10. OnlySlit(s, i, window[s])
  BY <1>1, <1>2, <1>4, <1>5, <1>6, <1>7, <1>8, <1>9 DEF OnlySlit, geometry
<1> QED BY <1>10, OnlySlitKeeps

-----------------------------------------------------------------------------
(* Every action keeps the invariant.                                       *)
\* A recalc of s with all its children, under settings i.
LEMMA RecalcKeeps ==
    ASSUME SlitInv, NEW s \in Slits, NEW i \in InfoType, Timed(s, i),
           i.hidden => info[s].hidden,
           NEW infos, infos = [info EXCEPT ![s] = i],
           recalc_slit_size(s, infos, KidsOf(s)),
           UNCHANGED <<size, kids, phase>>,
           registry' \in [Slits -> SettingsType \cup {<<>>}],
           resized \ {s} \subseteq resized', resized' \subseteq Slits,
           over' \subseteq Slits, commands' \in 0..MaxCommands
    PROVE  SlitInv' /\ info' = infos
<1>1. TypeInv /\ AllStand
  BY DEF SlitInv
<1>2. KidsOf(s) \in SUBSET Kids /\ \A k \in KidsOf(s) : home[k] = s
  BY <1>1 DEF KidsOf, TypeInv
<1>3. Settled(s, KidsOf(s)) /\ info'[s] = i
  BY <1>1, <1>2, RecalcSettles
<1>4. {k \in kids' : home[k] = s} \subseteq KidsOf(s)
  BY DEF KidsOf
<1>5. SettledIn(s)
  BY <1>2, <1>3, <1>4 DEF SettledIn
<1>6. phase' \in {"config", "running"} /\ kids' \subseteq Kids
  BY <1>1 DEF TypeInv
<1>7. phase' = "config" => phase = "config" /\ ~info'[s].hidden
  BY <1>3 DEF SlitInv, Early
<1>8. SlitInv'
  BY <1>5, <1>6, <1>7, SettledKeeps
<1>9. info' = infos
  BY DEF recalc_slit_size
<1> QED BY <1>8, <1>9

LEMMA SettingsAre ==
    ASSUME NEW i \in InfoType
    PROVE  Settings(i) \in SettingsType
<1>1. /\ i.align \in Edges /\ i.auto_hide \in {0, Strip}
      /\ i.floating \in BOOLEAN /\ i.interval \in BOOLEAN
  BY InfoFields
<1> QED BY <1>1, Zenon DEF Settings, SettingsType

LEMMA SaveStateKeeps ==
    ASSUME SlitInv, NEW s \in Slits, NEW i \in InfoType,
           i.hidden => i.interval /\ info[s].hidden, SaveState(s, i),
           UNCHANGED <<phase, children, over>>, commands' \in 0..MaxCommands
    PROVE  SlitInv'
<1>1. registry \in [Slits -> SettingsType \cup {<<>>}]
  BY DEF SlitInv, TypeInv
<1>2. /\ UNCHANGED <<size, kids, phase>> /\ resized' = resized /\ over' = over
      /\ resized \subseteq Slits /\ over \subseteq Slits
  BY DEF children, SlitInv, TypeInv
<1>3. CASE s \in Named
  <2> DEFINE j == AutoHiding(i)
  <2>1. registry' = [registry EXCEPT ![s] = Settings(i)]
        /\ recalc_slit_size(s, [info EXCEPT ![s] = j], KidsOf(s))
    BY <1>3 DEF SaveState
  <2>2. registry' \in [Slits -> SettingsType \cup {<<>>}]
    BY <1>1, <2>1, SettingsAre
  <2>3. j \in InfoType /\ Timed(s, j) /\ (j.hidden => info[s].hidden)
    BY AutoHidingTimed
  <2> HIDE DEF j
  <2> QED BY <1>2, <2>1, <2>2, <2>3, RecalcKeeps
<1>4. CASE s \notin Named
  <2>1. registry' = registry
        /\ recalc_slit_size(s, [info EXCEPT ![s] = i], KidsOf(s))
    BY <1>4 DEF SaveState
  <2>2. Timed(s, i)
    BY <1>4 DEF Timed
  <2> QED BY <1>1, <1>2, <2>1, <2>2, RecalcKeeps
<1> QED BY <1>3, <1>4

LEMMA CommandCounts ==
    ASSUME SlitInv
    PROVE  /\ Command => commands' \in 0..MaxCommands
           /\ UNCHANGED commands => commands' \in 0..MaxCommands
BY SlitAssumption DEF Command, SlitInv, TypeInv

LEMMA SlitInfo ==
    ASSUME SlitInv, NEW s \in Slits
    PROVE  info[s] \in InfoType /\ (info[s].hidden => info[s].interval)
           /\ Timed(s, info[s]) /\ info \in [Slits -> InfoType]
BY DEF SlitInv, TypeInv, AllStand, Stands, Timed

LEMMA AutohideKeeps ==
    ASSUME SlitInv, NEW s \in Slits, NEW on \in BOOLEAN, do_slit_autohide(s, on)
    PROVE  SlitInv'
<1> DEFINE a == IF on THEN Strip ELSE 0
           fl == info[s].floating /\ ~on
           lf == info[s].left \/ on
           i == [info[s] EXCEPT !.auto_hide = a, !.interval = on, !.hidden = FALSE,
                                !.floating = fl, !.left = lf]
<1>1. info[s] \in InfoType
  BY SlitInfo
<1>2. SaveState(s, i) /\ Command /\ UNCHANGED <<phase, children, over>>
  <2>1. i = [info[s] EXCEPT !.auto_hide = IF on THEN Strip ELSE 0,
                                !.interval = on, !.hidden = FALSE,
                                !.floating = @ /\ ~on, !.left = @ \/ on]
    BY <1>1, Zenon DEF InfoType
  <2> HIDE DEF i
  <2> QED BY <2>1 DEF do_slit_autohide
<1>3. a \in {0, Strip} /\ fl \in BOOLEAN /\ lf \in BOOLEAN
  BY Zenon
<1> HIDE DEF a, fl, lf
<1>4. i \in InfoType
  BY <1>1, <1>3, Zenon DEF InfoType
<1>5. ~i.hidden
  BY <1>1 DEF InfoType
<1> HIDE DEF i
<1> QED BY <1>2, <1>4, <1>5, CommandCounts, SaveStateKeeps

LEMMA FloatKeeps ==
    ASSUME SlitInv, NEW s \in Slits, NEW on \in BOOLEAN, do_slit_float(s, on)
    PROVE  SlitInv'
<1> DEFINE a == IF on THEN 0 ELSE info[s].auto_hide
           i == [info[s] EXCEPT !.floating = on, !.hidden = FALSE, !.auto_hide = a]
<1>1. info[s] \in InfoType
  BY SlitInfo
<1>2. SaveState(s, i) /\ Command /\ UNCHANGED <<phase, children, over>>
  <2>1. i = [info[s] EXCEPT !.floating = on, !.hidden = FALSE,
                                !.auto_hide = IF on THEN 0 ELSE @]
    BY <1>1, Zenon DEF InfoType
  <2> HIDE DEF i
  <2> QED BY <2>1 DEF do_slit_float
<1>3. a \in {0, Strip}
  BY <1>1, InfoFields
<1> HIDE DEF a
<1>4. i \in InfoType
  BY <1>1, <1>3, Zenon DEF InfoType
<1>5. ~i.hidden
  BY <1>1 DEF InfoType
<1> HIDE DEF i
<1> QED BY <1>2, <1>4, <1>5, CommandCounts, SaveStateKeeps

LEMMA AlignKeeps ==
    ASSUME SlitInv, NEW s \in Slits, NEW edge \in Edges, do_slit_align(s, edge)
    PROVE  SlitInv'
<1> DEFINE i == [info[s] EXCEPT !.align = edge]
<1>1. info[s] \in InfoType /\ (info[s].hidden => info[s].interval)
  BY SlitInfo
<1>2. SaveState(s, i) /\ Command /\ UNCHANGED <<phase, children, over>>
  BY DEF do_slit_align
<1>3. i \in InfoType
  BY <1>1, Zenon DEF InfoType
<1>4. i.hidden = info[s].hidden /\ i.interval = info[s].interval
  BY <1>1, Zenon DEF InfoType
<1> HIDE DEF i
<1> QED BY <1>1, <1>2, <1>3, <1>4, CommandCounts, SaveStateKeeps

LEMMA ConfigKeeps ==
    ASSUME SlitInv, NEW s \in Slits, slit_set_config(s)
    PROVE  SlitInv'
<1>1. /\ info[s] \in InfoType /\ info \in [Slits -> InfoType] /\ window \in [Slits -> WinType]
      /\ phase = "config" /\ KidsOf(s) = {} /\ ~info[s].hidden
  BY SlitInfo DEF slit_set_config, SlitInv, Early, TypeInv
<1>2. \E i \in InfoType : ~i.hidden /\ i.align = info[s].align
                          /\ info' = [info EXCEPT ![s] = AutoHiding(i)]
  <2>1. PICK value \in BOOLEAN :
         \/ info' = [info EXCEPT ![s] = AutoHiding([info[s] EXCEPT !.floating = value])]
         \/ info' = [info EXCEPT ![s] = AutoHiding([info[s] EXCEPT !.interval = value])]
         \/ info' = [info EXCEPT ![s] = AutoHiding(
                       [info[s] EXCEPT !.auto_hide = IF value THEN Strip ELSE 0])]
    BY Zenon DEF slit_set_config
  <2> DEFINE Fine(i) == i \in InfoType /\ ~i.hidden /\ i.align = info[s].align
  <2>2. Fine([info[s] EXCEPT !.floating = value])
    BY <1>1, Zenon DEF InfoType
  <2>3. Fine([info[s] EXCEPT !.interval = value])
    BY <1>1, Zenon DEF InfoType
  <2>4. Fine([info[s] EXCEPT !.auto_hide = IF value THEN Strip ELSE 0])
    <3> DEFINE a == IF value THEN Strip ELSE 0
    <3>1. a \in {0, Strip}
      BY Zenon
    <3> HIDE DEF a
    <3>2. Fine([info[s] EXCEPT !.auto_hide = a])
      BY <1>1, <3>1, Zenon DEF InfoType
    <3> QED BY <3>2 DEF a
  <2> QED BY <2>1, <2>2, <2>3, <2>4
<1>3. PICK i \in InfoType : ~i.hidden /\ i.align = info[s].align
                            /\ info' = [info EXCEPT ![s] = AutoHiding(i)]
  BY <1>2
<1> DEFINE j == AutoHiding(i)
<1>4. j \in InfoType /\ Timed(s, j) /\ ~j.hidden /\ j.align = info[s].align
  BY <1>3, AutoHidingTimed
<1> HIDE DEF j
<1>5. Stands(s, j, window[s])
  BY <1>1, <1>4 DEF SlitInv, AllStand, Stands, AtEdge
<1>6. window' = [window EXCEPT ![s] = window[s]]
  BY <1>1 DEF slit_set_config, geometry
<1>7. UNCHANGED <<phase, registry, pos, workarea, kids, size, resized>>
      /\ over' \subseteq Slits /\ commands' \in 0..MaxCommands
  BY CommandCounts DEF slit_set_config, geometry, children, SlitInv, TypeInv
<1>8. info' = [info EXCEPT ![s] = j] /\ window[s] \in WinType
  BY <1>1, <1>3 DEF j
<1>9. OnlySlit(s, j, window[s])
  BY <1>1, <1>4, <1>5, <1>6, <1>7, <1>8 DEF OnlySlit
<1> QED BY <1>9, OnlySlitKeeps

\* do_show_slit, with settings in which at most the mouse has come or gone.
LEMMA ShowKeeps ==
    ASSUME SlitInv, NEW s \in Slits, NEW b \in BOOLEAN,
           do_show_slit(s, [info[s] EXCEPT !.left = b]),
           UNCHANGED <<phase, registry, children, commands>>, over' \subseteq Slits
    PROVE  SlitInv'
<1> DEFINE i == [info[s] EXCEPT !.left = b]
           j == [i EXCEPT !.hidden = FALSE]
<1>1. info[s] \in InfoType
  BY SlitInfo
<1>2. i \in InfoType /\ i.hidden = info[s].hidden /\ i.interval = info[s].interval
  BY <1>1, Zenon DEF InfoType
<1>3. i.auto_hide = info[s].auto_hide
  BY <1>1 DEF InfoType
<1>4. commands' \in 0..MaxCommands
  BY CommandCounts
<1> HIDE DEF i
<1>5. CASE i.hidden
  <2>1. j \in InfoType /\ ~j.hidden
    <3>1. j \in InfoType
      BY <1>2, Zenon DEF InfoType
    <3>2. ~j.hidden
      BY <1>2 DEF InfoType
    <3> QED BY <3>1, <3>2
  <2>2. Timed(s, j)
    <3>1. j.interval = i.interval
      BY <1>2, Zenon DEF InfoType
    <3>2. j.auto_hide = i.auto_hide
      BY <1>2 DEF InfoType
    <3>3. Timed(s, info[s])
      BY SlitInfo
    <3> QED BY <1>2, <1>3, <2>1, <3>1, <3>2, <3>3 DEF Timed
  <2>3. recalc_slit_size(s, [info EXCEPT ![s] = j], KidsOf(s))
    BY <1>5 DEF do_show_slit, i
  <2>4. /\ UNCHANGED <<size, kids, phase>> /\ resized' = resized /\ resized \subseteq Slits
        /\ registry' \in [Slits -> SettingsType \cup {<<>>}]
    BY DEF children, SlitInv, TypeInv
  <2> HIDE DEF j
  <2> QED BY <1>4, <2>1, <2>2, <2>3, <2>4, RecalcKeeps
<1>6. CASE ~i.hidden
  <2>1. info' = [info EXCEPT ![s] = i] /\ UNCHANGED geometry
    BY <1>6 DEF do_show_slit, i
  <2>2. UNCHANGED <<geometry, phase, registry, kids, size, resized, commands>>
    BY <2>1 DEF children
  <2> QED BY <2>1, <2>2, LeftKeeps DEF i
<1> QED BY <1>5, <1>6

LEMMA SameInfo ==
    ASSUME SlitInv, NEW s \in Slits
    PROVE  /\ info[s].left \in BOOLEAN /\ info[s].interval \in BOOLEAN
           /\ info[s] = [info[s] EXCEPT !.left = info[s].left]
           /\ info = [info EXCEPT ![s] = info[s]]
<1>1. info[s] \in InfoType /\ info \in [Slits -> InfoType]
  BY SlitInfo
<1>2. info[s].left \in BOOLEAN /\ info[s].interval \in BOOLEAN
  BY <1>1, InfoFields
<1>3. info[s] = [info[s] EXCEPT !.left = info[s].left]
  BY <1>1 DEF InfoType
<1>4. info = [info EXCEPT ![s] = info[s]]
  BY <1>1
<1> QED BY <1>2, <1>3, <1>4

LEMMA MouseKeeps ==
    ASSUME SlitInv, NEW s \in Slits,
           MouseOnKid(s) \/ MouseOnSlit(s) \/ MouseLeaves(s) \/ Deactivated(s) \/ Activated(s)
    PROVE  SlitInv'
<1>1. over \subseteq Slits
  BY DEF SlitInv, TypeInv
<1>2. CASE MouseOnKid(s)
  <2>1. over' \subseteq Slits /\ UNCHANGED <<phase, registry, children, commands>>
    BY <1>1, <1>2 DEF MouseOnKid
  <2>2. CASE info[s].hidden
    <3>1. do_show_slit(s, [info[s] EXCEPT !.left = info[s].left])
      BY <1>2, <2>2, SameInfo DEF MouseOnKid
    <3> QED BY <2>1, <3>1, SameInfo, ShowKeeps
  <2>3. CASE ~info[s].hidden
    <3> DEFINE b == info[s].left /\ ~info[s].interval
    <3>1. info' = [info EXCEPT ![s].left = @ /\ ~info[s].interval] /\ UNCHANGED geometry
      BY <1>2, <2>3 DEF MouseOnKid
    <3>2. info' = [info EXCEPT ![s] = [info[s] EXCEPT !.left = b]]
      BY <3>1, SlitInfo, Zenon
    <3>3. b \in BOOLEAN
      BY Zenon
    <3> HIDE DEF b
    <3> QED BY <2>1, <3>1, <3>2, <3>3, LeftKeeps DEF children
  <2> QED BY <2>2, <2>3
<1>3. CASE MouseOnSlit(s)
  <2> DEFINE b == FALSE
             i == [info[s] EXCEPT !.left = b]
  <2>1. over' \subseteq Slits /\ UNCHANGED <<phase, registry, children, commands>>
    BY <1>1, <1>3 DEF MouseOnSlit
  <2>2. IF i.interval THEN do_show_slit(s, i)
        ELSE info' = [info EXCEPT ![s] = i] /\ UNCHANGED geometry
    BY <1>3 DEF MouseOnSlit
  <2>3. b \in BOOLEAN
    BY Zenon
  <2> HIDE DEF b
  <2>4. CASE i.interval
    BY <2>1, <2>2, <2>3, <2>4, ShowKeeps
  <2>5. CASE ~i.interval
    BY <2>1, <2>2, <2>3, <2>5, LeftKeeps DEF children
  <2> QED BY <2>4, <2>5
<1>4. CASE MouseLeaves(s)
  <2> DEFINE b == info[s].left \/ info[s].interval
  <2>1. /\ info' = [info EXCEPT ![s].left = @ \/ info[s].interval]
        /\ over' \subseteq Slits
        /\ UNCHANGED <<phase, registry, geometry, children, commands>>
    BY <1>1, <1>4 DEF MouseLeaves
  <2>2. info' = [info EXCEPT ![s] = [info[s] EXCEPT !.left = b]]
    BY <2>1, SlitInfo, Zenon
  <2>3. b \in BOOLEAN
    BY Zenon
  <2> HIDE DEF b
  <2> QED BY <2>1, <2>2, <2>3, LeftKeeps DEF children
<1>5. CASE Deactivated(s)
  <2> DEFINE b == TRUE
  <2>1. /\ info' = [info EXCEPT ![s].left = b] /\ over' \subseteq Slits
        /\ UNCHANGED <<phase, registry, geometry, children, over, commands>>
    BY <1>1, <1>5 DEF Deactivated
  <2>2. b \in BOOLEAN
    BY Zenon
  <2> HIDE DEF b
  <2>3. info' = [info EXCEPT ![s] = [info[s] EXCEPT !.left = b]]
    BY <2>1, SlitInfo, Zenon
  <2> QED BY <2>1, <2>2, <2>3, LeftKeeps DEF children
<1>6. CASE Activated(s)
  <2>1. do_show_slit(s, [info[s] EXCEPT !.left = info[s].left])
    BY <1>6, SameInfo DEF Activated
  <2>2. UNCHANGED <<phase, registry, children, commands>> /\ over' \subseteq Slits
    BY <1>1, <1>6 DEF Activated
  <2> QED BY <2>1, <2>2, SameInfo, ShowKeeps
<1> QED BY <1>2, <1>3, <1>4, <1>5, <1>6

LEMMA DisplayKeeps ==
    ASSUME SlitInv, NEW s \in Slits, DisplayChange(s)
    PROVE  SlitInv'
<1> DEFINE i == [info[s] EXCEPT !.hidden = FALSE]
<1>1. info[s] \in InfoType /\ Timed(s, info[s]) /\ info \in [Slits -> InfoType]
  BY SlitInfo
<1>2. recalc_slit_size(s, [info EXCEPT ![s].hidden = FALSE], KidsOf(s))
      /\ UNCHANGED <<phase, registry, children, over>> /\ Command
  BY DEF DisplayChange
<1>3. [info EXCEPT ![s].hidden = FALSE] = [info EXCEPT ![s] = i]
  BY <1>1, Zenon
<1>4. recalc_slit_size(s, [info EXCEPT ![s] = i], KidsOf(s))
  BY <1>2, <1>3, Zenon
<1>5. i \in InfoType
  BY <1>1, Zenon DEF InfoType
<1>6. ~i.hidden /\ i.auto_hide = info[s].auto_hide
  BY <1>1 DEF InfoType
<1>7. i.interval = info[s].interval
  BY <1>1, Zenon DEF InfoType
<1>8. Timed(s, i)
  BY <1>1, <1>6, <1>7 DEF Timed
<1>9. /\ UNCHANGED <<size, kids, phase>> /\ resized' = resized /\ resized \subseteq Slits
      /\ registry' \in [Slits -> SettingsType \cup {<<>>}] /\ over' \subseteq Slits
  BY <1>2 DEF children, SlitInv, TypeInv
<1>10. commands' \in 0..MaxCommands
  BY <1>2, CommandCounts
<1> HIDE DEF i
<1> QED BY <1>4, <1>5, <1>6, <1>8, <1>9, <1>10, RecalcKeeps

\* A slit measured anew with the settings it has.
LEMMA SameSettles ==
    ASSUME SlitInv, NEW s \in Slits, NEW K \in SUBSET Kids, recalc_slit_size(s, info, K)
    PROVE  Settled(s, K) /\ info'[s] = info[s]
<1> DEFINE i == info[s]
<1>1. TypeInv /\ AllStand /\ i \in InfoType /\ Timed(s, i) /\ (i.hidden => info[s].hidden)
  BY SlitInfo DEF SlitInv
<1>2. info = [info EXCEPT ![s] = i]
  BY SameInfo
<1>3. Settled(s, K) /\ info'[s] = i
  <2> HIDE DEF i
  <2> QED BY <1>1, <1>2, RecalcSettles
<1> QED BY <1>3

LEMMA CreatedKeeps ==
    ASSUME SlitInv, NEW k \in Kids, KidCreated(k)
    PROVE  SlitInv'
<1> DEFINE s == home[k]
           K == IF KidsOf(s) = {} THEN {k} ELSE KidsOf(s)
<1>1. s \in Slits
  BY SlitAssumption
<1>2. K \in SUBSET Kids /\ \A l \in K : home[l] = s
  BY DEF KidsOf, SlitInv, TypeInv
<1>3. /\ kids' = kids \cup {k} /\ resized' = resized \cup {s}
      /\ recalc_slit_size(s, info, K) /\ UNCHANGED <<phase, registry, size, over>>
      /\ Command \/ UNCHANGED commands
  BY DEF KidCreated
<1> HIDE DEF K
<1>4. TypeInv /\ AllStand
  BY DEF SlitInv
<1>5. Settled(s, K) /\ info'[s] = info[s]
  <2> HIDE DEF s
  <2> QED BY <1>1, <1>2, <1>3, SameSettles
<1>6. SettledIn(s)
  BY <1>1, <1>2, <1>3, <1>5 DEF SettledIn
<1> HIDE DEF s
<1>7. /\ kids' \subseteq Kids /\ resized' \subseteq Slits /\ resized \ {s} \subseteq resized'
      /\ \A l \in kids' : home[l] # s => l \in kids
  BY <1>1, <1>3, <1>4 DEF TypeInv, s
<1>8. /\ registry' \in [Slits -> SettingsType \cup {<<>>}] /\ over' \subseteq Slits
      /\ phase' \in {"config", "running"} /\ commands' \in 0..MaxCommands
  BY <1>3, <1>4, CommandCounts DEF TypeInv
<1>9. phase' = "config" => phase = "config" /\ ~info'[s].hidden
  BY <1>1, <1>3, <1>5 DEF SlitInv, Early
<1> QED BY <1>1, <1>3, <1>6, <1>7, <1>8, <1>9, SettledKeeps

LEMMA ChildrenKeep ==
    ASSUME SlitInv, NEW s \in Slits, recalc_slit_size(s, info, KidsOf(s)),
           UNCHANGED <<phase, registry, size, over>>, kids' \subseteq kids,
           \A k \in kids : home[k] # s => k \in kids',
           resized \ {s} \subseteq resized', resized' \subseteq resized,
           commands' \in 0..MaxCommands
    PROVE  SlitInv'
<1>1. TypeInv /\ AllStand
  BY DEF SlitInv
<1>2. KidsOf(s) \in SUBSET Kids /\ \A k \in KidsOf(s) : home[k] = s
  BY <1>1 DEF KidsOf, TypeInv
<1>3. Settled(s, KidsOf(s)) /\ info'[s] = info[s]
  BY <1>2, SameSettles
<1>4. {k \in kids' : home[k] = s} \subseteq KidsOf(s)
  BY DEF KidsOf
<1>5. SettledIn(s)
  BY <1>2, <1>3, <1>4 DEF SettledIn
<1>6. /\ phase' \in {"config", "running"} /\ kids' \subseteq Kids /\ resized' \subseteq Slits
      /\ registry' \in [Slits -> SettingsType \cup {<<>>}] /\ over' \subseteq Slits
  BY <1>1 DEF TypeInv
<1>7. phase' = "config" => phase = "config" /\ ~info'[s].hidden
  BY <1>3 DEF SlitInv, Early
<1> QED BY <1>5, <1>6, <1>7, SettledKeeps

LEMMA ChildResizedKeeps ==
    ASSUME SlitInv, NEW s \in Slits, ChildResized(s)
    PROVE  SlitInv'
<1>1. /\ resized' = resized \ {s} /\ recalc_slit_size(s, info, KidsOf(s))
      /\ UNCHANGED <<phase, registry, kids, size, over, commands>>
  BY DEF ChildResized
<1>2. commands' \in 0..MaxCommands
  BY <1>1, CommandCounts
<1> QED BY <1>1, <1>2, ChildrenKeep

LEMMA DestroyedKeeps ==
    ASSUME SlitInv, NEW k \in Kids, KidDestroyed(k)
    PROVE  SlitInv'
<1>1. /\ recalc_slit_size(home[k], info, KidsOf(home[k])) /\ kids' = kids \ {k}
      /\ UNCHANGED <<phase, registry, size, resized, over>> /\ Command
  BY DEF KidDestroyed
<1>2. home[k] \in Slits
  BY SlitAssumption
<1>3. commands' \in 0..MaxCommands
  BY <1>1, CommandCounts
<1>4. kids' \subseteq kids /\ \A l \in kids : home[l] # home[k] => l \in kids'
  BY <1>1
<1> QED BY <1>1, <1>2, <1>3, <1>4, ChildrenKeep

LEMMA ResizesKeeps ==
    ASSUME SlitInv, NEW k \in Kids, NEW sz \in Sizes, KidResizes(k, sz)
    PROVE  SlitInv'
<1>1. /\ size' = [size EXCEPT ![k] = sz] /\ resized' = resized \cup {home[k]}
      /\ UNCHANGED <<phase, registry, info, geometry, kids, over>> /\ Command
      /\ home[k] \in Slits
  BY SlitAssumption DEF KidResizes
<1>2. commands' \in 0..MaxCommands
  BY <1>1, CommandCounts
<1>3. TypeInv'
  BY <1>1, <1>2 DEF SlitInv, TypeInv, Sized, geometry
<1>4. AllStand' /\ Reserved' /\ Early'
  BY <1>1 DEF SlitInv, AllStand, Reserved, Early, geometry, KidsOf
<1>5. Laid'
  <2>1. \A t \in Slits \ resized' : \A l \in KidsOf(t) : size'[l] = size[l]
    BY <1>1 DEF KidsOf, SlitInv, TypeInv, Sized
  <2>2. /\ \A t \in Slits : KidsOf(t)' = KidsOf(t)
        /\ \A t \in Slits \ resized' : t \notin resized
    BY <1>1 DEF KidsOf
  <2> QED BY <1>1, <2>1, <2>2 DEF SlitInv, Laid, Apart, End, geometry
<1> QED BY <1>3, <1>4, <1>5 DEF SlitInv

LEMMA RunKeeps == SlitInv /\ Run => SlitInv'
<1> SUFFICES ASSUME SlitInv, Run PROVE SlitInv'
  OBVIOUS
<1>1. /\ phase' = "running" /\ \A s \in Slits : KidsOf(s) # {}
      /\ UNCHANGED <<registry, info, geometry, children, over, commands>>
  BY DEF Run
<1>2. TypeInv'
  <2>1. TypeInv /\ UNCHANGED <<registry, info, window, kids, size, pos, resized, over,
                               workarea, commands>>
    BY <1>1 DEF SlitInv, geometry, children
  <2>2. phase' \in {"config", "running"}
    BY <1>1
  <2> QED BY <2>1, <2>2 DEF TypeInv, Sized
<1>3. AllStand' /\ Early'
  BY <1>1 DEF SlitInv, AllStand, Early, geometry
<1>4. Laid'
  <2>1. \A t \in Slits : KidsOf(t)' = KidsOf(t)
    BY <1>1 DEF KidsOf, children
  <2> QED BY <1>1, <2>1 DEF SlitInv, Laid, Apart, End, geometry, children
<1>5. Reserved'
  <2>1. workarea = WorkArea(info, window)
    BY DEF SlitInv, Reserved, Run
  <2>2. UNCHANGED <<workarea, info, window>>
    BY <1>1 DEF geometry
  <2> QED BY <2>1, <2>2, Zenon DEF Reserved
<1> QED BY <1>2, <1>3, <1>4, <1>5 DEF SlitInv

-----------------------------------------------------------------------------
(* A shell that starts.                                                    *)
LEMMA BlankGood ==
    ASSUME NEW s, NEW edge \in Edges
    PROVE  Blank(edge) \in InfoType /\ Timed(s, Blank(edge)) /\ ~Blank(edge).hidden
<1>1. Blank(edge) \in InfoType
  BY Zenon DEF Blank, InfoType
<1>2. ~Blank(edge).hidden
  BY DEF Blank
<1>3. ~Blank(edge).interval
  BY DEF Blank
<1> QED BY <1>1, <1>2, <1>3 DEF Timed

LEMMA LoadedGood ==
    ASSUME NEW s, NEW set \in SettingsType, NEW i, i = Loaded(set)
    PROVE  i \in InfoType /\ Timed(s, i) /\ ~i.hidden
<1> DEFINE b == [align |-> set.align, floating |-> set.floating,
                 auto_hide |-> set.auto_hide, interval |-> set.interval,
                 hidden |-> FALSE, left |-> FALSE]
<1>1. b \in InfoType
  BY Zenon DEF SettingsType, InfoType
<1>2. ~b.hidden
  OBVIOUS
<1>3. i = AutoHiding(b)
  BY DEF Loaded
<1> HIDE DEF b
<1> QED BY <1>1, <1>2, <1>3, AutoHidingTimed

\* A slit without a window yet.
LEMMA NewStands ==
    ASSUME NEW s, NEW i \in InfoType, Timed(s, i), ~i.hidden
    PROVE  NoWindow(i) \in WinType /\ Stands(s, i, NoWindow(i))
<1> DEFINE win == NoWindow(i)
<1>1. win = [r |-> [w |-> 0, h |-> 0], where |-> i.align, off |-> 0]
  BY DEF NoWindow
<1>2. i.align \in Edges
  BY InfoFields
<1>3. win.where = i.align /\ win.off = 0 /\ win.r = [w |-> 0, h |-> 0] /\ win \in WinType
  BY <1>1, <1>2 DEF WinType
<1> HIDE DEF win
<1>4. Across(i.align, win.r) = 0
  BY <1>3 DEF Across
<1>5. Stands(s, i, win)
  BY <1>3, <1>4 DEF Stands, AtEdge
<1> QED BY <1>3, <1>5 DEF win

\* The start of a shell, with any registry and any work area.
Starts ==
    /\ phase = "config"
    /\ \A s \in Slits : info[s] \in InfoType /\ Timed(s, info[s]) /\ ~info[s].hidden
    /\ info = [s \in Slits |-> info[s]]
    /\ window = [s \in Slits |-> NoWindow(info[s])]
    /\ kids = {} /\ resized = {} /\ over = {}
    /\ pos = [k \in Kids |-> 0] /\ Sized
    /\ registry \in [Slits -> SettingsType \cup {<<>>}]
    /\ workarea \in [Edges -> Nat] /\ commands \in 0..MaxCommands
    /\ Slits = {} => \A e \in Edges : workarea[e] = 0

LEMMA StartsGood == Starts => SlitInv
<1> SUFFICES ASSUME Starts PROVE SlitInv
  OBVIOUS
<1>1. \A s \in Slits : /\ NoWindow(info[s]) \in WinType
                       /\ Stands(s, info[s], NoWindow(info[s]))
  BY NewStands DEF Starts
<1>2. info \in [Slits -> InfoType] /\ window \in [Slits -> WinType]
  BY <1>1 DEF Starts
<1>3. TypeInv
  BY <1>2 DEF Starts, TypeInv
<1>4. AllStand
  BY <1>1 DEF Starts, AllStand
<1>5. \A s \in Slits : KidsOf(s) = {}
  BY DEF Starts, KidsOf
<1>6. Laid
  BY <1>5 DEF Laid, Apart
<1>7. Reserved
  <2>1. CASE Slits = {}
    <3>1. \A e \in Edges : {Reserve(info[s], window[s]) :
                              s \in {t \in Slits : info[t].align = e}} = {}
      BY <2>1
    <3>2. WorkArea(info, window) = [e \in Edges |-> 0]
      BY <3>1 DEF WorkArea, MaxOf
    <3> QED BY <2>1, <3>2 DEF Starts, Reserved
  <2>2. CASE Slits # {}
    BY <1>5, <2>2 DEF Starts, Reserved
  <2> QED BY <2>1, <2>2
<1>8. Early
  BY DEF Starts, Early
<1> QED BY <1>3, <1>4, <1>6, <1>7, <1>8 DEF SlitInv

LEMMA StartsGoodNext == Starts' => SlitInv'
BY StartsGood, PTL

LEMMA InitGood == InitSlit => SlitInv
<1> SUFFICES ASSUME InitSlit PROVE SlitInv
  OBVIOUS
<1>1. PICK edge \in Edges : info = [s \in Slits |-> Blank(edge)]
  BY DEF InitSlit
<1>2. \A s \in Slits : info[s] \in InfoType /\ Timed(s, info[s]) /\ ~info[s].hidden
  BY <1>1, BlankGood
<1>3. info = [s \in Slits |-> info[s]]
  BY <1>1
<1>4. registry \in [Slits -> SettingsType \cup {<<>>}] /\ workarea \in [Edges -> Nat]
      /\ \A e \in Edges : workarea[e] = 0
  BY DEF InitSlit
<1>5. commands \in 0..MaxCommands
  BY SlitAssumption DEF InitSlit
<1>6. Starts
  BY <1>2, <1>3, <1>4, <1>5 DEF InitSlit, Starts, Sized
<1> QED BY <1>6, StartsGood

LEMMA RestartKeeps ==
    ASSUME SlitInv, NEW edge \in Edges, phase = "running", Restart(edge)
    PROVE  SlitInv'
<1>1. registry \in [Slits -> SettingsType \cup {<<>>}]
  BY DEF SlitInv, TypeInv
<1>2. /\ info' = [s \in Slits |-> create_new_slit(s, edge)]
      /\ window' = [s \in Slits |-> NoWindow(Fresh(edge)[s])]
  BY DEF Restart, Fresh
<1>3. \A s \in Slits : info'[s] \in InfoType /\ Timed(s, info'[s]) /\ ~info'[s].hidden
  <2> SUFFICES ASSUME NEW s \in Slits
               PROVE  info'[s] \in InfoType /\ Timed(s, info'[s]) /\ ~info'[s].hidden
    OBVIOUS
  <2>1. CASE registry[s] = <<>>
    <3>1. info'[s] = Blank(edge)
      BY <1>2, <2>1 DEF create_new_slit
    <3> QED BY <3>1, BlankGood
  <2>2. CASE registry[s] # <<>>
    <3>1. info'[s] = Loaded(registry[s]) /\ registry[s] \in SettingsType
      BY <1>1, <1>2, <2>2 DEF create_new_slit
    <3> QED BY <3>1, LoadedGood
  <2> QED BY <2>1, <2>2
<1>4. info' = [s \in Slits |-> info'[s]] /\ window' = [s \in Slits |-> NoWindow(info'[s])]
  BY <1>2 DEF Fresh
<1>5. /\ phase' = "config" /\ kids' = {} /\ resized' = {} /\ over' = {}
      /\ pos' = [k \in Kids |-> 0] /\ UNCHANGED <<registry, size, workarea>> /\ Command
  BY DEF Restart
<1>6. commands' \in 0..MaxCommands
  BY <1>5, CommandCounts
<1>7. Slits = {} => \A e \in Edges : workarea[e] = 0
  <2> SUFFICES ASSUME Slits = {} PROVE \A e \in Edges : workarea[e] = 0
    OBVIOUS
  <2>1. \A e \in Edges : {Reserve(info[s], window[s]) :
                            s \in {t \in Slits : info[t].align = e}} = {}
    OBVIOUS
  <2>2. WorkArea(info, window) = [e \in Edges |-> 0]
    BY <2>1 DEF WorkArea, MaxOf
  <2> QED BY <2>2 DEF SlitInv, Reserved
<1>8. Starts'
  BY <1>3, <1>4, <1>5, <1>6, <1>7 DEF Starts, Sized, SlitInv, TypeInv
<1> QED BY <1>8, StartsGoodNext

-----------------------------------------------------------------------------
(* Every step keeps the inductive invariant.                               *)
LEMMA SlitStep == SlitInv /\ [NextSlit]_slit_vars => SlitInv'
<1> SUFFICES ASSUME SlitInv, [NextSlit]_slit_vars PROVE SlitInv'
  OBVIOUS
<1>1. CASE UNCHANGED slit_vars
  <2>1. TypeInv'
    BY <1>1 DEF SlitInv, TypeInv, Sized, slit_vars, geometry, children
  <2>2. AllStand' /\ Early'
    BY <1>1 DEF SlitInv, AllStand, Early, slit_vars, geometry
  <2>3. \A t \in Slits : KidsOf(t)' = KidsOf(t)
    BY <1>1 DEF KidsOf, slit_vars, children
  <2>4. Laid'
    BY <1>1, <2>3 DEF SlitInv, Laid, Apart, End, slit_vars, geometry, children
  <2>5. Reserved'
    <3>1. UNCHANGED <<phase, workarea, info, window>> /\ Reserved
      BY <1>1 DEF SlitInv, slit_vars, geometry
    <3> QED BY <2>3, <3>1, Zenon DEF Reserved
  <2> QED BY <2>1, <2>2, <2>4, <2>5 DEF SlitInv
<1>2. CASE Run
  BY <1>2, RunKeeps
<1>3. ASSUME NEW edge \in Edges, phase = "running" /\ Restart(edge)
      PROVE  SlitInv'
  BY <1>3, RestartKeeps
<1>4. ASSUME NEW k \in Kids,
             KidCreated(k) \/ KidDestroyed(k) \/ \E sz \in Sizes : KidResizes(k, sz)
      PROVE  SlitInv'
  BY <1>4, CreatedKeeps, DestroyedKeeps, ResizesKeeps
<1>5. ASSUME NEW s \in Slits, slit_set_config(s) PROVE SlitInv'
  BY <1>5, ConfigKeeps
<1>6. ASSUME NEW s \in Slits, NEW on \in BOOLEAN,
             do_slit_autohide(s, on) \/ do_slit_float(s, on)
      PROVE  SlitInv'
  BY <1>6, AutohideKeeps, FloatKeeps
<1>7. ASSUME NEW s \in Slits, NEW edge \in Edges, do_slit_align(s, edge) PROVE SlitInv'
  BY <1>7, AlignKeeps
<1>8. ASSUME NEW s \in Slits, TimerTick(s) PROVE SlitInv'
  BY <1>8, TimerTickKeeps
<1>9. ASSUME NEW s \in Slits, MouseOnKid(s) \/ MouseOnSlit(s) PROVE SlitInv'
  BY <1>9, MouseKeeps
<1>10. ASSUME NEW s \in Slits, MouseLeaves(s) \/ Deactivated(s) PROVE SlitInv'
  BY <1>10, MouseKeeps
<1>11. ASSUME NEW s \in Slits, Activated(s) \/ DisplayChange(s) PROVE SlitInv'
  BY <1>11, MouseKeeps, DisplayKeeps
<1>12. ASSUME NEW s \in Slits, ChildResized(s) PROVE SlitInv'
  BY <1>12, ChildResizedKeeps
<1> QED BY <1>1, <1>2, <1>3, <1>4, <1>5, <1>6, <1>7, <1>8, <1>9, <1>10, <1>11, <1>12 DEF NextSlit

(* In every reachable state the slits are sound (SlitInv): what the messages  *)
(* of slit_wnd_proc and the menu's commands keep together (slit.cpp).      *)
THEOREM SlitInvariance == SpecSlit => []SlitInv
BY InitGood, SlitStep, PTL DEF SpecSlit

-----------------------------------------------------------------------------
(* What the runs check follows from the invariant.                         *)
LEMMA InvLayout == SlitInv => LayoutIsSound
<1> SUFFICES ASSUME SlitInv PROVE LayoutIsSound
  OBVIOUS
<1>1. WorkAreaFits
  BY Zenon DEF SlitInv, Reserved, WorkAreaFits
<1>2. ChildrenApart
  <2> SUFFICES ASSUME NEW s \in Slits, s \notin resized
               PROVE  LET len(k) == Along(info[s].align, size[k])
                          end(k) == pos[k] + len(k)
                      IN  \A k \in KidsOf(s) :
                            /\ end(k) <= Along(info[s].align, window[s].r)
                            /\ \A l \in KidsOf(s) \ {k} :
                                 /\ end(k) <= pos[l] \/ end(l) <= pos[k]
                                 /\ grav[k] = grav[l] /\ pri[k] > pri[l]
                                      => (pos[k] < pos[l] <=> grav[k] = "hi")
    BY DEF ChildrenApart
  <2>1. Apart(info[s].align, window[s].r, KidsOf(s), pos)
    BY DEF SlitInv, Laid
  <2> QED BY <2>1 DEF Apart, End
<1> QED BY <1>1, <1>2 DEF LayoutIsSound

LEMMA InvTypes == SlitInv => SlitTypes
<1> SUFFICES ASSUME SlitInv PROVE SlitTypes
  OBVIOUS
<1>1. TypeInv
  BY DEF SlitInv
<1>2. ASSUME NEW s \in Slits
      PROVE  /\ registry[s] \in SettingsType \cup {<<>>}
             /\ Settings(info[s]) \in SettingsType
             /\ info[s].hidden \in BOOLEAN /\ info[s].left \in BOOLEAN
             /\ window[s].where \in Edges /\ window[s].off \in Int
             /\ window[s].r.w \in Nat /\ window[s].r.h \in Nat
  <2>1. info[s] \in InfoType /\ window[s] \in WinType
    BY <1>1 DEF TypeInv
  <2>2. Settings(info[s]) \in SettingsType
    BY <2>1, InfoFields, Zenon DEF Settings, SettingsType
  <2>3. info[s].hidden \in BOOLEAN /\ info[s].left \in BOOLEAN
    BY <2>1, InfoFields
  <2> QED BY <1>1, <2>1, <2>2, <2>3 DEF TypeInv, WinType
<1> QED BY <1>1, <1>2 DEF SlitTypes, TypeInv, Sized

LEMMA InvHidden == SlitInv => HiddenReturns
<1> SUFFICES ASSUME SlitInv PROVE HiddenReturns
  OBVIOUS
<1>1. AllStand /\ \A s \in Slits : window[s] \in WinType
  BY DEF SlitInv, TypeInv
<1>2. HiddenHasTimer
  BY <1>1 DEF AllStand, Stands, Timed, HiddenHasTimer
<1>3. HiddenInReach
  <2> SUFFICES ASSUME NEW s \in Named, info[s].hidden, window[s].where \notin Near,
                      Across(window[s].where, window[s].r) > 0
               PROVE  OnScreen(s) > 0
    BY DEF HiddenInReach
  <2>1. s \in Slits
    BY SlitAssumption
  <2>2. window[s].off > 0
    BY <1>1, <2>1 DEF AllStand, Stands
  <2> DEFINE depth == Across(window[s].where, window[s].r)
  <2>3. OnScreen(s) = IF window[s].off < depth THEN window[s].off ELSE depth
    BY DEF OnScreen
  <2> QED BY <2>2, <2>3
<1> QED BY <1>2, <1>3, InvTypes DEF HiddenReturns

(* The work area keeps free what the slits need now, and the children of a *)
(* slit lie inside it, apart and in order, once no resize is waiting       *)
(* (recalc_slit_size, slit.cpp:277-591).                                   *)
THEOREM LayoutAlwaysSound == SpecSlit => []LayoutIsSound
BY SlitInvariance, InvLayout, PTL

(* Only a slit with a timer is hidden, and a named one at the right or     *)
(* bottom edge leaves a strip that the mouse can touch, whatever happened  *)
(* to its children and settings since it hid (slit.cpp: do_hide_slit,      *)
(* size_slit, do_show_slit).                                               *)
THEOREM HiddenAlwaysReturns == SpecSlit => []HiddenReturns
BY SlitInvariance, InvHidden, PTL

-----------------------------------------------------------------------------
(* What a command saves.                                                   *)
LEMMA SavedAsSet ==
    ASSUME NEW i \in InfoType
    PROVE  Settings(Loaded(Settings(i))) = Settings(AutoHiding(i))
<1> DEFINE set == Settings(i)
           b == [align |-> set.align, floating |-> set.floating,
                 auto_hide |-> set.auto_hide, interval |-> set.interval,
                 hidden |-> FALSE, left |-> FALSE]
<1>1. /\ b.align = i.align /\ b.floating = i.floating
      /\ b.auto_hide = i.auto_hide /\ b.interval = i.interval
  BY DEF Settings
<1>2. Loaded(set) = AutoHiding(b)
  BY DEF Loaded
<1>3. b \in InfoType
  BY InfoFields, Zenon DEF Settings, InfoType
<1> HIDE DEF b, set
<1>4. \A j \in InfoType :
         Settings(AutoHiding(j)) =
            [align |-> j.align, floating |-> IF j.interval THEN FALSE ELSE j.floating,
             auto_hide |-> IF j.interval /\ j.auto_hide = 0 THEN Strip ELSE j.auto_hide,
             interval |-> j.interval]
  BY Zenon DEF Settings, AutoHiding, InfoType
<1>5. /\ Settings(AutoHiding(i)) =
            [align |-> i.align, floating |-> IF i.interval THEN FALSE ELSE i.floating,
             auto_hide |-> IF i.interval /\ i.auto_hide = 0 THEN Strip ELSE i.auto_hide,
             interval |-> i.interval]
      /\ Settings(AutoHiding(b)) =
            [align |-> b.align, floating |-> IF b.interval THEN FALSE ELSE b.floating,
             auto_hide |-> IF b.interval /\ b.auto_hide = 0 THEN Strip ELSE b.auto_hide,
             interval |-> b.interval]
  BY <1>3, <1>4
<1>6. Settings(AutoHiding(b)) = Settings(AutoHiding(i))
  BY <1>1, <1>5
<1> QED BY <1>2, <1>6, Zenon DEF set

Restored(s) == registry'[s] # registry[s] =>
                  Settings(Loaded(registry'[s])) = Settings(info'[s])

LEMMA SaveRestores ==
    ASSUME SlitInv, NEW t \in Slits, NEW i \in InfoType, SaveState(t, i),
           NEW s \in Named
    PROVE  Restored(s)
<1>1. registry \in [Slits -> SettingsType \cup {<<>>}] /\ info \in [Slits -> InfoType]
      /\ s \in Slits
  BY SlitAssumption DEF SlitInv, TypeInv
<1>2. CASE t \in Named /\ s = t
  <2>1. /\ registry' = [registry EXCEPT ![t] = Settings(i)]
        /\ recalc_slit_size(t, [info EXCEPT ![t] = AutoHiding(i)], KidsOf(t))
    BY <1>2 DEF SaveState
  <2>2. registry'[s] = Settings(i)
    BY <1>1, <1>2, <2>1
  <2>3. info' = [info EXCEPT ![t] = AutoHiding(i)]
    BY <2>1 DEF recalc_slit_size
  <2>4. info'[s] = AutoHiding(i)
    BY <1>1, <1>2, <2>3
  <2> QED BY <2>2, <2>4, SavedAsSet DEF Restored
<1>3. CASE ~(t \in Named /\ s = t)
  <2>1. registry'[s] = registry[s]
    BY <1>1, <1>3 DEF SaveState
  <2> QED BY <2>1 DEF Restored
<1> QED BY <1>2, <1>3

LEMMA StepRestores == SlitInv /\ [NextSlit]_slit_vars => \A s \in Named : Restored(s)
<1> SUFFICES ASSUME SlitInv, [NextSlit]_slit_vars, NEW s \in Named PROVE Restored(s)
  OBVIOUS
<1>1. CASE UNCHANGED registry
  BY <1>1 DEF Restored
<1>2. ASSUME NEW t \in Slits, NEW on \in BOOLEAN, do_slit_autohide(t, on)
      PROVE  Restored(s)
  <2> DEFINE a == IF on THEN Strip ELSE 0
             fl == info[t].floating /\ ~on
             lf == info[t].left \/ on
             i == [info[t] EXCEPT !.auto_hide = a, !.interval = on, !.hidden = FALSE,
                                  !.floating = fl, !.left = lf]
  <2>1. SaveState(t, i)
    BY <1>2, Zenon DEF do_slit_autohide
  <2>2. info[t] \in InfoType
    BY DEF SlitInv, TypeInv
  <2>3. a \in {0, Strip} /\ fl \in BOOLEAN /\ lf \in BOOLEAN
    BY Zenon
  <2> HIDE DEF a, fl, lf
  <2>4. i \in InfoType
    BY <2>2, <2>3, Zenon DEF InfoType
  <2> HIDE DEF i
  <2> QED BY <2>1, <2>4, SaveRestores
<1>3. ASSUME NEW t \in Slits, NEW on \in BOOLEAN, do_slit_float(t, on)
      PROVE  Restored(s)
  <2> DEFINE a == IF on THEN 0 ELSE info[t].auto_hide
             i == [info[t] EXCEPT !.floating = on, !.hidden = FALSE, !.auto_hide = a]
  <2>1. SaveState(t, i)
    BY <1>3, Zenon DEF do_slit_float
  <2>2. info[t] \in InfoType
    BY DEF SlitInv, TypeInv
  <2>3. a \in {0, Strip}
    BY <2>2, InfoFields
  <2> HIDE DEF a
  <2>4. i \in InfoType
    BY <2>2, <2>3, Zenon DEF InfoType
  <2> HIDE DEF i
  <2> QED BY <2>1, <2>4, SaveRestores
<1>4. ASSUME NEW t \in Slits, NEW edge \in Edges, do_slit_align(t, edge)
      PROVE  Restored(s)
  <2> DEFINE i == [info[t] EXCEPT !.align = edge]
  <2>1. SaveState(t, i) /\ i \in InfoType
    BY <1>4 DEF do_slit_align, SlitInv, TypeInv, InfoType
  <2> HIDE DEF i
  <2> QED BY <2>1, SaveRestores
<1>5. CASE Run \/ (\E edge \in Edges : phase = "running" /\ Restart(edge)) \/ UNCHANGED slit_vars
  <2>1. UNCHANGED registry
    BY <1>5 DEF Run, Restart, slit_vars
  <2> QED BY <1>1, <2>1
<1>6. ASSUME NEW k \in Kids,
             KidCreated(k) \/ KidDestroyed(k) \/ \E sz \in Sizes : KidResizes(k, sz)
      PROVE  UNCHANGED registry
  BY <1>6 DEF KidCreated, KidDestroyed, KidResizes
<1>7. ASSUME NEW t \in Slits,
             \/ slit_set_config(t) \/ TimerTick(t) \/ MouseOnKid(t) \/ MouseOnSlit(t)
             \/ MouseLeaves(t) \/ Deactivated(t) \/ Activated(t) \/ DisplayChange(t)
             \/ ChildResized(t)
      PROVE  UNCHANGED registry
  BY <1>7 DEF slit_set_config, TimerTick, MouseOnKid, MouseOnSlit, MouseLeaves,
              Deactivated, Activated, DisplayChange, ChildResized
<1> QED BY <1>1, <1>2, <1>3, <1>4, <1>5, <1>6, <1>7 DEF NextSlit

(* A restart restores what a command saved: what the registry gets is, as  *)
(* create_new_slit reads it back, what the slit has after the command,     *)
(* although save_slit_state writes it before the command corrects it.      *)
THEOREM SavedAlwaysRestored == SpecSlit => SavedIsRestored
<1>1. SlitInv /\ [NextSlit]_slit_vars =>
         [\A s \in Named : registry'[s] # registry[s] =>
             Settings(Loaded(registry'[s])) = Settings(info'[s])]_slit_vars
  BY StepRestores DEF Restored
<1> QED BY <1>1, SlitInvariance, PTL DEF SpecSlit, SavedIsRestored
=============================================================================
