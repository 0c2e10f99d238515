--------------------------- MODULE OverlaysProofs ---------------------------
(***************************************************************************)
(* Proof, for any windows, workspaces, keys and capture threads, that the  *)
(* overview stays sound (OverviewIsSound), as long as its hot key does not *)
(* come in a pump of close_overview ("mash", with which it is false), and  *)
(* in the second part that the task switcher comes to what the keys meant  *)
(* (SelectsMeant), as long as no key overtakes what comes from an earlier. *)
(*                                                                         *)
(* close_overview runs the handlers of everything else in its pumps, also  *)
(* itself.  What carries through is that its windows have gone before the  *)
(* first pump (Gone), so that neither the timer nor a click finds any, and *)
(* that no hot key waits behind it (NoShow): then there is at most one     *)
(* thread, the one whose handle is kept and waited for (OneThread), and    *)
(* all structures but the last one are deleted (Old).                      *)
(***************************************************************************)
EXTENDS Overlays, SequenceTheorems, FiniteSetTheorems, TLAPS

\* A sequence, of whatever it holds.
AnySeq(s) == s \in Seq({s[i] : i \in DOMAIN s})
Has(s, proc) == \E i \in DOMAIN s : s[i].proc = proc

THREAD == [id : Nat, phase : {"start", "capture", "update"}, mon : Nat, left : Int]
Types ==
    /\ AnySeq(queue) /\ AnySeq(stack)
    /\ last \in Nat /\ made \in Nat /\ threads \subseteq THREAD
NoShow == \A i \in DOMAIN queue : queue[i].kind = "show" => i = 1 /\ ~Closing
Gone == Closing => monitors \notin wnds
Old ==
    /\ monitors = 0 \/ (monitors = last /\ last # 0)
    /\ wnds \subseteq {monitors} \ {0}
    /\ freed = (1..last) \ {monitors}
OneThread ==
    /\ \A t \in threads : t.id = update_thread /\ t.mon \in {0, monitors}
    /\ \A t, u \in threads : t = u
    /\ monitors = 0 => threads = {}
Current == monitors # 0 /\ shown_desk # desk => Closing

IInv == Types /\ NoShow /\ Gone /\ Old /\ OneThread /\ Current

-----------------------------------------------------------------------------
(* Sequences.                                                              *)
LEMMA AnySeqFacts ==
    ASSUME NEW s, AnySeq(s)
    PROVE  /\ Len(s) \in Nat /\ DOMAIN s = 1..Len(s)
           /\ \A e : /\ AnySeq(Append(s, e)) /\ DOMAIN Append(s, e) = DOMAIN s \cup {Len(s) + 1}
                     /\ \A i \in DOMAIN s : Append(s, e)[i] = s[i]
                     /\ Append(s, e)[Len(s) + 1] = e
PROOF
<1>1. Len(s) \in Nat /\ DOMAIN s = 1..Len(s)
    BY LenProperties DEF AnySeq
<1>2. ASSUME NEW e
      PROVE  /\ AnySeq(Append(s, e)) /\ DOMAIN Append(s, e) = DOMAIN s \cup {Len(s) + 1}
             /\ \A i \in DOMAIN s : Append(s, e)[i] = s[i]
             /\ Append(s, e)[Len(s) + 1] = e
    <2>. DEFINE S == {s[i] : i \in DOMAIN s}
                T == S \cup {e}
                a == Append(s, e)
    <2>1. s \in Seq(S)
        BY DEF AnySeq
    <2>. HIDE DEF S
    <2>2. s \in Seq(T) /\ e \in T
        BY <2>1, SeqMonotonic
    <2>. HIDE DEF T
    <2>3. /\ a \in Seq(T) /\ Len(a) = Len(s) + 1
          /\ \A i \in 1..Len(s) : a[i] = s[i]
          /\ a[Len(s) + 1] = e
        BY <2>2, AppendProperties
    <2>. HIDE DEF a
    <2>4. a \in [1..Len(a) -> T] /\ DOMAIN a = 1..Len(a) /\ Len(a) \in Nat
        BY <2>3, LenProperties
    <2>5. AnySeq(a)
        <3>1. a = [i \in 1..Len(a) |-> a[i]] /\ \A i \in 1..Len(a) : a[i] \in {a[j] : j \in DOMAIN a}
            BY <2>4
        <3>2. a \in [1..Len(a) -> {a[j] : j \in DOMAIN a}]
            BY <3>1
        <3>. QED
            BY <3>2, <2>4, SeqDef DEF AnySeq
    <2>. QED
        BY <2>3, <2>4, <2>5, <1>1 DEF a
<1>. QED
    BY <1>1, <1>2

LEMMA TailFacts ==
    ASSUME NEW s, AnySeq(s), s # <<>>
    PROVE  /\ AnySeq(Tail(s)) /\ Head(s) = s[1] /\ 1 \in DOMAIN s
           /\ \A i \in DOMAIN Tail(s) : i \in Nat \ {0} /\ i + 1 \in DOMAIN s /\ Tail(s)[i] = s[i + 1]
           /\ \A proc : Has(s, proc) <=> Head(s).proc = proc \/ Has(Tail(s), proc)
PROOF
<1>. DEFINE S == {s[i] : i \in DOMAIN s}
            t == Tail(s)
<1>1. s \in Seq(S)
    BY DEF AnySeq
<1>. HIDE DEF S
<1>2. /\ t \in Seq(S) /\ Len(t) = Len(s) - 1 /\ Head(s) = s[1]
      /\ \A i \in 1..Len(t) : t[i] = s[i + 1]
    BY <1>1, HeadTailProperties, EmptySeq
<1>. HIDE DEF t
<1>3. /\ Len(s) \in Nat /\ Len(s) > 0 /\ DOMAIN s = 1..Len(s)
      /\ t \in [1..Len(t) -> S] /\ DOMAIN t = 1..Len(t) /\ Len(t) \in Nat
    BY <1>1, <1>2, LenProperties, EmptySeq
<1>4. AnySeq(t)
    <2>1. t = [i \in 1..Len(t) |-> t[i]] /\ \A i \in 1..Len(t) : t[i] \in {t[j] : j \in DOMAIN t}
        BY <1>3
    <2>2. t \in [1..Len(t) -> {t[j] : j \in DOMAIN t}]
        BY <2>1
    <2>. QED
        BY <2>2, <1>3, SeqDef DEF AnySeq
<1>5. \A i \in DOMAIN t : i \in Nat \ {0} /\ i + 1 \in DOMAIN s /\ t[i] = s[i + 1]
    BY <1>2, <1>3
<1>6. ASSUME NEW proc
      PROVE  Has(s, proc) <=> Head(s).proc = proc \/ Has(t, proc)
    <2>1. ASSUME NEW i \in DOMAIN s, s[i].proc = proc, i # 1 PROVE Has(t, proc)
        <3>1. i - 1 \in DOMAIN t /\ t[i - 1] = s[(i - 1) + 1] /\ (i - 1) + 1 = i
            BY <2>1, <1>2, <1>3
        <3>. QED
            BY <2>1, <3>1 DEF Has
    <2>2. Has(s, proc) => Head(s).proc = proc \/ Has(t, proc)
        BY <2>1, <1>2 DEF Has
    <2>3. Head(s).proc = proc \/ Has(t, proc) => Has(s, proc)
        BY <1>2, <1>3, <1>5 DEF Has
    <2>. QED
        BY <2>2, <2>3
<1>. QED
    BY <1>2, <1>3, <1>4, <1>5, <1>6 DEF t

LEMMA PushFacts ==
    ASSUME NEW s, AnySeq(s), NEW f
    PROVE  /\ AnySeq(<<f>> \o s)
           /\ \A proc : Has(<<f>> \o s, proc) <=> f.proc = proc \/ Has(s, proc)
PROOF
<1>. DEFINE S == {s[i] : i \in DOMAIN s}
            T == S \cup {f}
            t == <<f>> \o s
<1>1. s \in Seq(S)
    BY DEF AnySeq
<1>. HIDE DEF S
<1>2. s \in Seq(T) /\ f \in T
    BY <1>1, SeqMonotonic
<1>. HIDE DEF T
<1>3. <<f>> \in Seq(T) /\ Len(<<f>>) = 1 /\ <<f>>[1] = f
    BY <1>2
<1>4. /\ t \in Seq(T) /\ Len(t) = 1 + Len(s)
      /\ \A i \in 1..Len(t) : t[i] = IF i <= 1 THEN <<f>>[i] ELSE s[i - 1]
    BY <1>2, <1>3, ConcatProperties
<1>. HIDE DEF t
<1>5. /\ Len(s) \in Nat /\ DOMAIN s = 1..Len(s)
      /\ t \in [1..Len(t) -> T] /\ DOMAIN t = 1..Len(t) /\ Len(t) \in Nat
    BY <1>2, <1>4, LenProperties
<1>6. AnySeq(t)
    <2>1. t = [i \in 1..Len(t) |-> t[i]] /\ \A i \in 1..Len(t) : t[i] \in {t[j] : j \in DOMAIN t}
        BY <1>5
    <2>2. t \in [1..Len(t) -> {t[j] : j \in DOMAIN t}]
        BY <2>1
    <2>. QED
        BY <2>2, <1>5, SeqDef DEF AnySeq
<1>7. t[1] = f /\ 1 \in DOMAIN t
    BY <1>3, <1>4, <1>5
<1>8. \A i \in DOMAIN s : i + 1 \in DOMAIN t /\ t[i + 1] = s[i]
    BY <1>4, <1>5
<1>9. \A i \in DOMAIN t : i # 1 => i - 1 \in DOMAIN s /\ t[i] = s[i - 1]
    BY <1>4, <1>5
<1>10. ASSUME NEW proc
      PROVE  Has(t, proc) <=> f.proc = proc \/ Has(s, proc)
    BY <1>7, <1>8, <1>9 DEF Has
<1>. QED
    BY <1>6, <1>10 DEF t

\* The frame on top goes on, in the same function.
LEMMA SameProc ==
    ASSUME NEW s, AnySeq(s), s # <<>>, NEW at
    PROVE  LET t == [s EXCEPT ![1].at = at] IN
           AnySeq(t) /\ \A proc : Has(t, proc) <=> Has(s, proc)
PROOF
<1>. DEFINE t == [s EXCEPT ![1].at = at]
<1>1. Len(s) \in Nat /\ DOMAIN s = 1..Len(s) /\ 1 \in DOMAIN s
    BY AnySeqFacts, TailFacts
<1>2. /\ DOMAIN t = 1..Len(s) /\ t = [i \in 1..Len(s) |-> t[i]]
      /\ \A i \in DOMAIN s : t[i] = IF i = 1 THEN [s[1] EXCEPT !.at = at] ELSE s[i]
    BY <1>1 DEF AnySeq
<1>4. [s[1] EXCEPT !.at = at].proc = s[1].proc
    OBVIOUS
<1>. HIDE DEF t
<1>3. AnySeq(t)
    <2>1. t = [i \in 1..Len(s) |-> t[i]] /\ \A i \in 1..Len(s) : t[i] \in {t[j] : j \in DOMAIN t}
        BY <1>2
    <2>2. t \in [1..Len(s) -> {t[j] : j \in DOMAIN t}]
        BY <2>1
    <2>3. \A S : t \in [1..Len(s) -> S] => t \in Seq(S)
        BY <1>1, SeqDef
    <2>. QED
        BY <2>2, <2>3 DEF AnySeq
<1>5. \A proc : Has(t, proc) <=> Has(s, proc)
    BY <1>1, <1>2, <1>4 DEF Has
<1>. QED
    BY <1>3, <1>5 DEF t

-----------------------------------------------------------------------------
(* The two kinds of steps that most are: those that leave the overview     *)
(* alone, and those that close it.                                         *)
NoneShown(q) == \A i \in DOMAIN q : q[i].kind # "show"

LEMMA ClosingIs == Closing <=> Has(stack, "close_overview")
PROOF
<1>. QED
    BY DEF Closing, InStack, Has

LEMMA OthersKeep ==
    ASSUME IInv, UNCHANGED <<overview, desk>>, AnySeq(queue'), AnySeq(stack'),
           Closing' <=> Closing, NoShow'
    PROVE  IInv'
PROOF
<1>1. Types' /\ Gone' /\ Old' /\ OneThread' /\ Current'
    BY DEF IInv, Types, Gone, Old, OneThread, Current, overview
<1>. QED
    BY <1>1 DEF IInv

LEMMA NextItemFacts ==
    ASSUME NEW t \in THREAD, NEW u \in NextItem(t)
    PROVE  u \in THREAD /\ u.id = t.id /\ u.mon = t.mon
PROOF
<1>1. u = [t EXCEPT !.phase = "capture", !.left = t.left - 1]
    BY DEF NextItem
<1>2. t.left - 1 \in Int
    BY DEF THREAD
<1>3. u = [id |-> t.id, phase |-> "capture", mon |-> t.mon, left |-> t.left - 1]
    BY <1>1 DEF THREAD
<1>. QED
    BY <1>2, <1>3 DEF THREAD

LEMMA CloseKeeps ==
    ASSUME IInv, NEW to, NEW s, AnySeq(s), close_overview(to, s),
           AnySeq(queue'), NoneShown(queue')
    PROVE  IInv'
PROOF
<1>1. stack' = <<Frame("close_overview", "pump", to, NoMeaning)>> \o s
    BY DEF close_overview
<1>2. AnySeq(stack') /\ Has(stack', "close_overview")
    <2>1. Frame("close_overview", "pump", to, NoMeaning).proc = "close_overview"
        BY DEF Frame
    <2>. QED
        BY <1>1, <2>1, PushFacts
<1>3. Closing'
    BY <1>2 DEF Closing, InStack, Has
<1>4. UNCHANGED <<monitors, last, items, shown_desk, freed, update_thread, made>>
    BY DEF close_overview
<1>5. wnds' = wnds \ {monitors}
    BY DEF close_overview, DestroyWindows
<1>6. OneThread' /\ threads' \subseteq THREAD
    <2>. DEFINE waits == {t \in threads : t.phase = "update" /\ t.mon = monitors}
    <2>1. threads' = (threads \ waits) \cup UNION {NextItem(t) : t \in waits}
        BY DEF close_overview, DestroyWindows
    <2>2. \A t \in threads' : t \in THREAD /\ \E u \in threads : t.id = u.id /\ t.mon = u.mon
        <3>1. ASSUME NEW u \in waits, NEW t \in NextItem(u)
              PROVE  t \in THREAD /\ t.id = u.id /\ t.mon = u.mon
            BY NextItemFacts DEF IInv, Types
        <3>2. threads \subseteq THREAD
            BY DEF IInv, Types
        <3>. QED
            BY <2>1, <3>1, <3>2
    <2>3. \A t, u \in threads' : t = u
        <3>1. \A t, u \in threads : t = u
            BY DEF IInv, OneThread
        <3>2. CASE waits = {}
            BY <2>1, <3>1, <3>2
        <3>3. CASE waits # {}
            <4>1. PICK u \in waits : TRUE
                BY <3>3
            <4>2. threads = {u} /\ waits = {u}
                BY <3>1, <4>1
            <4>3. threads' = NextItem(u)
                BY <2>1, <4>2
            <4>. QED
                BY <4>3 DEF NextItem
        <3>. QED
            BY <3>2, <3>3
    <2>. QED
        BY <2>2, <2>3, <1>4 DEF IInv, OneThread
<1>7. Types'
    BY <1>2, <1>4, <1>6 DEF IInv, Types
<1>8. NoShow'
    BY DEF NoShow, NoneShown
<1>9. Old'
    BY <1>4, <1>5 DEF IInv, Old
<1>10. Gone' /\ Current'
    BY <1>3, <1>4, <1>5 DEF Gone, Current
<1>. QED
    BY <1>6, <1>7, <1>8, <1>9, <1>10 DEF IInv

\* A step whose message is another one finds no hot key of the overview behind it.
LEMMA AtHead ==
    ASSUME IInv, queue # <<>>, Head(queue).kind # "show"
    PROVE  AnySeq(Tail(queue)) /\ NoneShown(Tail(queue)) /\ NoneShown(queue)
PROOF
<1>1. AnySeq(Tail(queue)) /\ Head(queue) = queue[1]
    /\ \A i \in DOMAIN Tail(queue) : i \in Nat \ {0} /\ i + 1 \in DOMAIN queue
                                     /\ Tail(queue)[i] = queue[i + 1]
    BY TailFacts DEF IInv, Types
<1>2. NoneShown(queue)
    BY <1>1 DEF IInv, NoShow, NoneShown
<1>. QED
    BY <1>1, <1>2 DEF NoneShown

\* Messages of other kinds are added.
LEMMA Added ==
    ASSUME NEW q, AnySeq(q), NEW kind, kind # "show", NEW arg
    PROVE  /\ AnySeq(Append(q, Message(kind, arg)))
           /\ NoneShown(q) => NoneShown(Append(q, Message(kind, arg)))
           /\ \A i \in DOMAIN Append(q, Message(kind, arg)) :
                 Append(q, Message(kind, arg))[i].kind = "show" =>
                    i \in DOMAIN q /\ q[i].kind = "show"
PROOF
<1>. DEFINE m == Message(kind, arg)
            t == Append(q, m)
<1>1. /\ AnySeq(t) /\ DOMAIN t = DOMAIN q \cup {Len(q) + 1}
      /\ \A i \in DOMAIN q : t[i] = q[i]
      /\ t[Len(q) + 1] = m
    BY AnySeqFacts
<1>2. m.kind # "show"
    BY DEF Message
<1>. HIDE DEF t, m
<1>3. \A i \in DOMAIN t : t[i].kind = "show" => i \in DOMAIN q /\ q[i].kind = "show"
    BY <1>1, <1>2
<1>. QED
    BY <1>1, <1>3 DEF NoneShown, t, m

-----------------------------------------------------------------------------
(* The task switcher, and what the user does to either.                    *)

\* A step of the switcher that adds messages of its own and pushes no pump.
LEMMA SwitcherKeeps ==
    ASSUME IInv, UNCHANGED <<overview, desk, stack>>, AnySeq(queue'),
           \A i \in DOMAIN queue' : queue'[i].kind = "show" =>
                i \in DOMAIN queue /\ queue[i].kind = "show"
    PROVE  IInv'
PROOF
<1>1. Closing' <=> Closing
    BY DEF Closing, InStack
<1>2. NoShow'
    BY <1>1 DEF NoShow, IInv
<1>3. AnySeq(stack')
    BY DEF IInv, Types
<1>. QED
    BY <1>1, <1>2, <1>3, OthersKeep

LEMMA KeyProcKeeps == IInv /\ KeyProc /\ UNCHANGED overview => IInv'
PROOF
<1>. SUFFICES ASSUME IInv, KeyProc, UNCHANGED overview PROVE IInv'
    OBVIOUS
<1>0. AnySeq(queue)
    BY DEF IInv, Types
<1>1. ASSUME UNCHANGED <<stack, desk>>, NEW kind, kind # "show", NEW arg,
             queue' = Append(queue, Message(kind, arg))
      PROVE  IInv'
    BY <1>0, <1>1, Added, SwitcherKeeps
<1>2. ASSUME UNCHANGED <<stack, desk, queue>>
      PROVE  IInv'
    BY <1>0, <1>2, SwitcherKeeps
<1>3. ASSUME UNCHANGED <<stack, desk>>, Unstuck(queue)
      PROVE  IInv'
    BY <1>1, <1>2, <1>3 DEF Unstuck, Post
<1>4. CASE AltDown \/ ShiftDown \/ AltUpLost
    BY <1>2, <1>4 DEF AltDown, ShiftDown, AltUpLost, mainthread
<1>5. CASE TabDown
    BY <1>1, <1>5 DEF TabDown, Notify, Post
<1>6. CASE EscapeDown
    BY <1>1, <1>6 DEF EscapeDown, Notify, Post
<1>7. CASE EnterUp
    <2>1. UNCHANGED <<stack, desk>> /\ Unstuck(Post(queue, "desk", NoMeaning))
        BY <1>7 DEF EnterUp
    <2>. DEFINE q == Append(queue, Message("desk", NoMeaning))
    <2>2. /\ AnySeq(q)
          /\ \A i \in DOMAIN q : q[i].kind = "show" => i \in DOMAIN queue /\ queue[i].kind = "show"
        BY <1>0, Added
    <2>3. queue' = q \/ queue' = Append(q, Message("cancel", NoMeaning))
        BY <2>1 DEF Unstuck, Post
    <2>. HIDE DEF q
    <2>4. /\ AnySeq(Append(q, Message("cancel", NoMeaning)))
          /\ \A i \in DOMAIN Append(q, Message("cancel", NoMeaning)) :
                Append(q, Message("cancel", NoMeaning))[i].kind = "show" =>
                    i \in DOMAIN q /\ q[i].kind = "show"
        BY <2>2, Added
    <2>. QED
        BY <2>1, <2>2, <2>3, <2>4, SwitcherKeeps
<1>8. CASE ShiftUp
    BY <1>3, <1>8 DEF ShiftUp
<1>9. CASE OtherUp
    BY <1>3, <1>9 DEF OtherUp
<1>10. CASE AltUp
    BY <1>1, <1>2, <1>10 DEF AltUp, Post
<1>. QED
    BY <1>4, <1>5, <1>6, <1>7, <1>8, <1>9, <1>10 DEF KeyProc

\* Functions other than close_overview come and go.
LEMMA StackKeeps ==
    ASSUME IInv, UNCHANGED <<overview, desk>>, AnySeq(queue'), AnySeq(stack'),
           Has(stack', "close_overview") <=> Has(stack, "close_overview"),
           NoneShown(queue') \/ queue' = queue
    PROVE  IInv'
PROOF
<1>1. Closing' <=> Closing
    BY DEF Closing, InStack, Has
<1>2. NoShow'
    BY <1>1 DEF NoShow, NoneShown, IInv
<1>. QED
    BY <1>1, <1>2, OthersKeep

LEMMA SwitchFacts ==
    ASSUME NEW d, NEW s, AnySeq(s)
    PROVE  /\ AnySeq(SwitchDesktop(d, s))
           /\ Has(SwitchDesktop(d, s), "close_overview") <=> Has(s, "close_overview")
PROOF
<1>1. Frame("switch_desktop", "pump", d, NoMeaning).proc = "switch_desktop"
    BY DEF Frame
<1>. QED
    BY <1>1, PushFacts DEF SwitchDesktop

LEMMA SelectFacts ==
    ASSUME AnySeq(stack), NEW i, NEW meant, do_select(i, meant)
    PROVE  /\ AnySeq(stack')
           /\ Has(stack', "close_overview") <=> Has(stack, "close_overview")
           /\ desk' = desk
PROOF
<1>. DEFINE s == <<Frame("do_select", "switched", i, meant)>> \o stack
<1>1. Frame("do_select", "switched", i, meant).proc = "do_select"
    BY DEF Frame
<1>2. AnySeq(s) /\ (Has(s, "close_overview") <=> Has(stack, "close_overview"))
    BY <1>1, PushFacts
<1>3. stack' = SwitchDesktop(ts_desk + 1, s) \/ stack' = s
    BY DEF do_select
<1>. HIDE DEF s
<1>. QED
    BY <1>2, <1>3, SwitchFacts DEF do_select

LEMMA SwitcherSteps ==
    IInv /\ (OnSwitchMessage \/ Select \/ FinishSelect \/ ClickTask) /\ UNCHANGED overview
      => IInv'
PROOF
<1>. SUFFICES ASSUME IInv, UNCHANGED overview,
                     OnSwitchMessage \/ Select \/ FinishSelect \/ ClickTask
              PROVE  IInv'
    OBVIOUS
<1>0. AnySeq(queue) /\ AnySeq(stack)
    BY DEF IInv, Types
<1>1. CASE OnSwitchMessage
    <2>1. queue # <<>> /\ Head(queue).kind # "show" /\ queue' = Tail(queue)
          /\ UNCHANGED <<stack, desk>>
        BY <1>1 DEF OnSwitchMessage, Receives
    <2>. QED
        BY <2>1, <1>0, AtHead, StackKeeps
<1>2. CASE Select
    <2>1. queue # <<>> /\ Head(queue).kind # "show" /\ queue' = Tail(queue)
          /\ do_select(task_index, Head(queue).arg)
        BY <1>2 DEF Select, Receives
    <2>. QED
        BY <2>1, <1>0, AtHead, SelectFacts, StackKeeps
<1>3. CASE FinishSelect
    <2>1. stack # <<>> /\ Head(stack).proc = "do_select" /\ stack' = Tail(stack)
          /\ UNCHANGED <<queue, desk>>
        BY <1>3 DEF FinishSelect, Running
    <2>. QED
        BY <2>1, <1>0, TailFacts, StackKeeps
<1>4. CASE ClickTask
    <2>1. UNCHANGED queue /\ \E i \in DOMAIN task_list : do_select(i - 1, i - 1)
        BY <1>4 DEF ClickTask
    <2>. QED
        BY <2>1, <1>0, SelectFacts, StackKeeps
<1>. QED
    BY <1>1, <1>2, <1>3, <1>4

-----------------------------------------------------------------------------
(* Hot keys, and the change of workspace.                                  *)
LEMMA ShowKeyKeeps == "mash" \notin World /\ IInv /\ ShowKey => IInv'
PROOF
<1>. SUFFICES ASSUME "mash" \notin World, IInv, ShowKey PROVE IInv'
    OBVIOUS
<1>1. /\ queue = <<>> /\ ~Closing
      /\ queue' = Append(queue, Message("show", NoMeaning))
      /\ UNCHANGED <<stack, desk, overview>>
    BY DEF ShowKey
<1>2. /\ AnySeq(queue') /\ AnySeq(stack') /\ DOMAIN queue' = DOMAIN queue \cup {1}
      /\ DOMAIN queue = {}
    <2>1. AnySeq(queue) /\ AnySeq(stack)
        BY DEF IInv, Types
    <2>2. Len(queue) = 0
        BY <1>1
    <2>3. DOMAIN queue = 1..Len(queue)
        BY <2>1, AnySeqFacts
    <2>4. DOMAIN queue = {}
        BY <2>2, <2>3
    <2> DEFINE e == Message("show", NoMeaning)
    <2>5. AnySeq(Append(queue, e)) /\ DOMAIN Append(queue, e) = DOMAIN queue \cup {Len(queue) + 1}
        <3> HIDE DEF e
        <3>. QED
            BY <2>1, AnySeqFacts
    <2>6. queue' = Append(queue, e) /\ stack' = stack
        BY <1>1
    <2>7. Len(queue) + 1 = 1
        BY <2>2
    <2>. QED
        BY <2>1, <2>4, <2>5, <2>6, <2>7
<1>3. Closing' <=> Closing
    BY <1>1 DEF Closing, InStack
<1>4. NoShow'
    BY <1>1, <1>2, <1>3 DEF NoShow
<1>. QED
    BY <1>1, <1>2, <1>3, <1>4, OthersKeep

LEMMA DeskKeyKeeps == IInv /\ DeskKey => IInv'
PROOF
<1>. SUFFICES ASSUME IInv, DeskKey PROVE IInv'
    OBVIOUS
<1>1. PICK d : queue' = Append(queue, Message("goto", d))
    BY DEF DeskKey
<1>. QED
    BY <1>1, Added, SwitcherKeeps DEF DeskKey, IInv, Types

LEMMA OnDeskKeyKeeps == IInv /\ OnDeskKey => IInv'
PROOF
<1>. SUFFICES ASSUME IInv, OnDeskKey PROVE IInv'
    OBVIOUS
<1>1. /\ queue # <<>> /\ Head(queue).kind # "show" /\ queue' = Tail(queue)
      /\ stack' = SwitchDesktop(Head(queue).arg, stack)
      /\ UNCHANGED <<overview, desk>>
    BY DEF OnDeskKey, Receives
<1>. QED
    BY <1>1, AtHead, SwitchFacts, StackKeeps DEF IInv, Types

LEMMA OnHotkeyKeeps == IInv /\ OnHotkey => IInv'
PROOF
<1>. SUFFICES ASSUME IInv, OnHotkey PROVE IInv'
    OBVIOUS
<1>1. /\ queue # <<>> /\ Head(queue).kind # "show"
      /\ \/ queue' = Tail(queue) /\ UNCHANGED <<stack, overview>>
         \/ NotifyActivate(Head(queue).arg)
      /\ UNCHANGED desk
    BY DEF OnHotkey, Receives
<1>2. AnySeq(Tail(queue)) /\ NoneShown(Tail(queue))
    BY <1>1, AtHead
<1>3. CASE queue' = Tail(queue) /\ UNCHANGED <<stack, overview>>
    BY <1>1, <1>2, <1>3, StackKeeps DEF IInv, Types
<1>4. CASE NotifyActivate(Head(queue).arg)
    <2>1. /\ queue' = Append(Tail(queue), Message("activate", Head(queue).arg))
          /\ close_overview(NoWindow, stack)
        BY <1>4 DEF NotifyActivate
    <2>2. AnySeq(queue') /\ NoneShown(queue')
        BY <2>1, <1>2, Added
    <2>. QED
        BY <2>1, <2>2, CloseKeeps DEF IInv, Types
<1>. QED
    BY <1>1, <1>3, <1>4

LEMMA EmptyShowsNone == NoneShown(<<>>)
PROOF
<1>. QED
    BY DEF NoneShown

LEMMA SwitchEndsKeeps == IInv /\ SwitchEnds => IInv'
PROOF
<1>. SUFFICES ASSUME IInv, SwitchEnds PROVE IInv'
    OBVIOUS
<1>1. /\ stack # <<>> /\ queue = <<>> /\ queue' = queue
      /\ close_overview(NoWindow, Tail(stack))
    BY DEF SwitchEnds, Drained, Running, OnDesktopSwitched
<1>2. AnySeq(Tail(stack)) /\ AnySeq(queue')
    BY <1>1, TailFacts DEF IInv, Types
<1>. QED
    BY <1>1, <1>2, EmptyShowsNone, CloseKeeps

-----------------------------------------------------------------------------
(* The overview itself.                                                    *)
LEMMA ShowKeeps == IInv /\ show_overview => IInv'
PROOF
<1>. SUFFICES ASSUME IInv, show_overview PROVE IInv'
    OBVIOUS
<1>1. /\ queue # <<>> /\ Head(queue).kind = "show" /\ queue' = Tail(queue)
      /\ UNCHANGED <<desk, zorder, keys>>
    BY DEF show_overview, Receives
<1>2. /\ AnySeq(queue') /\ Head(queue) = queue[1] /\ 1 \in DOMAIN queue
      /\ \A i \in DOMAIN queue' : i \in Nat \ {0} /\ i + 1 \in DOMAIN queue
                                  /\ queue'[i] = queue[i + 1]
    BY <1>1, TailFacts DEF IInv, Types
<1>3. ~Closing /\ NoneShown(queue')
    BY <1>1, <1>2 DEF IInv, NoShow, NoneShown
<1>4. AnySeq(stack)
    BY DEF IInv, Types
<1>5. CASE monitors # 0
    <2>1. close_overview(NoWindow, stack)
        BY <1>5 DEF show_overview
    <2>. QED
        BY <2>1, <1>2, <1>3, <1>4, CloseKeeps
<1>6. CASE monitors = 0
    <2>1. /\ ~Runs(update_thread)
          /\ last' = last + 1 /\ monitors' = last' /\ shown_desk' = desk
          /\ wnds' = wnds \cup {last'}
          /\ CreateThread(threads)
          /\ UNCHANGED <<freed, stack>>
        BY <1>6 DEF show_overview
    <2>2. /\ threads = {} /\ wnds = {} /\ freed = 1..last /\ last \in Nat /\ made \in Nat
        BY <1>6 DEF IInv, OneThread, Old, Types
    <2>3. made' = made + 1 /\ update_thread' = made' /\ threads' = {Thread(made', "start", 0, 0)}
        BY <2>1, <2>2 DEF CreateThread
    <2>4. Thread(made', "start", 0, 0) \in THREAD /\ Thread(made', "start", 0, 0).id = made'
          /\ Thread(made', "start", 0, 0).mon = 0
        BY <2>2, <2>3 DEF Thread, THREAD
    <2>5. Closing' <=> Closing
        BY <2>1 DEF Closing, InStack
    <2>6. Types'
        BY <2>1, <2>2, <2>3, <2>4, <1>2, <1>4 DEF Types
    <2>7. NoShow' /\ Gone'
        BY <2>5, <1>3 DEF NoShow, NoneShown, Gone
    <2>8. Old'
        BY <2>1, <2>2 DEF Old
    <2>9. OneThread'
        BY <2>1, <2>2, <2>3, <2>4 DEF OneThread
    <2>10. Current'
        BY <2>1, <1>1 DEF Current
    <2>. QED
        BY <2>6, <2>7, <2>8, <2>9, <2>10 DEF IInv
<1>. QED
    BY <1>5, <1>6

LEMMA ClickKeeps == IInv /\ ClickItem => IInv'
PROOF
<1>. SUFFICES ASSUME IInv, ClickItem PROVE IInv'
    OBVIOUS
<1>1. PICK w : close_overview(w, stack)
    BY DEF ClickItem
<1>2. queue = <<>> /\ queue' = queue
    BY DEF ClickItem
<1>. QED
    BY <1>1, <1>2, EmptyShowsNone, CloseKeeps DEF IInv, Types

LEMMA CloseGoesOn == IInv /\ (CloseSwitches \/ CloseWaits) => IInv'
PROOF
<1>. SUFFICES ASSUME IInv, CloseSwitches \/ CloseWaits PROVE IInv'
    OBVIOUS
<1>1. /\ stack # <<>> /\ UNCHANGED <<overview, queue, desk>>
      /\ \E at : stack' = [stack EXCEPT ![1].at = at]
    BY DEF CloseSwitches, CloseWaits, pump, Drained, Running
<1>2. PICK at : stack' = [stack EXCEPT ![1].at = at]
    BY <1>1
<1>3. AnySeq(stack)
    BY DEF IInv, Types
<1> DEFINE t == [stack EXCEPT ![1].at = at]
<1>4. AnySeq(t) /\ \A proc : Has(t, proc) <=> Has(stack, proc)
    BY <1>1, <1>3, SameProc
<1>5. AnySeq(stack') /\ (Has(stack', "close_overview") <=> Has(stack, "close_overview"))
    BY <1>2, <1>4
<1>. QED
    BY <1>1, <1>5, StackKeeps DEF IInv, Types

LEMMA CloseFreesKeeps == IInv /\ CloseFrees => IInv'
PROOF
<1>. SUFFICES ASSUME IInv, CloseFrees PROVE IInv'
    OBVIOUS
<1>1. /\ stack # <<>> /\ Head(stack).proc = "close_overview" /\ ~Runs(update_thread)
      /\ freed' = freed \cup ({monitors} \ {0})
      /\ monitors' = 0 /\ stack' = Tail(stack)
      /\ UNCHANGED <<last, wnds, threads, made, queue>>
    BY DEF CloseFrees, Running, ThreadEnded, Deleted
<1>2. AnySeq(stack') /\ Has(stack, "close_overview")
    BY <1>1, TailFacts DEF IInv, Types
<1>3. Closing /\ NoneShown(queue)
    BY <1>2, ClosingIs DEF IInv, NoShow, NoneShown
<1>4. threads = {}
    BY <1>1 DEF IInv, OneThread, Runs
<1>5. wnds = {} /\ freed' = 1..last
    BY <1>1, <1>3 DEF IInv, Gone, Old, Types
<1>6. Types' /\ NoShow' /\ Gone' /\ OneThread' /\ Current'
    BY <1>1, <1>2, <1>3, <1>4, <1>5
       DEF IInv, Types, NoShow, NoneShown, Gone, OneThread, Current
<1>7. Old'
    BY <1>1, <1>5 DEF Old
<1>. QED
    BY <1>6, <1>7 DEF IInv

\* Steps of the threads, and the timer.
LEMMA ThreadsKeep ==
    ASSUME IInv,
           UNCHANGED <<monitors, last, items, shown_desk, wnds, freed, mainthread>>,
           threads' \subseteq THREAD, made' \in Nat,
           \A t \in threads' : t.id = update_thread' /\ t.mon \in {0, monitors},
           \A t, u \in threads' : t = u,
           monitors = 0 => threads' = {}
    PROVE  IInv'
PROOF
<1>1. Closing' <=> Closing
    BY DEF Closing, InStack, mainthread
<1>2. Types' /\ OneThread'
    BY DEF IInv, Types, OneThread, mainthread
<1>3. NoShow' /\ Gone' /\ Old' /\ Current'
    BY <1>1 DEF IInv, NoShow, Gone, Old, Current, mainthread
<1>. QED
    BY <1>2, <1>3 DEF IInv

LEMMA TimerKeeps == IInv /\ OnTimer => IInv'
PROOF
<1>. SUFFICES ASSUME IInv, OnTimer PROVE IInv'
    OBVIOUS
<1>1. /\ monitors \in wnds /\ ~Runs(update_thread) /\ CreateThread(threads)
      /\ UNCHANGED <<monitors, last, items, shown_desk, wnds, freed, mainthread>>
    BY DEF OnTimer
<1>2. threads = {} /\ made \in Nat /\ monitors # 0
    BY <1>1 DEF IInv, OneThread, Runs, Types, Old
<1>3. made' = made + 1 /\ update_thread' = made' /\ threads' = {Thread(made', "start", 0, 0)}
    BY <1>1, <1>2 DEF CreateThread
<1>4. Thread(made', "start", 0, 0) \in THREAD /\ Thread(made', "start", 0, 0).id = made'
      /\ Thread(made', "start", 0, 0).mon = 0
    BY <1>2, <1>3 DEF Thread, THREAD
<1>. QED
    BY <1>1, <1>2, <1>3, <1>4, ThreadsKeep

\* One thread is replaced by what comes after it.
LEMMA Replaced ==
    ASSUME IInv, NEW t \in threads, NEW after, threads' = (threads \ {t}) \cup after,
           UNCHANGED <<monitors, last, items, shown_desk, wnds, freed, update_thread, made,
                       mainthread>>,
           after = {} \/ \E u : /\ after = {u} /\ u \in THREAD /\ u.id = t.id
                               /\ u.mon \in {t.mon, monitors}
    PROVE  IInv'
PROOF
<1>1. threads = {t} /\ t.id = update_thread /\ t.mon \in {0, monitors} /\ monitors # 0
    BY DEF IInv, OneThread
<1>2. threads' = after
    BY <1>1
<1>. QED
    BY <1>1, <1>2, ThreadsKeep DEF IInv, Types

LEMMA Next1 ==
    ASSUME NEW t \in THREAD
    PROVE  \/ NextItem(t) = {}
           \/ \E u : NextItem(t) = {u} /\ u \in THREAD /\ u.id = t.id /\ u.mon = t.mon
PROOF
<1>1. NextItem(t) = {} \/ \E u : NextItem(t) = {u}
    BY DEF NextItem
<1>2. ASSUME NEW u, NextItem(t) = {u} PROVE u \in THREAD /\ u.id = t.id /\ u.mon = t.mon
    <2>1. u \in NextItem(t)
        BY <1>2
    <2>. QED
        BY <2>1, NextItemFacts
<1>. QED
    BY <1>1, <1>2

LEMMA PaintedKeeps == IInv /\ Painted => IInv'
PROOF
<1>. SUFFICES ASSUME IInv, Painted PROVE IInv'
    OBVIOUS
<1>1. PICK t \in threads : threads' = (threads \ {t}) \cup NextItem(t)
    BY DEF Painted
<1>2. t \in THREAD
    BY DEF IInv, Types
<1>. QED
    BY <1>1, <1>2, Next1, Replaced DEF Painted

LEMMA CapturesKeep == IInv /\ update_captures => IInv'
PROOF
<1>. SUFFICES ASSUME IInv, update_captures PROVE IInv'
    OBVIOUS
<1>0. /\ UNCHANGED <<monitors, last, items, shown_desk, wnds, freed, update_thread, made,
                     mainthread>>
      /\ threads \subseteq THREAD
    BY DEF update_captures, IInv, Types
<1>1. CASE CollectItems
    <2>1. PICK t \in threads, n \in 0..Cardinality(items) :
            threads' = (threads \ {t}) \cup
              IF monitors \in wnds /\ n > 0 THEN {Thread(t.id, "capture", monitors, n)} ELSE {}
        BY <1>1 DEF CollectItems
    <2>. DEFINE u == Thread(t.id, "capture", monitors, n)
    <2>2. monitors \in Nat
        BY DEF IInv, Types, Old
    <2>3. u \in THREAD /\ u.id = t.id /\ u.mon = monitors
        BY <2>2, <1>0 DEF Thread, THREAD
    <2>. HIDE DEF u
    <2>4. threads' = (threads \ {t}) \cup {u} \/ threads' = (threads \ {t}) \cup {}
        BY <2>1 DEF u
    <2>. QED
        BY <2>3, <2>4, <1>0, Replaced
<1>2. CASE Capture
    <2>1. PICK t \in threads :
            threads' = (threads \ {t}) \cup
              IF t.mon \in wnds THEN {[t EXCEPT !.phase = "update"]} ELSE NextItem(t)
        BY <1>2 DEF Capture
    <2>. DEFINE u == [t EXCEPT !.phase = "update"]
    <2>2. t \in THREAD
        BY <1>0
    <2>3. u \in THREAD /\ u.id = t.id /\ u.mon = t.mon
        BY <2>2 DEF THREAD
    <2>. HIDE DEF u
    <2>4. threads' = (threads \ {t}) \cup {u} \/ threads' = (threads \ {t}) \cup NextItem(t)
        BY <2>1 DEF u
    <2>. QED
        BY <2>2, <2>3, <2>4, <1>0, Next1, Replaced
<1>. QED
    BY <1>1, <1>2 DEF update_captures

-----------------------------------------------------------------------------
(* The invariant.                                                          *)
LEMMA InitHolds == Init => IInv
PROOF
<1>. SUFFICES ASSUME Init PROVE IInv
    OBVIOUS
<1>1. queue = <<>> /\ stack = <<>>
    BY DEF Init, InitMainThread
<1>2. AnySeq(<<>>) /\ DOMAIN <<>> = {}
    BY EmptySeq DEF AnySeq
<1>3. Types
    BY <1>1, <1>2 DEF Init, InitOverview, Types
<1>4. ~Closing /\ NoShow
    BY <1>1, <1>2 DEF Closing, InStack, NoShow
<1>5. Gone /\ Old /\ OneThread /\ Current
    BY <1>4 DEF Init, InitOverview, Gone, Old, OneThread, Current
<1>. QED
    BY <1>3, <1>4, <1>5 DEF IInv

LEMMA StepKeeps == "mash" \notin World /\ IInv /\ [Next]_vars => IInv'
PROOF
<1>. SUFFICES ASSUME "mash" \notin World, IInv, [Next]_vars PROVE IInv'
    OBVIOUS
<1>1. CASE UNCHANGED vars
    <2>1. /\ UNCHANGED <<overview, desk, stack, queue>>
        BY <1>1 DEF vars, mainthread
    <2>. QED
        BY <2>1, StackKeeps DEF IInv, Types
<1>2. CASE User
    BY <1>2, KeyProcKeeps, SwitcherSteps, ClickKeeps, ShowKeyKeeps, DeskKeyKeeps DEF User
<1>3. CASE MainStep
    <2>1. CASE Plugins
        BY <2>1, SwitcherSteps, ShowKeeps, CloseGoesOn, CloseFreesKeeps, PaintedKeeps DEF Plugins
    <2>. QED
        BY <2>1, <1>3, OnDeskKeyKeeps, OnHotkeyKeeps, SwitchEndsKeeps DEF MainStep
<1>4. CASE ThreadStep
    BY <1>4, CapturesKeep DEF ThreadStep
<1>5. CASE OnTimer
    BY <1>5, TimerKeeps
<1>. QED
    BY <1>1, <1>2, <1>3, <1>4, <1>5 DEF Next

\* The inductive invariant holds in every reachable state.
THEOREM Invariance == ASSUME "mash" \notin World PROVE Spec => []IInv
PROOF
<1>1. IInv /\ [Next]_vars => IInv'
    BY StepKeeps
<1>. QED
    BY <1>1, InitHolds, PTL DEF Spec

\* close_overview and update_captures: no thread goes on with a structure that was
\* deleted, an overview that is closed leaves nothing behind, and one that stays
\* open shows the active workspace.
THEOREM OverviewAlwaysSound == ASSUME "mash" \notin World PROVE Spec => []OverviewIsSound
PROOF
<1>1. IInv => OverviewIsSound
    <2>. SUFFICES ASSUME IInv PROVE OverviewIsSound
        OBVIOUS
    <2>1. CapturesLive
        BY DEF IInv, Types, Old, OneThread, CapturesLive
    <2>2. ResourcesFreed
        BY DEF IInv, Types, Old, OneThread, ResourcesFreed
    <2>3. OverviewIsCurrent
        <3>1. stack = <<>> => ~Closing
            BY DEF Closing, InStack
        <3>. QED
            BY <3>1 DEF IInv, Current, OverviewIsCurrent
    <2>. QED
        BY <2>1, <2>2, <2>3 DEF OverviewIsSound
<1>. QED
    BY <1>1, Invariance, PTL

-----------------------------------------------------------------------------
(***************************************************************************)
(* The task switcher: what do_select comes to is what the keys meant.      *)
(*                                                                         *)
(* The keys act at once on walk and the messages later on the list, so an  *)
(* invariant must say where the messages still in the queue will lead      *)
(* (Leads): from the index of now to where the keys are.  The rest says    *)
(* when that counts: after a hot key nothing comes that depends on the     *)
(* list (HotkeysIn), the hot key finds the switcher hidden (HiddenIn), a   *)
(* choice is the last thing posted (ChosenLast), and nothing touches the   *)
(* list between do_select's change of workspace and its end (Choice,       *)
(* Frames).  Fits bounds the workspace that the messages lead to.          *)
(***************************************************************************)
OnlyOf(q, kinds) == \A i \in DOMAIN q : q[i].kind \in kinds
NoneOf(q, kinds) == \A i \in DOMAIN q : q[i].kind \notin kinds
Hiding == {"cancel", "select"}
Showing == {"activate", "desk"}
Hot == {"hotkey", "activate"}
Idle == {"goto", "show"}

HotkeysIn(q, pressed, w) ==
    \A i \in DOMAIN q : q[i].kind \in Hot =>
        /\ pressed /\ w = Step(q[i].arg = 1)
        /\ \A j \in DOMAIN q : j > i => q[j].kind \in Idle

HidesAfter(q, k) == \E i \in DOMAIN q : i > k /\ q[i].kind \in Hiding
HiddenIn(q, shown) ==
    /\ shown => HidesAfter(q, 0)
    /\ \A k \in DOMAIN q : q[k].kind \in Showing => HidesAfter(q, k)

ChosenLast(q) == \A i \in DOMAIN q : q[i].kind = "select" => i = Len(q)

\* Message m takes the walk from a to b.
Follows(m, a, b) ==
    /\ m.kind \in Hot => b = Step(m.arg = 1)
    /\ m.kind = "forward" => b = a + 1
    /\ m.kind = "backward" => b = a - 1
    /\ m.kind = "desk" => b = 0
    /\ m.kind = "select" => b = a /\ m.arg = a
    /\ m.kind \in Idle \cup {"cancel"} => b = a
Leads(q, a, b) ==
    \E g \in [0..Len(q) -> Int] :
        /\ g[0] = a /\ g[Len(q)] = b
        /\ \A i \in DOMAIN q : Follows(q[i], g[i - 1], g[i])

DeskStep(m) == IF m.kind = "desk" THEN 1 ELSE 0
Fits(q, d, n) ==
    \E h \in [0..Len(q) -> Int] :
        /\ h[0] >= d /\ h[0] >= NDesks - 1
        /\ \A i \in 0..Len(q) : h[i] <= n
        /\ \A i \in DOMAIN q : h[i] = h[i - 1] + DeskStep(q[i])

Keys ==
    /\ alt \in BOOLEAN /\ held \in BOOLEAN /\ alttab \in BOOLEAN /\ visible \in BOOLEAN
    /\ shift = held
    /\ keys \in 0..MaxKeys /\ walk \in (-keys)..keys
Lists ==
    /\ zorder \in Seq(Windows) /\ IsInjective(zorder) /\ desk \in 1..NDesks
    /\ task_list \in Seq(Windows) /\ IsInjective(task_list)
    /\ task_list # <<>> => task_index \in 0..(Len(task_list) - 1)
    /\ \A i \in DOMAIN task_list : ts_desk + 1 \in HomeOf[task_list[i]]
    /\ ts_desk \in Int /\ ts_desk >= -1
Hotkeys == HotkeysIn(queue, alttab, walk)
Hidden == ~alttab \/ Waiting("hotkey") => HiddenIn(queue, visible)
Choice == ChosenLast(queue) /\ (InStack("do_select") => OnlyOf(queue, {"show"}))
\* Calls of core_switch_desktop that do_select has made go to its workspace.
FramesIn(s, list, d) ==
    \A k \in DOMAIN s :
        /\ s[k].proc = "switch_desktop" => s[k].arg \in 1..NDesks
        /\ s[k].proc = "do_select" /\ list # <<>> =>
            /\ s[k].arg = s[k].meant % Len(list)
            /\ \A j \in DOMAIN s : j < k /\ s[j].proc = "switch_desktop" => s[j].arg = d
Arrives(s, list, d, active) ==
    Has(s, "do_select") /\ list # <<>> => active = d \/ Has(s, "switch_desktop")
Frames ==
    /\ FramesIn(stack, task_list, ts_desk + 1)
    /\ Arrives(stack, task_list, ts_desk + 1, desk)
Shows == last <= keys /\ (Waiting("show") => last + 1 <= keys)
AtIndex(a) == task_list # <<>> => task_index = a % Len(task_list)
Course == \E a \in Int : AtIndex(a) /\ Leads(queue, a, walk)
Slack == Fits(queue, ts_desk, NDesks - 1 + keys)
OverviewTypes ==
    /\ items \subseteq Windows /\ shown_desk \in 0..NDesks
    /\ update_thread \in 0..made /\ \A t \in threads : t.id \in 1..made

TaskInv ==
    /\ Keys /\ Lists /\ Hotkeys /\ Hidden /\ Choice /\ Frames
    /\ Shows /\ Course /\ Slack /\ OverviewTypes

-----------------------------------------------------------------------------
(* A message more at the end, and one less at the head.                    *)
LEMMA AppendIs ==
    ASSUME NEW q, AnySeq(q), NEW m
    PROVE  /\ AnySeq(Append(q, m)) /\ Len(q) \in Nat /\ Len(Append(q, m)) = Len(q) + 1
           /\ DOMAIN q = 1..Len(q) /\ DOMAIN Append(q, m) = 1..(Len(q) + 1)
           /\ \A i \in 1..Len(q) : Append(q, m)[i] = q[i]
           /\ Append(q, m)[Len(q) + 1] = m
PROOF
<1>. DEFINE t == Append(q, m)
<1>1. /\ AnySeq(t) /\ DOMAIN t = DOMAIN q \cup {Len(q) + 1}
      /\ \A i \in DOMAIN q : t[i] = q[i]
      /\ t[Len(q) + 1] = m
    BY AnySeqFacts
<1>2. Len(q) \in Nat /\ DOMAIN q = 1..Len(q)
    BY AnySeqFacts
<1>. HIDE DEF t
<1>3. Len(t) \in Nat /\ DOMAIN t = 1..Len(t)
    BY <1>1, AnySeqFacts
<1>4. DOMAIN t = 1..(Len(q) + 1)
    BY <1>1, <1>2
<1>5. Len(t) = Len(q) + 1
    <2>1. Len(q) + 1 \in 1..Len(t)
        BY <1>2, <1>3, <1>4
    <2>2. Len(t) \in 1..(Len(q) + 1)
        BY <2>1, <1>3, <1>4
    <2>. DEFINE n == Len(q)
                k == Len(t)
    <2>3. n \in Nat /\ k \in Nat /\ n + 1 \in 1..k /\ k \in 1..(n + 1)
        BY <1>2, <1>3, <2>1, <2>2
    <2>. HIDE DEF n, k
    <2>4. k = n + 1
        BY <2>3
    <2>. QED
        BY <2>4 DEF n, k
<1>. QED
    BY <1>1, <1>2, <1>4, <1>5 DEF t

LEMMA TailIs ==
    ASSUME NEW q, AnySeq(q), q # <<>>
    PROVE  /\ AnySeq(Tail(q)) /\ Len(q) \in Nat \ {0} /\ Len(Tail(q)) = Len(q) - 1
           /\ DOMAIN q = 1..Len(q) /\ DOMAIN Tail(q) = 1..(Len(q) - 1)
           /\ \A i \in 1..(Len(q) - 1) : Tail(q)[i] = q[i + 1]
           /\ Head(q) = q[1]
PROOF
<1>. DEFINE S == {q[i] : i \in DOMAIN q}
            t == Tail(q)
<1>1. q \in Seq(S)
    BY DEF AnySeq
<1>. HIDE DEF S
<1>2. /\ t \in Seq(S) /\ Len(t) = Len(q) - 1 /\ Head(q) = q[1]
      /\ \A i \in 1..Len(t) : t[i] = q[i + 1]
    BY <1>1, HeadTailProperties, EmptySeq
<1>3. AnySeq(t)
    BY TailFacts
<1>. HIDE DEF t
<1>4. Len(q) \in Nat /\ DOMAIN q = 1..Len(q) /\ Len(t) \in Nat /\ DOMAIN t = 1..Len(t)
    BY <1>3, AnySeqFacts
<1>. QED
    BY <1>2, <1>3, <1>4 DEF t

LEMMA NoMessage == AnySeq(<<>>) /\ Len(<<>>) = 0 /\ \A i \in DOMAIN <<>> : FALSE
PROOF
<1>. QED
    BY EmptySeq DEF AnySeq

LEMMA LeadsAppend ==
    ASSUME NEW q, AnySeq(q), NEW m, NEW a, NEW b, NEW c \in Int, Leads(q, a, b), Follows(m, b, c)
    PROVE  Leads(Append(q, m), a, c)
PROOF
<1>. DEFINE t == Append(q, m)
<1>1. /\ Len(q) \in Nat /\ Len(t) = Len(q) + 1
      /\ DOMAIN q = 1..Len(q) /\ DOMAIN t = 1..(Len(q) + 1)
      /\ \A i \in 1..Len(q) : t[i] = q[i]
      /\ t[Len(q) + 1] = m
    BY AppendIs
<1>. HIDE DEF t
<1>2. PICK g \in [0..Len(q) -> Int] :
        /\ g[0] = a /\ g[Len(q)] = b
        /\ \A i \in DOMAIN q : Follows(q[i], g[i - 1], g[i])
    BY DEF Leads
<1>. DEFINE f == [i \in 0..Len(t) |-> IF i = Len(t) THEN c ELSE g[i]]
<1>3. f \in [0..Len(t) -> Int] /\ f[0] = a /\ f[Len(t)] = c
    BY <1>1, <1>2
<1>4. ASSUME NEW i \in DOMAIN t PROVE Follows(t[i], f[i - 1], f[i])
    <2>1. CASE i = Len(q) + 1
        <3>1. i \in 0..Len(t) /\ i = Len(t) /\ i - 1 = Len(q)
            BY <2>1, <1>1
        <3>2. Len(q) \in 0..Len(t) /\ Len(q) # Len(t)
            <4>. DEFINE size == Len(q)
                        long == Len(t)
            <4>1. size \in Nat /\ long = size + 1
                BY <1>1
            <4>. HIDE DEF size, long
            <4>2. size \in 0..long /\ size # long
                BY <4>1
            <4>. QED
                BY <4>2 DEF size, long
        <3>3. f[i] = c
            BY <3>1
        <3>4. f[Len(q)] = b
            BY <3>2, <1>2
        <3>. QED
            BY <2>1, <3>1, <3>3, <3>4, <1>1
    <2>2. CASE i # Len(q) + 1
        <3>1. i \in DOMAIN q /\ t[i] = q[i] /\ f[i] = g[i] /\ f[i - 1] = g[i - 1]
            BY <2>2, <1>1
        <3>. QED
            BY <3>1, <1>2
    <2>. QED
        BY <2>1, <2>2
<1>. HIDE DEF f
<1>. QED
    BY <1>3, <1>4 DEF Leads, t

LEMMA LeadsTail ==
    ASSUME NEW q, AnySeq(q), q # <<>>, NEW a, NEW b, Leads(q, a, b)
    PROVE  \E c \in Int : Follows(Head(q), a, c) /\ Leads(Tail(q), c, b)
PROOF
<1>. DEFINE t == Tail(q)
<1>1. /\ Len(q) \in Nat \ {0} /\ Len(t) = Len(q) - 1
      /\ DOMAIN q = 1..Len(q) /\ DOMAIN t = 1..(Len(q) - 1)
      /\ \A i \in 1..(Len(q) - 1) : t[i] = q[i + 1]
      /\ Head(q) = q[1]
    BY TailIs
<1>. HIDE DEF t
<1>2. PICK g \in [0..Len(q) -> Int] :
        /\ g[0] = a /\ g[Len(q)] = b
        /\ \A i \in DOMAIN q : Follows(q[i], g[i - 1], g[i])
    BY DEF Leads
<1>. DEFINE f == [i \in 0..Len(t) |-> g[i + 1]]
<1>3. f \in [0..Len(t) -> Int] /\ f[0] = g[1] /\ f[Len(t)] = b /\ g[1] \in Int
    BY <1>1, <1>2
<1>4. ASSUME NEW i \in DOMAIN t PROVE Follows(t[i], f[i - 1], f[i])
    <2>1. i + 1 \in DOMAIN q /\ t[i] = q[i + 1] /\ f[i] = g[i + 1] /\ f[i - 1] = g[(i + 1) - 1]
        BY <1>1
    <2>. QED
        BY <2>1, <1>2
<1>5. Follows(q[1], g[0], g[1])
    <2>1. 1 \in DOMAIN q /\ 1 - 1 = 0
        BY <1>1
    <2>. QED
        BY <2>1, <1>2
<1>. HIDE DEF f
<1>6. Leads(t, g[1], b)
    BY <1>3, <1>4 DEF Leads
<1>. QED
    BY <1>1, <1>2, <1>3, <1>5, <1>6 DEF t

LEMMA LeadsNowhere ==
    ASSUME NEW q, AnySeq(q), OnlyOf(q, Idle), NEW a \in Int
    PROVE  Leads(q, a, a)
PROOF
<1>1. Len(q) \in Nat /\ DOMAIN q = 1..Len(q)
    BY AnySeqFacts
<1>. DEFINE g == [i \in 0..Len(q) |-> a]
<1>2. g \in [0..Len(q) -> Int] /\ g[0] = a /\ g[Len(q)] = a
    BY <1>1
<1>3. ASSUME NEW i \in DOMAIN q PROVE Follows(q[i], g[i - 1], g[i])
    <2>1. g[i - 1] = a /\ g[i] = a /\ q[i].kind \in Idle
        BY <1>1 DEF OnlyOf
    <2>. QED
        BY <2>1 DEF Follows, Idle, Hot
<1>. HIDE DEF g
<1>. QED
    BY <1>2, <1>3 DEF Leads

LEMMA FitsAppend ==
    ASSUME NEW q, AnySeq(q), NEW m, NEW d \in Int, NEW n \in Int, Fits(q, d, n),
           NEW l \in Int, l >= n + DeskStep(m)
    PROVE  Fits(Append(q, m), d, l)
PROOF
<1>. DEFINE t == Append(q, m)
<1>1. /\ Len(q) \in Nat /\ Len(t) = Len(q) + 1
      /\ DOMAIN q = 1..Len(q) /\ DOMAIN t = 1..(Len(q) + 1)
      /\ \A i \in 1..Len(q) : t[i] = q[i]
      /\ t[Len(q) + 1] = m
    BY AppendIs
<1>. HIDE DEF t
<1>0. DeskStep(m) \in {0, 1}
    BY DEF DeskStep
<1>2. PICK h \in [0..Len(q) -> Int] :
        /\ h[0] >= d /\ h[0] >= NDesks - 1
        /\ \A i \in 0..Len(q) : h[i] <= n
        /\ \A i \in DOMAIN q : h[i] = h[i - 1] + DeskStep(q[i])
    BY DEF Fits
<1>. DEFINE e == h[Len(q)] + DeskStep(m)
            f == [i \in 0..Len(t) |-> IF i = Len(t) THEN e ELSE h[i]]
<1>3. e \in Int /\ e <= l
    BY <1>0, <1>1, <1>2
<1>. HIDE DEF e
<1>4. f \in [0..Len(t) -> Int] /\ f[0] = h[0] /\ f[Len(t)] = e
    BY <1>1, <1>2, <1>3
<1>5. \A i \in 0..Len(t) : f[i] <= l
    BY <1>0, <1>1, <1>2, <1>3
<1>6. ASSUME NEW i \in DOMAIN t PROVE f[i] = f[i - 1] + DeskStep(t[i])
    <2>1. CASE i = Len(q) + 1
        <3>1. i \in 0..Len(t) /\ i = Len(t) /\ i - 1 = Len(q)
            BY <2>1, <1>1
        <3>2. Len(q) \in 0..Len(t) /\ Len(q) # Len(t)
            <4>. DEFINE size == Len(q)
                        long == Len(t)
            <4>1. size \in Nat /\ long = size + 1
                BY <1>1
            <4>. HIDE DEF size, long
            <4>2. size \in 0..long /\ size # long
                BY <4>1
            <4>. QED
                BY <4>2 DEF size, long
        <3>3. f[i] = e
            BY <3>1
        <3>4. f[Len(q)] = h[Len(q)]
            BY <3>2, <1>2
        <3>. QED
            BY <2>1, <3>1, <3>3, <3>4, <1>1 DEF e
    <2>2. CASE i # Len(q) + 1
        <3>1. i \in DOMAIN q /\ t[i] = q[i] /\ f[i] = h[i] /\ f[i - 1] = h[i - 1]
            BY <2>2, <1>1
        <3>. QED
            BY <3>1, <1>2
    <2>. QED
        BY <2>1, <2>2
<1>. HIDE DEF f
<1>. QED
    BY <1>2, <1>4, <1>5, <1>6 DEF Fits, t

LEMMA FitsTail ==
    ASSUME NEW q, AnySeq(q), q # <<>>, NEW d \in Int, NEW n \in Int, Fits(q, d, n),
           NEW e \in Int, e <= d + DeskStep(Head(q)) \/ e <= NDesks - 1
    PROVE  Fits(Tail(q), e, n)
PROOF
<1>. DEFINE t == Tail(q)
<1>1. /\ Len(q) \in Nat \ {0} /\ Len(t) = Len(q) - 1
      /\ DOMAIN q = 1..Len(q) /\ DOMAIN t = 1..(Len(q) - 1)
      /\ \A i \in 1..(Len(q) - 1) : t[i] = q[i + 1]
      /\ Head(q) = q[1]
    BY TailIs
<1>. HIDE DEF t
<1>0. DeskStep(q[1]) \in {0, 1} /\ NDesks \in Int
    BY DesksAssumption DEF DeskStep
<1>2. PICK h \in [0..Len(q) -> Int] :
        /\ h[0] >= d /\ h[0] >= NDesks - 1
        /\ \A i \in 0..Len(q) : h[i] <= n
        /\ \A i \in DOMAIN q : h[i] = h[i - 1] + DeskStep(q[i])
    BY DEF Fits
<1>. DEFINE f == [i \in 0..Len(t) |-> h[i + 1]]
<1>3. f \in [0..Len(t) -> Int] /\ f[0] = h[1] /\ \A i \in 0..Len(t) : f[i] <= n
    BY <1>1, <1>2
<1>4. h[1] >= e /\ h[1] >= NDesks - 1
    <2>1. 1 \in DOMAIN q /\ 1 - 1 = 0
        BY <1>1
    <2>2. h[1] = h[0] + DeskStep(q[1]) /\ h[0] \in Int
        BY <2>1, <1>1, <1>2
    <2>. QED
        BY <2>2, <1>0, <1>1, <1>2
<1>5. ASSUME NEW i \in DOMAIN t PROVE f[i] = f[i - 1] + DeskStep(t[i])
    <2>1. i + 1 \in DOMAIN q /\ t[i] = q[i + 1] /\ f[i] = h[i + 1] /\ f[i - 1] = h[(i + 1) - 1]
        BY <1>1
    <2>. QED
        BY <2>1, <1>2
<1>. HIDE DEF f
<1>. QED
    BY <1>3, <1>4, <1>5 DEF Fits, t

LEMMA FitsMore ==
    ASSUME NEW q, AnySeq(q), NEW d \in Int, NEW n \in Int, Fits(q, d, n),
           NEW e \in Int, NEW l \in Int, e <= d \/ e <= NDesks - 1, l >= n
    PROVE  Fits(q, e, l)
PROOF
<1>1. Len(q) \in Nat /\ NDesks \in Int
    BY AnySeqFacts, DesksAssumption
<1>2. PICK h \in [0..Len(q) -> Int] :
        /\ h[0] >= d /\ h[0] >= NDesks - 1
        /\ \A i \in 0..Len(q) : h[i] <= n
        /\ \A i \in DOMAIN q : h[i] = h[i - 1] + DeskStep(q[i])
    BY DEF Fits
<1>3. h[0] >= e /\ \A i \in 0..Len(q) : h[i] <= l
    <2>1. h[0] \in Int
        BY <1>1
    <2>. QED
        BY <1>1, <1>2, <2>1
<1>. QED
    BY <1>2, <1>3 DEF Fits

\* What was said of the queue is said of a longer one, and of its tail.
LEMMA Longer ==
    ASSUME NEW q, AnySeq(q), NEW m
    PROVE  \A i \in DOMAIN Append(q, m) :
              \/ i \in DOMAIN q /\ Append(q, m)[i] = q[i] /\ i < Len(q) + 1
              \/ i = Len(q) + 1 /\ Append(q, m)[i] = m
PROOF
<1>. DEFINE t == Append(q, m)
            n == Len(q)
<1>1. /\ n \in Nat /\ DOMAIN q = 1..n /\ DOMAIN t = 1..(n + 1)
      /\ \A i \in 1..n : t[i] = q[i]
      /\ t[n + 1] = m
    BY AppendIs
<1>. HIDE DEF t, n
<1>2. \A i \in DOMAIN t : (i \in DOMAIN q /\ t[i] = q[i] /\ i < n + 1) \/ (i = n + 1 /\ t[i] = m)
    BY <1>1
<1>. QED
    BY <1>2 DEF t, n

LEMMA Kept ==
    ASSUME NEW q, AnySeq(q), NEW m
    PROVE  \A i \in DOMAIN q : /\ i \in DOMAIN Append(q, m) /\ Append(q, m)[i] = q[i]
                               /\ i \in Nat \ {0} /\ i < Len(q) + 1
PROOF
<1>. DEFINE t == Append(q, m)
            n == Len(q)
<1>1. /\ n \in Nat /\ DOMAIN q = 1..n /\ DOMAIN t = 1..(n + 1)
      /\ \A i \in 1..n : t[i] = q[i]
    BY AppendIs
<1>. HIDE DEF t, n
<1>2. \A i \in DOMAIN q : i \in DOMAIN t /\ t[i] = q[i] /\ i \in Nat \ {0} /\ i < n + 1
    BY <1>1
<1>. QED
    BY <1>2 DEF t, n

LEMMA AtEnd ==
    ASSUME NEW q, AnySeq(q), NEW m
    PROVE  /\ Len(q) + 1 \in DOMAIN Append(q, m) /\ Append(q, m)[Len(q) + 1] = m
           /\ Len(Append(q, m)) = Len(q) + 1 /\ Len(q) + 1 \in Nat \ {0}
PROOF
<1>. DEFINE t == Append(q, m)
            n == Len(q)
<1>1. n \in Nat /\ DOMAIN t = 1..(n + 1) /\ t[n + 1] = m /\ Len(t) = n + 1
    BY AppendIs
<1>. HIDE DEF t, n
<1>2. n + 1 \in DOMAIN t /\ n + 1 \in Nat \ {0}
    BY <1>1
<1>. QED
    BY <1>1, <1>2 DEF t, n

LEMMA Shorter ==
    ASSUME NEW q, AnySeq(q), q # <<>>
    PROVE  /\ Head(q) = q[1] /\ 1 \in DOMAIN q
           /\ \A i \in DOMAIN Tail(q) : /\ i \in Nat \ {0} /\ i + 1 \in DOMAIN q
                                        /\ Tail(q)[i] = q[i + 1]
           /\ \A i \in DOMAIN q : /\ i \in Nat \ {0}
                                  /\ i # 1 => i - 1 \in DOMAIN Tail(q) /\ Tail(q)[i - 1] = q[i]
           /\ Len(Tail(q)) = Len(q) - 1 /\ Len(q) \in Nat \ {0}
PROOF
<1>. DEFINE t == Tail(q)
            n == Len(q)
<1>1. /\ n \in Nat \ {0} /\ Len(t) = n - 1
      /\ DOMAIN q = 1..n /\ DOMAIN t = 1..(n - 1)
      /\ \A i \in 1..(n - 1) : t[i] = q[i + 1]
      /\ Head(q) = q[1]
    BY TailIs
<1>. HIDE DEF t, n
<1>2. \A i \in DOMAIN t : i \in Nat \ {0} /\ i + 1 \in DOMAIN q /\ t[i] = q[i + 1]
    BY <1>1
<1>3. ASSUME NEW i \in DOMAIN q, i # 1 PROVE i - 1 \in DOMAIN t /\ t[i - 1] = q[i]
    <2>1. i - 1 \in 1..(n - 1) /\ (i - 1) + 1 = i
        BY <1>1, <1>3
    <2>. QED
        BY <2>1, <1>1
<1>4. 1 \in DOMAIN q /\ \A i \in DOMAIN q : i \in Nat \ {0}
    BY <1>1
<1>. QED
    BY <1>1, <1>2, <1>3, <1>4 DEF t, n

LEMMA HotkeysIdle ==
    ASSUME NEW q, AnySeq(q), NEW m, NEW p, NEW w, HotkeysIn(q, p, w), m.kind \in Idle
    PROVE  HotkeysIn(Append(q, m), p, w)
PROOF
<1>. DEFINE t == Append(q, m)
            n == Len(q)
<1>1. \A i \in DOMAIN t : (i \in DOMAIN q /\ t[i] = q[i] /\ i < n + 1) \/ (i = n + 1 /\ t[i] = m)
    BY Longer
<1>. HIDE DEF t, n
<1>2. m.kind \notin Hot
    BY DEF Idle, Hot
<1>3. HotkeysIn(t, p, w)
    BY <1>1, <1>2 DEF HotkeysIn
<1>. QED
    BY <1>3 DEF t

LEMMA HotkeysOther ==
    ASSUME NEW q, AnySeq(q), NEW m, NoneOf(q, Hot), m.kind \notin Hot
    PROVE  NoneOf(Append(q, m), Hot) /\ \A p, w : HotkeysIn(Append(q, m), p, w)
PROOF
<1>. DEFINE t == Append(q, m)
<1>1. \A i \in DOMAIN t : (i \in DOMAIN q /\ t[i] = q[i]) \/ t[i] = m
    BY Longer
<1>. HIDE DEF t
<1>3. NoneOf(t, Hot)
    BY <1>1 DEF NoneOf
<1>4. \A p, w : HotkeysIn(t, p, w)
    BY <1>3 DEF HotkeysIn, NoneOf
<1>. QED
    BY <1>3, <1>4 DEF t

LEMMA HotkeysNew ==
    ASSUME NEW q, AnySeq(q), NEW m, NoneOf(q, Hot), NEW p, NEW w, p, w = Step(m.arg = 1)
    PROVE  HotkeysIn(Append(q, m), p, w)
PROOF
<1>. DEFINE t == Append(q, m)
            n == Len(q)
<1>1. \A i \in DOMAIN t : (i \in DOMAIN q /\ t[i] = q[i] /\ i < n + 1) \/ (i = n + 1 /\ t[i] = m)
    BY Longer
<1>2. n \in Nat /\ DOMAIN q = 1..n
    BY AnySeqFacts
<1>. HIDE DEF t, n
<1>3. \A i \in DOMAIN t : i <= n + 1
    BY <1>1, <1>2
<1>4. ASSUME NEW i \in DOMAIN t, t[i].kind \in Hot
      PROVE  p /\ w = Step(t[i].arg = 1) /\ \A j \in DOMAIN t : j > i => t[j].kind \in Idle
    <2>1. i = n + 1 /\ t[i] = m
        BY <1>1, <1>4 DEF NoneOf
    <2>2. \A j \in DOMAIN t : ~(j > i)
        BY <1>1, <1>2, <1>3, <2>1
    <2>3. w = Step(t[i].arg = 1)
        BY <2>1
    <2>. QED
        BY <2>2, <2>3
<1>5. HotkeysIn(t, p, w)
    BY <1>4 DEF HotkeysIn
<1>. QED
    BY <1>5 DEF t

LEMMA HotkeysTail ==
    ASSUME NEW q, AnySeq(q), q # <<>>, NEW p, NEW w, HotkeysIn(q, p, w)
    PROVE  /\ HotkeysIn(Tail(q), p, w)
           /\ Head(q).kind \in Hot => p /\ w = Step(Head(q).arg = 1) /\ OnlyOf(Tail(q), Idle)
PROOF
<1>. DEFINE t == Tail(q)
<1>1. /\ Head(q) = q[1] /\ 1 \in DOMAIN q
      /\ \A i \in DOMAIN t : /\ i \in Nat \ {0} /\ i + 1 \in DOMAIN q
                             /\ t[i] = q[i + 1]
    BY Shorter
<1>. HIDE DEF t
<1>2. HotkeysIn(t, p, w)
    <2>1. ASSUME NEW i \in DOMAIN t, t[i].kind \in Hot
          PROVE  p /\ w = Step(t[i].arg = 1) /\ \A j \in DOMAIN t : j > i => t[j].kind \in Idle
        <3>1. i + 1 \in DOMAIN q /\ q[i + 1] = t[i]
            BY <1>1
        <3>2. p /\ w = Step(t[i].arg = 1) /\ \A j \in DOMAIN q : j > i + 1 => q[j].kind \in Idle
            BY <3>1, <2>1 DEF HotkeysIn
        <3>3. \A j \in DOMAIN t : j > i => t[j].kind \in Idle
            BY <1>1, <3>2
        <3>. QED
            BY <3>2, <3>3
    <2>. QED
        BY <2>1 DEF HotkeysIn
<1>3. ASSUME q[1].kind \in Hot PROVE p /\ w = Step(q[1].arg = 1) /\ OnlyOf(t, Idle)
    <2>1. p /\ w = Step(q[1].arg = 1) /\ \A j \in DOMAIN q : j > 1 => q[j].kind \in Idle
        BY <1>1, <1>3 DEF HotkeysIn
    <2>2. OnlyOf(t, Idle)
        BY <1>1, <2>1 DEF OnlyOf
    <2>. QED
        BY <2>1, <2>2
<1>. QED
    BY <1>1, <1>2, <1>3 DEF t

LEMMA HiddenBy ==
    ASSUME NEW q, AnySeq(q), NEW m, m.kind \in Hiding, NEW v
    PROVE  HiddenIn(Append(q, m), v)
PROOF
<1>. DEFINE t == Append(q, m)
            n == Len(q)
<1>1. \A i \in DOMAIN t : (i \in DOMAIN q /\ t[i] = q[i] /\ i < n + 1) \/ (i = n + 1 /\ t[i] = m)
    BY Longer
<1>2. n + 1 \in DOMAIN t /\ t[n + 1] = m /\ n + 1 \in Nat \ {0}
    BY AtEnd
<1>. HIDE DEF t, n
<1>3. m.kind \notin Showing
    BY DEF Showing, Hiding
<1>4. \A k : k < n + 1 => HidesAfter(t, k)
    BY <1>2 DEF HidesAfter
<1>5. \A k \in DOMAIN t : t[k].kind \in Showing => HidesAfter(t, k)
    BY <1>1, <1>3, <1>4
<1>6. HidesAfter(t, 0)
    BY <1>2, <1>4
<1>7. HiddenIn(t, v)
    BY <1>5, <1>6 DEF HiddenIn
<1>. QED
    BY <1>7 DEF t

LEMMA HiddenStill ==
    ASSUME NEW q, AnySeq(q), NEW m, m.kind \notin Showing, NEW v, HiddenIn(q, v)
    PROVE  HiddenIn(Append(q, m), v)
PROOF
<1>. DEFINE t == Append(q, m)
<1>1. \A i \in DOMAIN t : (i \in DOMAIN q /\ t[i] = q[i]) \/ t[i] = m
    BY Longer
<1>2. \A i \in DOMAIN q : i \in DOMAIN t /\ t[i] = q[i]
    BY Kept
<1>. HIDE DEF t
<1>3. \A k : HidesAfter(q, k) => HidesAfter(t, k)
    BY <1>2 DEF HidesAfter
<1>4. \A k \in DOMAIN t : t[k].kind \in Showing => HidesAfter(t, k)
    BY <1>1, <1>3 DEF HiddenIn
<1>5. HiddenIn(t, v)
    BY <1>3, <1>4 DEF HiddenIn
<1>. QED
    BY <1>5 DEF t

LEMMA HiddenTail ==
    ASSUME NEW q, AnySeq(q), q # <<>>, NEW v, NEW u, HiddenIn(q, v),
           u => Head(q).kind \notin Hiding,
           u => v \/ Head(q).kind \in Showing
    PROVE  HiddenIn(Tail(q), u)
PROOF
<1>. DEFINE t == Tail(q)
<1>1. /\ Head(q) = q[1] /\ 1 \in DOMAIN q
      /\ \A i \in DOMAIN t : i \in Nat \ {0} /\ i + 1 \in DOMAIN q /\ t[i] = q[i + 1]
      /\ \A i \in DOMAIN q : /\ i \in Nat \ {0}
                             /\ i # 1 => i - 1 \in DOMAIN t /\ t[i - 1] = q[i]
    BY Shorter
<1>. HIDE DEF t
<1>2. ASSUME NEW k \in Nat, HidesAfter(q, k + 1) PROVE HidesAfter(t, k)
    <2>1. PICK i \in DOMAIN q : i > k + 1 /\ q[i].kind \in Hiding
        BY <1>2 DEF HidesAfter
    <2>2. i - 1 \in DOMAIN t /\ t[i - 1] = q[i] /\ i - 1 > k
        BY <1>1, <2>1
    <2>. QED
        BY <2>1, <2>2 DEF HidesAfter
<1>3. ASSUME NEW k \in DOMAIN t, t[k].kind \in Showing PROVE HidesAfter(t, k)
    <2>1. k \in Nat /\ k + 1 \in DOMAIN q /\ q[k + 1].kind \in Showing
        BY <1>1, <1>3
    <2>2. HidesAfter(q, k + 1)
        BY <2>1 DEF HiddenIn
    <2>. QED
        BY <2>1, <2>2, <1>2
<1>4. ASSUME u PROVE HidesAfter(t, 0)
    <2>1. HidesAfter(q, 1)
        <3>1. CASE q[1].kind \in Showing
            BY <3>1, <1>1 DEF HiddenIn
        <3>2. CASE q[1].kind \notin Showing
            <4>1. v
                BY <3>2, <1>1, <1>4
            <4>2. HidesAfter(q, 0)
                BY <4>1 DEF HiddenIn
            <4>3. PICK i \in DOMAIN q : i > 0 /\ q[i].kind \in Hiding
                BY <4>2 DEF HidesAfter
            <4>4. q[1].kind \notin Hiding
                BY <1>1, <1>4
            <4>5. i # 1
                BY <4>3, <4>4
            <4>6. i > 1
                BY <4>3, <4>5, <1>1
            <4>. QED
                BY <4>3, <4>6 DEF HidesAfter
        <3>. QED
            BY <3>1, <3>2
    <2>2. HidesAfter(q, 0 + 1)
        BY <2>1
    <2>. QED
        BY <2>2, <1>2
<1>5. HiddenIn(t, u)
    BY <1>3, <1>4 DEF HiddenIn
<1>. QED
    BY <1>5 DEF t

LEMMA ChosenNow ==
    ASSUME NEW q, AnySeq(q), NEW m, NoneOf(q, {"select"})
    PROVE  ChosenLast(Append(q, m))
PROOF
<1>. DEFINE t == Append(q, m)
            n == Len(q)
<1>1. \A i \in DOMAIN t : (i \in DOMAIN q /\ t[i] = q[i] /\ i < n + 1) \/ (i = n + 1 /\ t[i] = m)
    BY Longer
<1>2. Len(t) = n + 1
    BY AtEnd
<1>. HIDE DEF t, n
<1>3. ChosenLast(t)
    BY <1>1, <1>2 DEF ChosenLast, NoneOf
<1>. QED
    BY <1>3 DEF t

LEMMA ChosenTail ==
    ASSUME NEW q, AnySeq(q), q # <<>>, ChosenLast(q)
    PROVE  /\ ChosenLast(Tail(q))
           /\ Head(q).kind = "select" => OnlyOf(Tail(q), {})
PROOF
<1>. DEFINE t == Tail(q)
            n == Len(q)
<1>1. /\ Head(q) = q[1] /\ 1 \in DOMAIN q
      /\ \A i \in DOMAIN t : i \in Nat \ {0} /\ i + 1 \in DOMAIN q /\ t[i] = q[i + 1]
      /\ Len(t) = n - 1 /\ n \in Nat \ {0}
    BY Shorter
<1>2. DOMAIN q = 1..n
    BY AnySeqFacts
<1>3. ChosenLast(q) <=> \A i \in DOMAIN q : q[i].kind = "select" => i = n
    BY DEF ChosenLast
<1>. HIDE DEF t, n
<1>4. ChosenLast(t)
    <2>1. ASSUME NEW i \in DOMAIN t, t[i].kind = "select" PROVE i = Len(t)
        <3>1. i + 1 = n
            BY <1>1, <1>3, <2>1
        <3>. QED
            BY <3>1, <1>1
    <2>. QED
        BY <2>1 DEF ChosenLast
<1>5. ASSUME q[1].kind = "select" PROVE OnlyOf(t, {})
    <2>1. n = 1
        BY <1>1, <1>3, <1>5
    <2>2. \A i \in DOMAIN t : FALSE
        BY <2>1, <1>1, <1>2
    <2>. QED
        BY <2>2 DEF OnlyOf
<1>. QED
    BY <1>1, <1>4, <1>5 DEF t

LEMMA OnlyTail ==
    ASSUME NEW q, AnySeq(q), q # <<>>, NEW kinds, OnlyOf(q, kinds)
    PROVE  OnlyOf(Tail(q), kinds) /\ Head(q).kind \in kinds
PROOF
<1>. DEFINE t == Tail(q)
<1>1. /\ Head(q) = q[1] /\ 1 \in DOMAIN q
      /\ \A i \in DOMAIN t : i + 1 \in DOMAIN q /\ t[i] = q[i + 1]
    BY Shorter
<1>. HIDE DEF t
<1>2. OnlyOf(t, kinds)
    BY <1>1 DEF OnlyOf
<1>. QED
    BY <1>1, <1>2 DEF OnlyOf, t

-----------------------------------------------------------------------------
(* The call stack.                                                         *)
LEMMA PushIs ==
    ASSUME NEW s, AnySeq(s), NEW f
    PROVE  /\ AnySeq(<<f>> \o s)
           /\ (<<f>> \o s)[1] = f /\ 1 \in DOMAIN (<<f>> \o s)
           /\ \A i \in DOMAIN (<<f>> \o s) :
                 /\ i \in Nat \ {0}
                 /\ i # 1 => i - 1 \in DOMAIN s /\ (<<f>> \o s)[i] = s[i - 1]
PROOF
<1>. DEFINE S == {s[i] : i \in DOMAIN s}
            T == S \cup {f}
            t == <<f>> \o s
<1>1. s \in Seq(S)
    BY DEF AnySeq
<1>. HIDE DEF S
<1>2. s \in Seq(T) /\ f \in T
    BY <1>1, SeqMonotonic
<1>. HIDE DEF T
<1>3. <<f>> \in Seq(T) /\ Len(<<f>>) = 1 /\ <<f>>[1] = f
    BY <1>2
<1>4. /\ t \in Seq(T) /\ Len(t) = 1 + Len(s)
      /\ \A i \in 1..Len(t) : t[i] = IF i <= 1 THEN <<f>>[i] ELSE s[i - 1]
    BY <1>2, <1>3, ConcatProperties
<1>5. AnySeq(t)
    BY PushFacts
<1>. HIDE DEF t
<1>6. /\ Len(s) \in Nat /\ DOMAIN s = 1..Len(s)
      /\ DOMAIN t = 1..Len(t) /\ Len(t) \in Nat
    BY <1>5, AnySeqFacts
<1>7. t[1] = f /\ 1 \in DOMAIN t
    BY <1>3, <1>4, <1>6
<1>8. \A i \in DOMAIN t : i \in Nat \ {0} /\ (i # 1 => i - 1 \in DOMAIN s /\ t[i] = s[i - 1])
    BY <1>4, <1>6
<1>. QED
    BY <1>5, <1>7, <1>8 DEF t

\* A function that is neither do_select nor core_switch_desktop is called.
LEMMA FramesOther ==
    ASSUME NEW s, AnySeq(s), NEW list, NEW d, FramesIn(s, list, d),
           NEW f, f.proc \notin {"do_select", "switch_desktop"}
    PROVE  FramesIn(<<f>> \o s, list, d)
PROOF
<1>. DEFINE t == <<f>> \o s
<1>1. /\ t[1] = f /\ 1 \in DOMAIN t
      /\ \A i \in DOMAIN t : /\ i \in Nat \ {0}
                             /\ i # 1 => i - 1 \in DOMAIN s /\ t[i] = s[i - 1]
    BY PushIs
<1>. HIDE DEF t
<1>2. ASSUME NEW k \in DOMAIN t, t[k].proc = "switch_desktop" PROVE t[k].arg \in 1..NDesks
    BY <1>1, <1>2 DEF FramesIn
<1>3. ASSUME NEW k \in DOMAIN t, t[k].proc = "do_select", list # <<>>
      PROVE  /\ t[k].arg = t[k].meant % Len(list)
             /\ \A j \in DOMAIN t : j < k /\ t[j].proc = "switch_desktop" => t[j].arg = d
    <2>1. k - 1 \in DOMAIN s /\ t[k] = s[k - 1]
        BY <1>1, <1>3
    <2>2. /\ t[k].arg = t[k].meant % Len(list)
          /\ \A j \in DOMAIN s : j < k - 1 /\ s[j].proc = "switch_desktop" => s[j].arg = d
        BY <2>1, <1>3 DEF FramesIn
    <2>3. ASSUME NEW j \in DOMAIN t, j < k, t[j].proc = "switch_desktop" PROVE t[j].arg = d
        <3>1. j - 1 \in DOMAIN s /\ t[j] = s[j - 1] /\ j - 1 < k - 1
            BY <1>1, <2>3
        <3>. QED
            BY <3>1, <2>2, <2>3
    <2>. QED
        BY <2>2, <2>3
<1>4. FramesIn(t, list, d)
    BY <1>2, <1>3 DEF FramesIn
<1>. QED
    BY <1>4 DEF t

\* core_switch_desktop is called, to the workspace of the do_select that waits, if any.
LEMMA FramesSwitch ==
    ASSUME NEW s, AnySeq(s), NEW list, NEW d, FramesIn(s, list, d),
           NEW f, f.proc = "switch_desktop", f.arg \in 1..NDesks,
           Has(s, "do_select") /\ list # <<>> => f.arg = d
    PROVE  FramesIn(<<f>> \o s, list, d)
PROOF
<1>. DEFINE t == <<f>> \o s
<1>1. /\ t[1] = f /\ 1 \in DOMAIN t
      /\ \A i \in DOMAIN t : /\ i \in Nat \ {0}
                             /\ i # 1 => i - 1 \in DOMAIN s /\ t[i] = s[i - 1]
    BY PushIs
<1>. HIDE DEF t
<1>2. ASSUME NEW k \in DOMAIN t, t[k].proc = "switch_desktop" PROVE t[k].arg \in 1..NDesks
    BY <1>1, <1>2 DEF FramesIn
<1>3. ASSUME NEW k \in DOMAIN t, t[k].proc = "do_select", list # <<>>
      PROVE  /\ t[k].arg = t[k].meant % Len(list)
             /\ \A j \in DOMAIN t : j < k /\ t[j].proc = "switch_desktop" => t[j].arg = d
    <2>1. k - 1 \in DOMAIN s /\ t[k] = s[k - 1]
        BY <1>1, <1>3
    <2>2. /\ t[k].arg = t[k].meant % Len(list)
          /\ \A j \in DOMAIN s : j < k - 1 /\ s[j].proc = "switch_desktop" => s[j].arg = d
        BY <2>1, <1>3 DEF FramesIn
    <2>3. f.arg = d
        BY <2>1, <1>3 DEF Has
    <2>4. ASSUME NEW j \in DOMAIN t, j < k, t[j].proc = "switch_desktop" PROVE t[j].arg = d
        <3>1. CASE j = 1
            BY <3>1, <2>3, <1>1
        <3>2. CASE j # 1
            <4>1. j - 1 \in DOMAIN s /\ t[j] = s[j - 1] /\ j - 1 < k - 1
                BY <1>1, <2>4, <3>2
            <4>. QED
                BY <4>1, <2>2, <2>4
        <3>. QED
            BY <3>1, <3>2
    <2>. QED
        BY <2>2, <2>4
<1>4. FramesIn(t, list, d)
    BY <1>2, <1>3 DEF FramesIn
<1>. QED
    BY <1>4 DEF t

LEMMA FramesSelect ==
    ASSUME NEW s, AnySeq(s), NEW list, NEW d, FramesIn(s, list, d),
           NEW f, f.proc = "do_select", list # <<>> => f.arg = f.meant % Len(list)
    PROVE  FramesIn(<<f>> \o s, list, d)
PROOF
<1>. DEFINE t == <<f>> \o s
<1>1. /\ t[1] = f /\ 1 \in DOMAIN t
      /\ \A i \in DOMAIN t : /\ i \in Nat \ {0}
                             /\ i # 1 => i - 1 \in DOMAIN s /\ t[i] = s[i - 1]
    BY PushIs
<1>. HIDE DEF t
<1>2. ASSUME NEW k \in DOMAIN t, t[k].proc = "switch_desktop" PROVE t[k].arg \in 1..NDesks
    BY <1>1, <1>2 DEF FramesIn
<1>3. ASSUME NEW k \in DOMAIN t, t[k].proc = "do_select", list # <<>>
      PROVE  /\ t[k].arg = t[k].meant % Len(list)
             /\ \A j \in DOMAIN t : j < k /\ t[j].proc = "switch_desktop" => t[j].arg = d
    <2>1. CASE k = 1
        <3>1. \A j \in DOMAIN t : ~(j < k)
            BY <2>1, <1>1
        <3>. QED
            BY <3>1, <2>1, <1>1, <1>3
    <2>2. CASE k # 1
        <3>1. k - 1 \in DOMAIN s /\ t[k] = s[k - 1]
            BY <1>1, <2>2
        <3>2. /\ t[k].arg = t[k].meant % Len(list)
              /\ \A j \in DOMAIN s : j < k - 1 /\ s[j].proc = "switch_desktop" => s[j].arg = d
            BY <3>1, <1>3 DEF FramesIn
        <3>3. ASSUME NEW j \in DOMAIN t, j < k, t[j].proc = "switch_desktop" PROVE t[j].arg = d
            <4>1. j # 1
                BY <1>1, <3>3
            <4>2. j - 1 \in DOMAIN s /\ t[j] = s[j - 1] /\ j - 1 < k - 1
                BY <1>1, <3>3, <4>1
            <4>. QED
                BY <4>2, <3>2, <3>3
        <3>. QED
            BY <3>2, <3>3
    <2>. QED
        BY <2>1, <2>2
<1>4. FramesIn(t, list, d)
    BY <1>2, <1>3 DEF FramesIn
<1>. QED
    BY <1>4 DEF t

LEMMA FramesTail ==
    ASSUME NEW s, AnySeq(s), s # <<>>, NEW list, NEW d, FramesIn(s, list, d)
    PROVE  /\ FramesIn(Tail(s), list, d)
           /\ Head(s).proc = "switch_desktop" =>
                /\ Head(s).arg \in 1..NDesks
                /\ Has(Tail(s), "do_select") /\ list # <<>> => Head(s).arg = d
           /\ Head(s).proc = "do_select" /\ list # <<>> => Head(s).arg = Head(s).meant % Len(list)
PROOF
<1>. DEFINE t == Tail(s)
<1>1. /\ Head(s) = s[1] /\ 1 \in DOMAIN s
      /\ \A i \in DOMAIN t : i \in Nat \ {0} /\ i + 1 \in DOMAIN s /\ t[i] = s[i + 1]
    BY Shorter
<1>. HIDE DEF t
<1>2. FramesIn(t, list, d)
    <2>1. ASSUME NEW k \in DOMAIN t, t[k].proc = "switch_desktop" PROVE t[k].arg \in 1..NDesks
        BY <1>1, <2>1 DEF FramesIn
    <2>2. ASSUME NEW k \in DOMAIN t, t[k].proc = "do_select", list # <<>>
          PROVE  /\ t[k].arg = t[k].meant % Len(list)
                 /\ \A j \in DOMAIN t : j < k /\ t[j].proc = "switch_desktop" => t[j].arg = d
        <3>1. k + 1 \in DOMAIN s /\ t[k] = s[k + 1]
            BY <1>1
        <3>2. /\ t[k].arg = t[k].meant % Len(list)
              /\ \A j \in DOMAIN s : j < k + 1 /\ s[j].proc = "switch_desktop" => s[j].arg = d
            BY <3>1, <2>2 DEF FramesIn
        <3>3. ASSUME NEW j \in DOMAIN t, j < k, t[j].proc = "switch_desktop" PROVE t[j].arg = d
            <4>1. j + 1 \in DOMAIN s /\ t[j] = s[j + 1] /\ j + 1 < k + 1
                BY <1>1, <3>3
            <4>. QED
                BY <4>1, <3>2, <3>3
        <3>. QED
            BY <3>2, <3>3
    <2>. QED
        BY <2>1, <2>2 DEF FramesIn
<1>3. ASSUME s[1].proc = "switch_desktop", Has(t, "do_select"), list # <<>> PROVE s[1].arg = d
    <2>1. PICK k \in DOMAIN t : t[k].proc = "do_select"
        BY <1>3 DEF Has
    <2>2. k + 1 \in DOMAIN s /\ s[k + 1].proc = "do_select" /\ 1 < k + 1
        BY <1>1, <2>1
    <2>. QED
        BY <2>2, <1>1, <1>3 DEF FramesIn
<1>4. s[1].proc = "switch_desktop" => s[1].arg \in 1..NDesks
    BY <1>1 DEF FramesIn
<1>5. s[1].proc = "do_select" /\ list # <<>> => s[1].arg = s[1].meant % Len(list)
    BY <1>1 DEF FramesIn
<1>. QED
    BY <1>1, <1>2, <1>3, <1>4, <1>5 DEF t

LEMMA FramesAt ==
    ASSUME NEW s, AnySeq(s), s # <<>>, NEW at, NEW list, NEW d, FramesIn(s, list, d)
    PROVE  FramesIn([s EXCEPT ![1].at = at], list, d)
PROOF
<1>. DEFINE f == [s[1] EXCEPT !.at = at]
            t == [s EXCEPT ![1].at = at]
<1>1. 1 \in DOMAIN s
    BY TailFacts
<1>2. /\ DOMAIN t = DOMAIN s
      /\ \A i \in DOMAIN s : t[i] = IF i = 1 THEN f ELSE s[i]
    BY <1>1
<1>3. f.proc = s[1].proc /\ f.arg = s[1].arg /\ f.meant = s[1].meant
    OBVIOUS
<1>. HIDE DEF t, f
<1>4. \A i \in DOMAIN s : t[i].proc = s[i].proc /\ t[i].arg = s[i].arg /\ t[i].meant = s[i].meant
    BY <1>2, <1>3
<1>5. FramesIn(t, list, d)
    BY <1>2, <1>4 DEF FramesIn
<1>. QED
    BY <1>5 DEF t

-----------------------------------------------------------------------------
(* Lists of windows, and places in them.                                   *)
LEMMA IndexIn == \A a \in Int, n \in Nat \ {0} : a % n \in 0..(n - 1)
PROOF
<1>. QED
    OBVIOUS

LEMMA IndexOf ==
    ASSUME NEW n \in Nat \ {0}, NEW i \in 0..(n - 1), NEW k \in Int
    PROVE  (i + n * k) % n = i
PROOF
<1>. QED
    OBVIOUS

LEMMA IndexForward ==
    ASSUME NEW a \in Int, NEW n \in Nat \ {0}
    PROVE  (IF (a % n) + 1 >= n THEN 0 ELSE (a % n) + 1) = (a + 1) % n
PROOF
<1>. DEFINE i == a % n
            k == a \div n
<1>1. i \in 0..(n - 1) /\ k \in Int /\ a = i + n * k
    OBVIOUS
<1>. HIDE DEF i, k
<1>2. CASE i + 1 >= n
    <2>1. i + 1 = n
        BY <1>1, <1>2
    <2>2. a + 1 = 0 + n * (k + 1)
        BY <1>1, <2>1
    <2>3. (0 + n * (k + 1)) % n = 0
        BY <1>1, IndexOf
    <2>. QED
        BY <1>2, <2>2, <2>3 DEF i
<1>3. CASE ~(i + 1 >= n)
    <2>1. i + 1 \in 0..(n - 1)
        BY <1>1, <1>3
    <2>2. a + 1 = (i + 1) + n * k
        BY <1>1
    <2>3. ((i + 1) + n * k) % n = i + 1
        BY <1>1, <2>1, IndexOf
    <2>. QED
        BY <1>3, <2>2, <2>3 DEF i
<1>. QED
    BY <1>2, <1>3

LEMMA IndexBackward ==
    ASSUME NEW a \in Int, NEW n \in Nat \ {0}
    PROVE  (IF (a % n) <= 0 THEN n - 1 ELSE (a % n) - 1) = (a - 1) % n
PROOF
<1>. DEFINE i == a % n
            k == a \div n
<1>1. i \in 0..(n - 1) /\ k \in Int /\ a = i + n * k
    OBVIOUS
<1>. HIDE DEF i, k
<1>2. CASE i <= 0
    <2>1. i = 0
        BY <1>1, <1>2
    <2>2. a - 1 = (n - 1) + n * (k - 1)
        BY <1>1, <2>1
    <2>3. ((n - 1) + n * (k - 1)) % n = n - 1
        BY <1>1, IndexOf
    <2>. QED
        BY <1>2, <2>2, <2>3 DEF i
<1>3. CASE ~(i <= 0)
    <2>1. i - 1 \in 0..(n - 1)
        BY <1>1, <1>3
    <2>2. a - 1 = (i - 1) + n * k
        BY <1>1
    <2>3. ((i - 1) + n * k) % n = i - 1
        BY <1>1, <2>1, IndexOf
    <2>. QED
        BY <1>3, <2>2, <2>3 DEF i
<1>. QED
    BY <1>2, <1>3

\* build_task_list begins at the task after the first one, or at the last one.
LEMMA IndexFirst ==
    ASSUME NEW n \in Nat \ {0}, NEW back \in BOOLEAN
    PROVE  (IF n < 2 THEN 0 ELSE IF back THEN n - 1 ELSE 1) = Step(back) % n
PROOF
<1>1. CASE n < 2
    <2>1. n = 1
        BY <1>1
    <2>2. Step(back) \in Int
        BY DEF Step
    <2>3. Step(back) % 1 \in 0..(1 - 1)
        BY <2>2
    <2>. QED
        BY <2>1, <2>3
<1>2. CASE n >= 2 /\ back
    <2>1. -1 = (n - 1) + n * (-1) /\ n - 1 \in 0..(n - 1)
        BY <1>2
    <2>2. ((n - 1) + n * (-1)) % n = n - 1
        BY <2>1, IndexOf
    <2>3. (-1) % n = n - 1
        BY <2>1, <2>2
    <2>. QED
        BY <1>2, <2>3 DEF Step
<1>3. CASE n >= 2 /\ ~back
    <2>1. 1 = 1 + n * 0 /\ 1 \in 0..(n - 1)
        BY <1>3
    <2>2. (1 + n * 0) % n = 1
        BY <2>1, IndexOf
    <2>. QED
        BY <1>3, <2>1, <2>2 DEF Step
<1>. QED
    BY <1>1, <1>2, <1>3

LEMMA WindowsOfType ==
    ASSUME zorder \in Seq(Windows), IsInjective(zorder), NEW d, NEW list \in WindowsOf(d)
    PROVE  /\ list \in Seq(Windows) /\ IsInjective(list)
           /\ \A i \in DOMAIN list : d \in HomeOf[list[i]]
PROOF
<1>. DEFINE S == {i \in DOMAIN zorder : d \in HomeOf[zorder[i]]}
            n == Cardinality(S)
<1>1. DOMAIN zorder = 1..Len(zorder) /\ Len(zorder) \in Nat
      /\ \A i \in DOMAIN zorder : zorder[i] \in Windows
    BY LenProperties
<1>2. n \in Nat
    <2>1. IsFiniteSet(1..Len(zorder))
        BY <1>1, FS_Interval
    <2>2. IsFiniteSet(S)
        BY <1>1, <2>1, FS_Subset
    <2>. QED
        BY <2>2, FS_CardinalityType
<1>3. PICK s \in Ascending(S) : list = [k \in DOMAIN s |-> zorder[s[k]]]
    BY DEF WindowsOf
<1>4. s \in [1..n -> S] /\ \A j, k \in 1..n : j < k => s[j] < s[k]
    BY <1>3 DEF Ascending
<1>5. \A i \in S : i \in DOMAIN zorder /\ zorder[i] \in Windows /\ d \in HomeOf[zorder[i]]
    BY <1>1
<1>6. S \subseteq Nat
    BY <1>1
<1>. HIDE DEF S, n
<1>7. /\ DOMAIN list = 1..n
      /\ \A k \in 1..n : s[k] \in S /\ list[k] = zorder[s[k]]
    BY <1>3, <1>4
<1>8. list \in Seq(Windows)
    <2>1. list \in [1..n -> Windows]
        BY <1>3, <1>4, <1>5, <1>7
    <2>. QED
        BY <2>1, <1>2, SeqDef
<1>9. IsInjective(list)
    <2>1. ASSUME NEW j \in 1..n, NEW k \in 1..n, list[j] = list[k] PROVE j = k
        <3>1. s[j] = s[k]
            BY <2>1, <1>5, <1>7 DEF IsInjective
        <3>2. s[j] \in Nat /\ s[k] \in Nat
            BY <1>6, <1>7
        <3>3. ~(s[j] < s[k]) /\ ~(s[k] < s[j])
            BY <3>1, <3>2
        <3>4. ~(j < k) /\ ~(k < j)
            BY <3>3, <1>4
        <3>. QED
            BY <3>4, <1>2
    <2>. QED
        BY <2>1, <1>7 DEF IsInjective
<1>10. \A i \in DOMAIN list : d \in HomeOf[list[i]]
    BY <1>5, <1>7
<1>. QED
    BY <1>8, <1>9, <1>10

LEMMA RaisedType ==
    ASSUME zorder \in Seq(Windows), IsInjective(zorder), NEW w
    PROVE  Raised(w) \in Seq(Windows) /\ IsInjective(Raised(w))
PROOF
<1>1. DOMAIN zorder = 1..Len(zorder) /\ Len(zorder) \in Nat
      /\ \A i \in DOMAIN zorder : zorder[i] \in Windows
    BY LenProperties
<1>2. CASE ~Contains(zorder, w)
    BY <1>2 DEF Raised
<1>3. CASE Contains(zorder, w)
    <2>. DEFINE place == CHOOSE i \in DOMAIN zorder : zorder[i] = w
                r == [i \in DOMAIN zorder |->
                        IF i = 1 THEN w ELSE IF i <= place THEN zorder[i - 1] ELSE zorder[i]]
    <2>1. \E i \in DOMAIN zorder : zorder[i] = w
        BY <1>3 DEF Contains
    <2>2. place \in DOMAIN zorder /\ zorder[place] = w
        BY <2>1
    <2>3. Raised(w) = r
        BY <1>3 DEF Raised
    <2>. HIDE DEF place
    <2>4. DOMAIN r = 1..Len(zorder)
        BY <1>1
    <2>5. \A i \in 1..Len(zorder) :
            r[i] = IF i = 1 THEN w ELSE IF i <= place THEN zorder[i - 1] ELSE zorder[i]
        BY <1>1
    <2>6. r \in [1..Len(zorder) -> Windows]
        <3>1. w \in Windows
            BY <2>2, <1>1
        <3>2. \A i \in 1..Len(zorder) : i # 1 => i - 1 \in 1..Len(zorder)
            BY <1>1
        <3>. QED
            BY <3>1, <3>2, <1>1
    <2>. HIDE DEF r
    <2>7. r \in Seq(Windows)
        BY <2>6, <1>1, SeqDef
    <2>8. IsInjective(r)
        <3>1. \A i, j \in 1..Len(zorder) : zorder[i] = zorder[j] => i = j
            BY <1>1 DEF IsInjective
        <3>. DEFINE from(i) == IF i = 1 THEN place ELSE IF i <= place THEN i - 1 ELSE i
        <3>2. \A i \in 1..Len(zorder) : from(i) \in 1..Len(zorder) /\ r[i] = zorder[from(i)]
            BY <2>2, <2>5, <1>1
        <3>3. \A i, j \in 1..Len(zorder) : from(i) = from(j) => i = j
            BY <2>2, <1>1
        <3>. HIDE DEF from
        <3>4. \A i, j \in 1..Len(zorder) : r[i] = r[j] => i = j
            BY <3>1, <3>2, <3>3
        <3>. QED
            BY <3>4, <2>4 DEF IsInjective, r
    <2>. QED
        BY <2>3, <2>7, <2>8
<1>. QED
    BY <1>2, <1>3

-----------------------------------------------------------------------------
(* KeyProc.                                                                *)

\* Nothing that may come late comes late.
Prompt == {"hasty", "again", "shiftfirst", "mash"} \cap World = {}

LEMMA InStackIs == \A proc : InStack(proc) <=> Has(stack, proc)
PROOF
<1>. QED
    BY DEF InStack, Has

LEMMA HeardFacts ==
    ASSUME Prompt, Heard
    PROVE  NoneOf(queue, Hot) /\ NoneOf(queue, {"select"}) /\ ~InStack("do_select")
PROOF
<1>1. "hasty" \notin World /\ "again" \notin World
    BY DEF Prompt
<1>2. ~Waiting("hotkey") /\ ~Waiting("activate") /\ ~Waiting("select") /\ ~InStack("do_select")
    BY <1>1 DEF Heard, Choosing
<1>. QED
    BY <1>2 DEF Waiting, NoneOf, Hot

\* Keys that post nothing.
LEMMA KeysQuiet ==
    ASSUME TaskInv, Keys',
           UNCHANGED <<queue, stack, desk, zorder, keys, alttab, walk, switch, overview>>
    PROVE  TaskInv'
PROOF
<1>1. UNCHANGED <<visible, task_list, task_index, ts_desk, items, shown_desk, update_thread, made,
                  threads, last>>
    BY DEF switch, overview
<1>2. Lists' /\ Hotkeys' /\ Hidden'
    BY <1>1 DEF TaskInv, Lists, Hotkeys, Hidden, Waiting
<1>3. Choice' /\ Frames' /\ Shows'
    BY <1>1 DEF TaskInv, Choice, InStack, Frames, Shows, Waiting
<1>4. Course' /\ Slack' /\ OverviewTypes'
    BY <1>1 DEF TaskInv, Course, AtIndex, Slack, OverviewTypes
<1>. QED
    BY <1>2, <1>3, <1>4 DEF TaskInv

\* Keys that post one message.
LEMMA Posted ==
    ASSUME IInv, TaskInv, Prompt, Heard, Keys',
           UNCHANGED <<stack, desk, zorder, switch, overview>>,
           NEW m, queue' = Append(queue, m), m.kind # "show",
           Follows(m, walk, walk'), keys' >= keys + DeskStep(m),
           m.kind \in Hot => alttab' /\ walk' = Step(m.arg = 1),
           \/ m.kind \in Hiding
           \/ alttab' /\ m.kind \notin Hot
           \/ ~alttab /\ m.kind = "hotkey"
    PROVE  TaskInv'
PROOF
<1>1. UNCHANGED <<visible, task_list, task_index, ts_desk, items, shown_desk, update_thread, made,
                  threads, last>>
    BY DEF switch, overview
<1>2. AnySeq(queue) /\ NoneOf(queue, Hot) /\ NoneOf(queue, {"select"}) /\ ~InStack("do_select")
    BY HeardFacts DEF IInv, Types
<1>3. Lists' /\ Frames' /\ OverviewTypes'
    BY <1>1 DEF TaskInv, Lists, Frames, OverviewTypes
<1>4. Choice'
    <2>1. ChosenLast(queue')
        BY <1>2, ChosenNow
    <2>2. ~InStack("do_select")'
        BY <1>2 DEF InStack
    <2>. QED
        BY <2>1, <2>2 DEF Choice
<1>5. Hotkeys'
    <2>1. HotkeysIn(queue', alttab', walk')
        <3>1. CASE m.kind \in Hot
            BY <3>1, <1>2, HotkeysNew
        <3>2. CASE m.kind \notin Hot
            BY <3>2, <1>2, HotkeysOther
        <3>. QED
            BY <3>1, <3>2
    <2>. QED
        BY <2>1 DEF Hotkeys
<1>6. Hidden'
    <2>1. CASE m.kind \in Hiding
        <3>1. HiddenIn(queue', visible')
            BY <2>1, <1>2, HiddenBy
        <3>. QED
            BY <3>1 DEF Hidden
    <2>2. CASE alttab' /\ m.kind \notin Hot
        <3>1. NoneOf(queue', Hot)
            BY <2>2, <1>2, HotkeysOther
        <3>2. ~Waiting("hotkey")'
            BY <3>1 DEF NoneOf, Waiting, Hot
        <3>. QED
            BY <2>2, <3>2 DEF Hidden
    <2>3. CASE ~alttab /\ m.kind = "hotkey"
        <3>1. HiddenIn(queue, visible)
            BY <2>3 DEF TaskInv, Hidden
        <3>2. m.kind \notin Showing
            BY <2>3 DEF Showing
        <3>3. HiddenIn(queue', visible')
            BY <3>1, <3>2, <1>1, <1>2, HiddenStill
        <3>. QED
            BY <3>3 DEF Hidden
    <2>. QED
        BY <2>1, <2>2, <2>3
<1>7. keys \in Int /\ keys' \in Int /\ walk' \in Int /\ keys' >= keys
    <2>1. keys \in 0..MaxKeys /\ keys' \in 0..MaxKeys /\ walk' \in (-keys')..keys'
        BY DEF TaskInv, Keys
    <2>2. DeskStep(m) \in {0, 1}
        BY DEF DeskStep
    <2>. QED
        BY <2>1, <2>2, KeysAssumption
<1>8. Shows'
    <2>1. \A i \in DOMAIN queue' : (i \in DOMAIN queue /\ queue'[i] = queue[i]) \/ queue'[i] = m
        BY <1>2, Longer
    <2>2. Waiting("show")' => Waiting("show")
        BY <2>1 DEF Waiting
    <2>3. last \in Int
        BY DEF IInv, Types
    <2>. QED
        BY <1>1, <1>7, <2>2, <2>3 DEF TaskInv, Shows
<1>9. Course'
    <2>1. PICK a \in Int : AtIndex(a) /\ Leads(queue, a, walk)
        BY DEF TaskInv, Course
    <2>2. Leads(queue', a, walk')
        BY <2>1, <1>2, <1>7, LeadsAppend
    <2>3. AtIndex(a)'
        BY <2>1, <1>1 DEF AtIndex
    <2>. QED
        BY <2>2, <2>3 DEF Course
<1>10. Slack'
    <2>1. Fits(queue, ts_desk, NDesks - 1 + keys) /\ ts_desk \in Int
        BY DEF TaskInv, Slack, Lists
    <2>2. NDesks - 1 + keys \in Int /\ NDesks - 1 + keys' \in Int
          /\ NDesks - 1 + keys' >= (NDesks - 1 + keys) + DeskStep(m)
        <3>1. DeskStep(m) \in {0, 1}
            BY DEF DeskStep
        <3>. QED
            BY <1>7, <3>1, DesksAssumption
    <2>3. Fits(queue', ts_desk, NDesks - 1 + keys')
        BY <2>1, <2>2, <1>2, FitsAppend
    <2>. QED
        BY <2>3, <1>1 DEF Slack
<1>. QED
    BY <1>3, <1>4, <1>5, <1>6, <1>8, <1>9, <1>10 DEF TaskInv

\* What the kinds of messages are.
LEMMA MessageIs ==
    \A kind, arg : Message(kind, arg).kind = kind /\ Message(kind, arg).arg = arg
PROOF
<1>. QED
    BY DEF Message

LEMMA CancelPosted ==
    ASSUME IInv, TaskInv, Prompt, Heard, Keys',
           UNCHANGED <<stack, desk, zorder, switch, overview, walk>>, keys' >= keys,
           queue' = Append(queue, Message("cancel", NoMeaning))
    PROVE  TaskInv'
PROOF
<1>. DEFINE m == Message("cancel", NoMeaning)
<1>1. m.kind = "cancel"
    BY MessageIs
<1>. HIDE DEF m
<1>2. Follows(m, walk, walk') /\ DeskStep(m) = 0 /\ m.kind \notin Hot /\ m.kind \in Hiding
    BY <1>1 DEF Follows, DeskStep, Hot, Hiding, Idle
<1>3. keys \in Int
    BY KeysAssumption DEF TaskInv, Keys
<1>4. keys' >= keys + DeskStep(m)
    BY <1>2, <1>3
<1>. QED
    BY <1>1, <1>2, <1>4, Posted DEF m

LEMMA AltDownTask == IInv /\ TaskInv /\ AltDown /\ UNCHANGED <<switch, overview>> => TaskInv'
PROOF
<1>. SUFFICES ASSUME IInv, TaskInv, AltDown, UNCHANGED <<switch, overview>> PROVE TaskInv'
    OBVIOUS
<1>1. /\ alt' = TRUE
      /\ UNCHANGED <<held, alttab, shift, walk, queue, stack, desk, zorder, keys, visible>>
    BY DEF AltDown, mainthread, switch
<1>2. Keys'
    BY <1>1 DEF TaskInv, Keys
<1>. QED
    BY <1>1, <1>2, KeysQuiet

LEMMA ShiftDownTask ==
    Prompt /\ IInv /\ TaskInv /\ ShiftDown /\ UNCHANGED <<switch, overview>> => TaskInv'
PROOF
<1>. SUFFICES ASSUME Prompt, IInv, TaskInv, ShiftDown, UNCHANGED <<switch, overview>>
              PROVE  TaskInv'
    OBVIOUS
<1>1. /\ alt /\ held' = TRUE /\ shift' = (shift \/ alt)
      /\ UNCHANGED <<alt, alttab, walk, queue, stack, desk, zorder, keys, visible>>
    BY DEF ShiftDown, mainthread, switch, Prompt
<1>2. shift' = TRUE
    BY <1>1
<1>3. Keys'
    BY <1>1, <1>2 DEF TaskInv, Keys
<1>. QED
    BY <1>1, <1>3, KeysQuiet

LEMMA AltUpLostTask == IInv /\ TaskInv /\ AltUpLost /\ UNCHANGED <<switch, overview>> => TaskInv'
PROOF
<1>. SUFFICES ASSUME IInv, TaskInv, AltUpLost, UNCHANGED <<switch, overview>> PROVE TaskInv'
    OBVIOUS
<1>1. /\ alt' = FALSE
      /\ UNCHANGED <<held, alttab, shift, walk, queue, stack, desk, zorder, keys, visible>>
    BY DEF AltUpLost, mainthread, switch
<1>2. Keys'
    BY <1>1 DEF TaskInv, Keys
<1>. QED
    BY <1>1, <1>2, KeysQuiet

\* A key goes up and finds that Alt is up.
LEMMA UnstuckTask ==
    ASSUME Prompt, IInv, TaskInv, Heard, Unstuck(queue),
           UNCHANGED <<alt, walk, stack, desk, zorder, keys, switch, overview>>,
           held' \in BOOLEAN, shift' = held'
    PROVE  TaskInv'
PROOF
<1>1. visible' = visible
    BY DEF switch
<1>2. CASE alttab /\ ~alt
    <2>1. alttab' = FALSE /\ queue' = Append(queue, Message("cancel", NoMeaning))
        BY <1>2 DEF Unstuck, Post
    <2>2. Keys'
        BY <1>1, <2>1 DEF TaskInv, Keys
    <2>3. keys' >= keys
        BY KeysAssumption DEF TaskInv, Keys
    <2>. QED
        BY <2>1, <2>2, <2>3, CancelPosted
<1>3. CASE ~(alttab /\ ~alt)
    <2>1. alttab' = alttab /\ queue' = queue
        BY <1>3 DEF Unstuck
    <2>2. Keys'
        BY <1>1, <2>1 DEF TaskInv, Keys
    <2>. QED
        BY <2>1, <2>2, KeysQuiet
<1>. QED
    BY <1>2, <1>3

LEMMA KeyUpTask ==
    Prompt /\ IInv /\ TaskInv /\ (ShiftUp \/ OtherUp) /\ UNCHANGED <<switch, overview>> => TaskInv'
PROOF
<1>. SUFFICES ASSUME Prompt, IInv, TaskInv, ShiftUp \/ OtherUp, UNCHANGED <<switch, overview>>
              PROVE  TaskInv'
    OBVIOUS
<1>1. CASE ShiftUp
    <2>1. /\ Heard /\ Unstuck(queue) /\ UNCHANGED <<alt, walk, stack, desk, zorder, keys>>
          /\ held' = FALSE /\ shift' = FALSE
        BY <1>1 DEF ShiftUp
    <2>2. held' \in BOOLEAN /\ shift' = held'
        BY <2>1
    <2>. QED
        BY <2>1, <2>2, UnstuckTask
<1>2. CASE OtherUp
    <2>1. /\ Heard /\ Unstuck(queue) /\ UNCHANGED <<alt, walk, stack, desk, zorder, keys>>
          /\ held' = held /\ shift' = shift
        BY <1>2 DEF OtherUp
    <2>2. held' \in BOOLEAN /\ shift' = held'
        BY <2>1 DEF TaskInv, Keys
    <2>. QED
        BY <2>1, <2>2, UnstuckTask
<1>. QED
    BY <1>1, <1>2

LEMMA StepIs == \A back \in BOOLEAN : Step(back) \in {-1, 1}
PROOF
<1>. QED
    BY DEF Step

LEMMA TabDownTask ==
    Prompt /\ IInv /\ TaskInv /\ TabDown /\ UNCHANGED <<switch, overview>> => TaskInv'
PROOF
<1>. SUFFICES ASSUME Prompt, IInv, TaskInv, TabDown, UNCHANGED <<switch, overview>> PROVE TaskInv'
    OBVIOUS
<1>1. /\ Heard /\ alttab' = TRUE /\ keys < MaxKeys /\ keys' = keys + 1
      /\ UNCHANGED <<alt, held, shift, stack, desk, zorder, visible>>
    BY DEF TabDown, Press, switch
<1>2. /\ held \in BOOLEAN /\ shift = held /\ alt \in BOOLEAN /\ visible \in BOOLEAN
      /\ keys \in 0..MaxKeys /\ walk \in (-keys)..keys
    BY DEF TaskInv, Keys
<1>3. /\ Step(held) \in {-1, 1}
    BY <1>2, StepIs
<1>4. walk' = walk + Step(held) \/ walk' = Step(held) => walk' \in (-keys')..keys' /\ keys' \in 0..MaxKeys
    BY <1>1, <1>2, <1>3, KeysAssumption
<1>5. walk' \in (-keys')..keys' /\ keys' \in 0..MaxKeys => Keys'
    BY <1>1, <1>2 DEF Keys
<1>6. CASE alttab
    <2>. DEFINE m == Message(IF shift THEN "backward" ELSE "forward", NoMeaning)
    <2>1. queue' = Append(queue, m) /\ walk' = walk + Step(held)
        BY <1>6 DEF TabDown, Notify, Post
    <2>2. m.kind = IF shift THEN "backward" ELSE "forward"
        BY MessageIs
    <2>. HIDE DEF m
    <2>3. Follows(m, walk, walk')
        <3>1. CASE held
            <4>1. m.kind = "backward" /\ walk' = walk - 1
                BY <3>1, <1>2, <2>1, <2>2 DEF Step
            <4>. QED
                BY <4>1 DEF Follows, Hot, Idle
        <3>2. CASE ~held
            <4>1. m.kind = "forward" /\ walk' = walk + 1
                BY <3>2, <1>2, <2>1, <2>2 DEF Step
            <4>. QED
                BY <4>1 DEF Follows, Hot, Idle
        <3>. QED
            BY <3>1, <3>2
    <2>4. m.kind # "show" /\ m.kind \notin Hot /\ DeskStep(m) = 0
        BY <2>2 DEF Hot, DeskStep
    <2>5. keys' >= keys + DeskStep(m)
        BY <1>1, <1>2, <2>4
    <2>6. alttab'
        BY <1>1
    <2>. QED
        BY <1>1, <1>4, <1>5, <2>1, <2>3, <2>4, <2>5, <2>6, Posted
<1>7. CASE ~alttab
    <2>. DEFINE m == Message("hotkey", IF held THEN 1 ELSE 0)
    <2>1. queue' = Append(queue, m) /\ walk' = Step(held)
        BY <1>7 DEF TabDown
    <2>2. m.kind = "hotkey" /\ m.arg = IF held THEN 1 ELSE 0
        BY MessageIs
    <2>. HIDE DEF m
    <2>3. Step(m.arg = 1) = Step(held)
        BY <1>2, <2>2 DEF Step
    <2>4. m.kind # "show" /\ Follows(m, walk, walk') /\ DeskStep(m) = 0
        BY <2>1, <2>2, <2>3 DEF Follows, Hot, Idle, DeskStep
    <2>5. keys' >= keys + DeskStep(m)
        BY <1>1, <1>2, <2>4
    <2>6. alttab' /\ walk' = Step(m.arg = 1)
        BY <1>1, <2>1, <2>3
    <2>. QED
        BY <1>1, <1>4, <1>5, <1>7, <2>1, <2>2, <2>4, <2>5, <2>6, Posted
<1>. QED
    BY <1>6, <1>7

LEMMA EscapeTask ==
    Prompt /\ IInv /\ TaskInv /\ EscapeDown /\ UNCHANGED <<switch, overview>> => TaskInv'
PROOF
<1>. SUFFICES ASSUME Prompt, IInv, TaskInv, EscapeDown, UNCHANGED <<switch, overview>>
              PROVE  TaskInv'
    OBVIOUS
<1>1. /\ Heard /\ alttab' = FALSE /\ keys < MaxKeys /\ keys' = keys + 1
      /\ queue' = Append(queue, Message("cancel", NoMeaning))
      /\ UNCHANGED <<alt, held, shift, walk, stack, desk, zorder, visible>>
    BY DEF EscapeDown, Press, Notify, Post, switch
<1>2. Keys' /\ keys' >= keys
    <2>1. keys \in 0..MaxKeys /\ walk \in (-keys)..keys
        BY DEF TaskInv, Keys
    <2>2. keys' \in 0..MaxKeys /\ walk' \in (-keys')..keys' /\ keys' >= keys
        BY <1>1, <2>1, KeysAssumption
    <2>. QED
        BY <1>1, <2>2 DEF TaskInv, Keys
<1>. QED
    BY <1>1, <1>2, CancelPosted

LEMMA AltUpTask ==
    Prompt /\ IInv /\ TaskInv /\ AltUp /\ UNCHANGED <<switch, overview>> => TaskInv'
PROOF
<1>. SUFFICES ASSUME Prompt, IInv, TaskInv, AltUp, UNCHANGED <<switch, overview>> PROVE TaskInv'
    OBVIOUS
<1>1. /\ Heard /\ alt' = FALSE /\ alttab' = FALSE
      /\ UNCHANGED <<held, shift, walk, stack, desk, zorder, keys, visible>>
    BY DEF AltUp, switch
<1>2. Keys'
    BY <1>1 DEF TaskInv, Keys
<1>3. CASE alttab
    <2>. DEFINE m == Message("select", walk)
    <2>1. queue' = Append(queue, m)
        BY <1>3 DEF AltUp, Post
    <2>2. m.kind = "select" /\ m.arg = walk
        BY MessageIs
    <2>. HIDE DEF m
    <2>3. m.kind # "show" /\ Follows(m, walk, walk') /\ DeskStep(m) = 0 /\ m.kind \notin Hot
          /\ m.kind \in Hiding
        BY <2>2, <1>1 DEF Follows, Hot, Idle, Hiding, DeskStep
    <2>4. keys' >= keys + DeskStep(m)
        BY <1>1, <2>3, KeysAssumption DEF TaskInv, Keys
    <2>. QED
        BY <1>1, <1>2, <2>1, <2>3, <2>4, Posted
<1>4. CASE ~alttab
    <2>1. queue' = queue /\ alttab' = alttab
        BY <1>1, <1>4 DEF AltUp, TaskInv, Keys
    <2>. QED
        BY <1>1, <1>2, <2>1, KeysQuiet
<1>. QED
    BY <1>3, <1>4

\* Enter goes up after Alt: the other workspace, and then no switcher.
LEMMA EnterTwice ==
    ASSUME IInv, TaskInv, Prompt, Heard, Keys',
           UNCHANGED <<stack, desk, zorder, switch, overview>>,
           walk' = 0, keys' = keys + 1,
           queue' = Append(Append(queue, Message("desk", NoMeaning)), Message("cancel", NoMeaning))
    PROVE  TaskInv'
PROOF
<1>. DEFINE m == Message("desk", NoMeaning)
            e == Message("cancel", NoMeaning)
            q == Append(queue, m)
<1>1. m.kind = "desk" /\ e.kind = "cancel"
    BY MessageIs
<1>2. queue' = Append(q, e)
    OBVIOUS
<1>. HIDE DEF m, e
<1>3. AnySeq(queue) /\ NoneOf(queue, Hot) /\ NoneOf(queue, {"select"}) /\ ~InStack("do_select")
    BY HeardFacts DEF IInv, Types
<1>4. AnySeq(q) /\ \A i \in DOMAIN q : (i \in DOMAIN queue /\ q[i] = queue[i]) \/ q[i] = m
    BY <1>3, AppendIs, Longer
<1>5. m.kind \notin Hot /\ e.kind \notin Hot /\ e.kind \in Hiding /\ DeskStep(m) = 1 /\ DeskStep(e) = 0
    BY <1>1 DEF Hot, Hiding, DeskStep
<1>6. NoneOf(q, Hot)
    BY <1>3, <1>5, HotkeysOther
<1>. HIDE DEF q
<1>7. UNCHANGED <<visible, task_list, task_index, ts_desk, items, shown_desk, update_thread, made,
                  threads, last>>
    BY DEF switch, overview
<1>8. Lists' /\ Frames' /\ OverviewTypes'
    BY <1>7 DEF TaskInv, Lists, Frames, OverviewTypes
<1>9. Choice'
    <2>1. NoneOf(q, {"select"})
        BY <1>1, <1>3, <1>4 DEF NoneOf
    <2>2. ChosenLast(queue')
        BY <2>1, <1>2, <1>4, ChosenNow
    <2>3. ~InStack("do_select")'
        BY <1>3 DEF InStack
    <2>. QED
        BY <2>2, <2>3 DEF Choice
<1>10. Hotkeys'
    BY <1>2, <1>4, <1>5, <1>6, HotkeysOther DEF Hotkeys
<1>11. Hidden'
    BY <1>2, <1>4, <1>5, HiddenBy DEF Hidden
<1>12. keys \in Int /\ keys' = keys + 1
    BY KeysAssumption DEF TaskInv, Keys
<1>13. Shows'
    <2>1. \A i \in DOMAIN queue' : (i \in DOMAIN q /\ queue'[i] = q[i]) \/ queue'[i] = e
        BY <1>2, <1>4, Longer
    <2>2. Waiting("show")' => Waiting("show")
        BY <2>1, <1>1, <1>4 DEF Waiting
    <2>3. last \in Int
        BY DEF IInv, Types
    <2>. QED
        BY <1>7, <1>12, <2>2, <2>3 DEF TaskInv, Shows
<1>14. Course'
    <2>1. PICK a \in Int : AtIndex(a) /\ Leads(queue, a, walk)
        BY DEF TaskInv, Course
    <2>2. Follows(m, walk, 0) /\ Follows(e, 0, 0)
        BY <1>1 DEF Follows, Hot, Idle
    <2>3. Leads(q, a, 0)
        BY <2>1, <2>2, <1>3, LeadsAppend DEF q
    <2>4. Leads(queue', a, walk')
        <3>1. Leads(Append(q, e), a, 0)
            BY <2>1, <2>2, <2>3, <1>4, LeadsAppend
        <3>. QED
            BY <3>1, <1>2
    <2>5. AtIndex(a)'
        BY <2>1, <1>7 DEF AtIndex
    <2>. QED
        BY <2>4, <2>5 DEF Course
<1>15. Slack'
    <2>1. Fits(queue, ts_desk, NDesks - 1 + keys) /\ ts_desk \in Int
        BY DEF TaskInv, Slack, Lists
    <2>. DEFINE n == NDesks - 1 + keys
                l == NDesks - 1 + keys'
    <2>2. n \in Int /\ l \in Int /\ l >= n + 1
        BY <1>12, DesksAssumption
    <2>. HIDE DEF n, l
    <2>3. Fits(queue, ts_desk, n)
        BY <2>1 DEF n
    <2>4. l >= n + DeskStep(m) /\ l >= l + DeskStep(e)
        BY <1>5, <2>2
    <2>5. Fits(q, ts_desk, l)
        BY <2>1, <2>2, <2>3, <2>4, <1>3, FitsAppend DEF q
    <2>6. Fits(queue', ts_desk, l)
        BY <2>1, <2>2, <2>4, <2>5, <1>2, <1>4, FitsAppend
    <2>. QED
        BY <2>6, <1>7 DEF Slack, l
<1>. QED
    BY <1>8, <1>9, <1>10, <1>11, <1>13, <1>14, <1>15 DEF TaskInv

LEMMA EnterUpTask ==
    Prompt /\ IInv /\ TaskInv /\ EnterUp /\ UNCHANGED <<switch, overview>> => TaskInv'
PROOF
<1>. SUFFICES ASSUME Prompt, IInv, TaskInv, EnterUp, UNCHANGED <<switch, overview>>
              PROVE  TaskInv'
    OBVIOUS
<1>1. /\ Heard /\ alttab /\ keys < MaxKeys /\ keys' = keys + 1 /\ walk' = 0
      /\ Unstuck(Append(queue, Message("desk", NoMeaning)))
      /\ UNCHANGED <<alt, held, shift, stack, desk, zorder, visible>>
    BY DEF EnterUp, Press, Post, switch
<1>2. keys \in 0..MaxKeys /\ keys' \in 0..MaxKeys /\ walk' \in (-keys')..keys'
    <2>1. keys \in 0..MaxKeys
        BY DEF TaskInv, Keys
    <2>. QED
        BY <1>1, <2>1, KeysAssumption
<1>3. alttab' \in BOOLEAN => Keys'
    BY <1>1, <1>2 DEF TaskInv, Keys
<1>4. CASE ~alt
    <2>1. alttab' = FALSE
          /\ queue' = Append(Append(queue, Message("desk", NoMeaning)), Message("cancel", NoMeaning))
        BY <1>1, <1>4 DEF Unstuck, Post
    <2>. QED
        BY <1>1, <1>3, <2>1, EnterTwice
<1>5. CASE alt
    <2>. DEFINE m == Message("desk", NoMeaning)
    <2>1. alttab' = alttab /\ queue' = Append(queue, m)
        BY <1>1, <1>5 DEF Unstuck
    <2>2. m.kind = "desk"
        BY MessageIs
    <2>. HIDE DEF m
    <2>3. m.kind # "show" /\ Follows(m, walk, walk') /\ DeskStep(m) = 1 /\ m.kind \notin Hot
        BY <1>1, <2>2 DEF Follows, Hot, Idle, DeskStep
    <2>4. keys' >= keys + DeskStep(m) /\ alttab' /\ alttab' \in BOOLEAN
        BY <1>1, <1>2, <2>1, <2>3 DEF TaskInv, Keys
    <2>. QED
        BY <1>1, <1>3, <2>1, <2>3, <2>4, Posted
<1>. QED
    BY <1>4, <1>5

LEMMA KeyProcTask == Prompt /\ IInv /\ TaskInv /\ KeyProc /\ UNCHANGED overview => TaskInv'
PROOF
<1>. QED
    BY AltDownTask, ShiftDownTask, TabDownTask, EscapeTask, EnterUpTask, KeyUpTask, AltUpTask,
       AltUpLostTask DEF KeyProc

-----------------------------------------------------------------------------
(* Steps that take a message, and steps that leave the queue alone.  Each  *)
(* lemma says what a step must show of what it changes.                    *)

\* A message is taken that no key has left behind a choice.
LEMMA Taken ==
    ASSUME IInv, TaskInv, queue # <<>>, queue' = Tail(queue),
           UNCHANGED <<alt, held, alttab, shift, walk, keys>>
    PROVE  /\ AnySeq(queue) /\ AnySeq(queue')
           /\ (visible' \in BOOLEAN => Keys')
           /\ Hotkeys'
           /\ ChosenLast(queue')
           /\ (Waiting("show")' => Waiting("show"))
           /\ (OnlyOf(queue, {"show"}) => OnlyOf(queue', {"show"}))
           /\ \A kind : Waiting(kind)' => Waiting(kind)
PROOF
<1>1. AnySeq(queue) /\ AnySeq(queue')
    BY TailFacts DEF IInv, Types
<1>2. visible' \in BOOLEAN => Keys'
    BY DEF TaskInv, Keys
<1>3. Hotkeys'
    BY <1>1, HotkeysTail DEF TaskInv, Hotkeys
<1>4. ChosenLast(queue')
    BY <1>1, ChosenTail DEF TaskInv, Choice
<1>5. \A i \in DOMAIN queue' : i + 1 \in DOMAIN queue /\ queue'[i] = queue[i + 1]
    BY <1>1, Shorter
<1>6. \A kind : Waiting(kind)' => Waiting(kind)
    BY <1>5 DEF Waiting
<1>7. OnlyOf(queue, {"show"}) => OnlyOf(queue', {"show"})
    BY <1>1, OnlyTail
<1>. QED
    BY <1>1, <1>2, <1>3, <1>4, <1>6, <1>7

\* The head tells what do_select can be under way.
LEMMA HeadIs ==
    ASSUME IInv, TaskInv, queue # <<>>
    PROVE  /\ Waiting(Head(queue).kind)
           /\ InStack("do_select") => Head(queue).kind = "show"
           /\ Head(queue).kind \in Hot => alttab /\ OnlyOf(Tail(queue), Idle)
                                          /\ walk = Step(Head(queue).arg = 1)
PROOF
<1>1. AnySeq(queue)
    BY DEF IInv, Types
<1>2. Head(queue) = queue[1] /\ 1 \in DOMAIN queue
    BY <1>1, Shorter
<1>3. InStack("do_select") => Head(queue).kind = "show"
    BY <1>1, OnlyTail DEF TaskInv, Choice
<1>4. Head(queue).kind \in Hot => alttab /\ OnlyOf(Tail(queue), Idle)
                                          /\ walk = Step(Head(queue).arg = 1)
    BY <1>1, HotkeysTail DEF TaskInv, Hotkeys
<1>. QED
    BY <1>2, <1>3, <1>4 DEF Waiting

\* Without do_select under way the list may be made anew.
LEMMA FramesFree ==
    ASSUME NEW s, NEW l, NEW d, FramesIn(s, l, d), ~Has(s, "do_select")
    PROVE  \A list, e, active : FramesIn(s, list, e) /\ Arrives(s, list, e, active)
PROOF
<1>. QED
    BY DEF FramesIn, Arrives, Has

\* A message to the switcher's window.
LEMMA SwitchMessage ==
    ASSUME IInv, TaskInv, queue # <<>>, queue' = Tail(queue), Head(queue).kind # "show",
           UNCHANGED <<keyboard, stack, desk, zorder, keys, overview>>,
           visible' \in BOOLEAN, Lists', Slack', Course',
           \/ Head(queue).kind \in Hot
           \/ /\ visible' => Head(queue).kind \notin Hiding
              /\ visible' => visible \/ Head(queue).kind \in Showing
    PROVE  TaskInv'
PROOF
<1>1. UNCHANGED <<alt, held, alttab, shift, walk, keys, stack, desk, items, shown_desk,
                  update_thread, made, threads, last>>
    BY DEF keyboard, overview
<1>2. /\ AnySeq(queue) /\ AnySeq(queue') /\ Keys' /\ Hotkeys' /\ ChosenLast(queue')
      /\ Waiting("show")' => Waiting("show")
      /\ Waiting("hotkey")' => Waiting("hotkey")
    BY <1>1, Taken
<1>3. /\ ~InStack("do_select")
      /\ Head(queue).kind \in Hot => alttab /\ OnlyOf(Tail(queue), Idle)
    BY HeadIs
<1>4. ~InStack("do_select")'
    BY <1>1, <1>3 DEF InStack
<1>5. Choice'
    BY <1>2, <1>4 DEF Choice
<1>6. Frames'
    <2>1. ~Has(stack, "do_select") /\ FramesIn(stack, task_list, ts_desk + 1)
        BY <1>3, InStackIs DEF TaskInv, Frames
    <2>2. \A list, e, active : FramesIn(stack, list, e) /\ Arrives(stack, list, e, active)
        BY <2>1, FramesFree
    <2>. QED
        BY <1>1, <2>2 DEF Frames
<1>7. Shows' /\ OverviewTypes'
    BY <1>1, <1>2 DEF TaskInv, Shows, OverviewTypes
<1>8. Hidden'
    <2>1. CASE Head(queue).kind \in Hot
        <3>1. alttab' /\ OnlyOf(queue', Idle)
            BY <2>1, <1>1, <1>3
        <3>2. ~Waiting("hotkey")'
            BY <3>1 DEF OnlyOf, Waiting, Idle
        <3>. QED
            BY <3>1, <3>2 DEF Hidden
    <2>2. CASE /\ visible' => Head(queue).kind \notin Hiding
               /\ visible' => visible \/ Head(queue).kind \in Showing
        <3>1. HiddenIn(queue, visible) => HiddenIn(queue', visible')
            BY <2>2, <1>2, HiddenTail
        <3>. QED
            BY <3>1, <1>1, <1>2 DEF TaskInv, Hidden
    <2>. QED
        BY <2>1, <2>2
<1>. QED
    BY <1>2, <1>5, <1>6, <1>7, <1>8 DEF TaskInv

\* Where the messages led, they still lead.
LEMMA CourseGoesOn ==
    ASSUME IInv, TaskInv, queue # <<>>, queue' = Tail(queue), UNCHANGED walk,
           \A a, c \in Int : AtIndex(a) /\ Follows(Head(queue), a, c) => AtIndex(c)'
    PROVE  Course'
PROOF
<1>1. AnySeq(queue)
    BY DEF IInv, Types
<1>2. PICK a \in Int : AtIndex(a) /\ Leads(queue, a, walk)
    BY DEF TaskInv, Course
<1>3. PICK c \in Int : Follows(Head(queue), a, c) /\ Leads(Tail(queue), c, walk)
    BY <1>1, <1>2, LeadsTail
<1>4. AtIndex(c)' /\ Leads(queue', c, walk')
    BY <1>2, <1>3
<1>. QED
    BY <1>4 DEF Course

LEMMA SlackGoesOn ==
    ASSUME IInv, TaskInv, queue # <<>>, queue' = Tail(queue), UNCHANGED keys, ts_desk' \in Int,
           ts_desk' <= ts_desk + DeskStep(Head(queue)) \/ ts_desk' <= NDesks - 1
    PROVE  Slack'
PROOF
<1>1. AnySeq(queue) /\ ts_desk \in Int /\ Fits(queue, ts_desk, NDesks - 1 + keys)
    BY DEF IInv, Types, TaskInv, Lists, Slack
<1>2. NDesks - 1 + keys \in Int
    BY DesksAssumption, KeysAssumption DEF TaskInv, Keys
<1>3. Fits(Tail(queue), ts_desk', NDesks - 1 + keys)
    BY <1>1, <1>2, FitsTail
<1>. QED
    BY <1>3 DEF Slack

LEMMA ActivateTask ==
    ASSUME IInv, TaskInv, queue # <<>>, queue' = Tail(queue), Head(queue).kind = "activate",
           Activate(Head(queue).arg = 1),
           UNCHANGED <<keyboard, stack, desk, zorder, keys, overview>>
    PROVE  TaskInv'
PROOF
<1>. DEFINE m == Head(queue)
            back == (Head(queue).arg = 1)
<1>1. /\ ts_desk' = desk - 1 /\ task_list' \in WindowsOf(desk)
      /\ task_index' = FirstIndex(back, task_list') /\ visible' = TRUE
    BY DEF Activate
<1>2. /\ zorder \in Seq(Windows) /\ IsInjective(zorder) /\ desk \in 1..NDesks
    BY DEF TaskInv, Lists
<1>3. /\ task_list' \in Seq(Windows) /\ IsInjective(task_list')
      /\ \A i \in DOMAIN task_list' : desk \in HomeOf[task_list'[i]]
    BY <1>1, <1>2, WindowsOfType
<1>4. ts_desk' + 1 = desk /\ ts_desk' \in Int /\ ts_desk' >= -1 /\ ts_desk' <= NDesks - 1
    BY <1>1, <1>2, DesksAssumption
<1>5. back \in BOOLEAN
    OBVIOUS
<1>. HIDE DEF back
<1>6. ASSUME task_list' # <<>>
      PROVE  task_index' \in 0..(Len(task_list') - 1) /\ task_index' = Step(back) % Len(task_list')
    <2>. DEFINE n == Len(task_list')
    <2>1. n \in Nat \ {0}
        BY <1>3, <1>6, EmptySeq, LenProperties
    <2>2. task_index' = IF n < 2 THEN 0 ELSE IF back THEN n - 1 ELSE 1
        BY <1>1 DEF FirstIndex
    <2>. HIDE DEF n
    <2>3. task_index' = Step(back) % n
        BY <2>1, <2>2, <1>5, IndexFirst
    <2>4. task_index' \in 0..(n - 1)
        BY <2>1, <2>2
    <2>. QED
        BY <2>3, <2>4 DEF n
<1>7. Lists'
    BY <1>2, <1>3, <1>4, <1>6 DEF Lists
<1>8. Slack'
    BY <1>4, SlackGoesOn
<1>9. Course'
    <2>1. ASSUME NEW a \in Int, NEW c \in Int, Follows(Head(queue), a, c) PROVE AtIndex(c)'
        <3>1. c = Step(back)
            BY <2>1 DEF Follows, Hot, back
        <3>. QED
            BY <3>1, <1>6 DEF AtIndex
    <2>2. UNCHANGED walk
        BY DEF keyboard
    <2>. QED
        BY <2>1, <2>2, CourseGoesOn
<1>10. visible' \in BOOLEAN /\ Head(queue).kind # "show" /\ Head(queue).kind \in Hot
    BY <1>1 DEF Hot
<1>. QED
    BY <1>7, <1>8, <1>9, <1>10, SwitchMessage

LEMMA NextDeskTask ==
    ASSUME IInv, TaskInv, queue # <<>>, queue' = Tail(queue), Head(queue).kind = "desk",
           NextDesk, UNCHANGED <<keyboard, stack, desk, zorder, keys, overview>>
    PROVE  TaskInv'
PROOF
<1>1. /\ ts_desk' = ts_desk + 1 \/ ts_desk' = 0
      /\ task_list' \in WindowsOf(ts_desk' + 1)
      /\ task_index' = 0 /\ visible' = TRUE
    BY DEF NextDesk
<1>2. /\ zorder \in Seq(Windows) /\ IsInjective(zorder) /\ desk \in 1..NDesks
      /\ ts_desk \in Int /\ ts_desk >= -1
    BY DEF TaskInv, Lists
<1>3. /\ task_list' \in Seq(Windows) /\ IsInjective(task_list')
      /\ \A i \in DOMAIN task_list' : ts_desk' + 1 \in HomeOf[task_list'[i]]
    BY <1>1, <1>2, WindowsOfType
<1>4. ts_desk' \in Int /\ ts_desk' >= -1
    BY <1>1, <1>2
<1>5. ASSUME task_list' # <<>>
      PROVE  task_index' \in 0..(Len(task_list') - 1) /\ task_index' = 0 % Len(task_list')
    <2>. DEFINE n == Len(task_list')
    <2>1. n \in Nat \ {0}
        BY <1>3, <1>5, EmptySeq, LenProperties
    <2>. HIDE DEF n
    <2>2. 0 \in 0..(n - 1) /\ 0 + n * 0 = 0
        BY <2>1
    <2>3. (0 + n * 0) % n = 0
        BY <2>1, <2>2, IndexOf
    <2>4. 0 % n = 0
        BY <2>2, <2>3
    <2>. QED
        BY <1>1, <2>2, <2>4 DEF n
<1>6. Lists'
    BY <1>2, <1>3, <1>4, <1>5 DEF Lists
<1>7. Slack'
    <2>1. DeskStep(Head(queue)) = 1
        BY DEF DeskStep
    <2>2. ts_desk' <= ts_desk + 1 \/ ts_desk' <= NDesks - 1
        BY <1>1, <1>2, DesksAssumption
    <2>. QED
        BY <2>1, <2>2, <1>4, SlackGoesOn
<1>8. Course'
    <2>1. ASSUME NEW a \in Int, NEW c \in Int, Follows(Head(queue), a, c) PROVE AtIndex(c)'
        <3>1. c = 0
            BY <2>1 DEF Follows
        <3>. QED
            BY <3>1, <1>5 DEF AtIndex
    <2>2. UNCHANGED walk
        BY DEF keyboard
    <2>. QED
        BY <2>1, <2>2, CourseGoesOn
<1>9. visible' \in BOOLEAN /\ Head(queue).kind # "show" /\ Head(queue).kind \notin Hiding
      /\ Head(queue).kind \in Showing
    BY <1>1 DEF Hiding, Showing
<1>. QED
    BY <1>6, <1>7, <1>8, <1>9, SwitchMessage

\* The list stays, and the index moves as the message says.
LEMMA MoveTask ==
    ASSUME IInv, TaskInv, queue # <<>>, queue' = Tail(queue),
           Head(queue).kind \in {"forward", "backward", "cancel"},
           UNCHANGED <<task_list, ts_desk>>, visible' \in BOOLEAN, visible' => visible,
           Head(queue).kind = "cancel" => ~visible',
           task_list # <<>> => task_index' \in 0..(Len(task_list) - 1),
           \A a, c \in Int : AtIndex(a) /\ Follows(Head(queue), a, c) => AtIndex(c)',
           UNCHANGED <<keyboard, stack, desk, zorder, keys, overview>>
    PROVE  TaskInv'
PROOF
<1>1. Lists'
    BY DEF TaskInv, Lists
<1>2. Slack'
    <2>1. DeskStep(Head(queue)) = 0
        BY DEF DeskStep
    <2>2. ts_desk' \in Int /\ ts_desk' <= ts_desk + 0
        BY DEF TaskInv, Lists
    <2>. QED
        BY <2>1, <2>2, SlackGoesOn
<1>3. Course'
    <2>1. UNCHANGED walk
        BY DEF keyboard
    <2>. QED
        BY <2>1, CourseGoesOn
<1>4. Head(queue).kind # "show" /\ (visible' => Head(queue).kind \notin Hiding)
    BY DEF Hiding
<1>. QED
    BY <1>1, <1>2, <1>3, <1>4, SwitchMessage

LEMMA ListLength ==
    ASSUME TaskInv, task_list # <<>>
    PROVE  Len(task_list) \in Nat \ {0} /\ task_index \in 0..(Len(task_list) - 1)
PROOF
<1>1. task_list \in Seq(Windows) /\ task_index \in 0..(Len(task_list) - 1)
    BY DEF TaskInv, Lists
<1>2. Len(task_list) \in Nat \ {0}
    BY <1>1, EmptySeq, LenProperties
<1>. QED
    BY <1>1, <1>2

LEMMA ForwardTask ==
    ASSUME IInv, TaskInv, queue # <<>>, queue' = Tail(queue), Head(queue).kind = "forward",
           Forward, UNCHANGED <<keyboard, stack, desk, zorder, keys, overview>>
    PROVE  TaskInv'
PROOF
<1>1. /\ task_index' = IF task_index + 1 >= Len(task_list) THEN 0 ELSE task_index + 1
      /\ UNCHANGED <<visible, task_list, ts_desk>>
    BY DEF Forward
<1>2. task_list # <<>> => task_index' \in 0..(Len(task_list) - 1)
    BY <1>1, ListLength
<1>3. ASSUME NEW a \in Int, NEW c \in Int, AtIndex(a), Follows(Head(queue), a, c) PROVE AtIndex(c)'
    <2>1. c = a + 1
        BY <1>3 DEF Follows
    <2>. SUFFICES ASSUME task_list # <<>> PROVE task_index' = c % Len(task_list)
        BY <1>1 DEF AtIndex
    <2>. DEFINE n == Len(task_list)
    <2>2. n \in Nat \ {0}
        BY ListLength
    <2>3. task_index = a % n
        BY <1>3 DEF AtIndex
    <2>4. task_index' = IF task_index + 1 >= n THEN 0 ELSE task_index + 1
        BY <1>1
    <2>. HIDE DEF n
    <2>5. task_index' = (a + 1) % n
        BY <2>2, <2>3, <2>4, IndexForward
    <2>. QED
        BY <2>1, <2>5 DEF n
<1>4. visible' \in BOOLEAN /\ (visible' => visible)
    BY <1>1 DEF TaskInv, Keys
<1>. QED
    BY <1>1, <1>2, <1>3, <1>4, MoveTask

LEMMA BackwardTask ==
    ASSUME IInv, TaskInv, queue # <<>>, queue' = Tail(queue), Head(queue).kind = "backward",
           Backward, UNCHANGED <<keyboard, stack, desk, zorder, keys, overview>>
    PROVE  TaskInv'
PROOF
<1>1. /\ task_index' = IF task_index <= 0 THEN Len(task_list) - 1 ELSE task_index - 1
      /\ UNCHANGED <<visible, task_list, ts_desk>>
    BY DEF Backward
<1>2. task_list # <<>> => task_index' \in 0..(Len(task_list) - 1)
    BY <1>1, ListLength
<1>3. ASSUME NEW a \in Int, NEW c \in Int, AtIndex(a), Follows(Head(queue), a, c) PROVE AtIndex(c)'
    <2>1. c = a - 1
        BY <1>3 DEF Follows
    <2>. SUFFICES ASSUME task_list # <<>> PROVE task_index' = c % Len(task_list)
        BY <1>1 DEF AtIndex
    <2>. DEFINE n == Len(task_list)
    <2>2. n \in Nat \ {0}
        BY ListLength
    <2>3. task_index = a % n
        BY <1>3 DEF AtIndex
    <2>4. task_index' = IF task_index <= 0 THEN n - 1 ELSE task_index - 1
        BY <1>1
    <2>. HIDE DEF n
    <2>5. task_index' = (a - 1) % n
        BY <2>2, <2>3, <2>4, IndexBackward
    <2>. QED
        BY <2>1, <2>5 DEF n
<1>4. visible' \in BOOLEAN /\ (visible' => visible)
    BY <1>1 DEF TaskInv, Keys
<1>. QED
    BY <1>1, <1>2, <1>3, <1>4, MoveTask

LEMMA CancelTask ==
    ASSUME IInv, TaskInv, queue # <<>>, queue' = Tail(queue), Head(queue).kind = "cancel",
           Cancel, UNCHANGED <<keyboard, stack, desk, zorder, keys, overview>>
    PROVE  TaskInv'
PROOF
<1>1. visible' = FALSE /\ UNCHANGED <<task_list, task_index, ts_desk>>
    BY DEF Cancel
<1>2. task_list # <<>> => task_index' \in 0..(Len(task_list) - 1)
    BY <1>1, ListLength
<1>3. ASSUME NEW a \in Int, NEW c \in Int, AtIndex(a), Follows(Head(queue), a, c) PROVE AtIndex(c)'
    <2>1. c = a
        BY <1>3 DEF Follows, Idle
    <2>. QED
        BY <2>1, <1>1, <1>3 DEF AtIndex
<1>. QED
    BY <1>1, <1>2, <1>3, MoveTask

LEMMA OnSwitchMessageTask ==
    IInv /\ TaskInv /\ OnSwitchMessage /\ UNCHANGED overview => TaskInv'
PROOF
<1>. SUFFICES ASSUME IInv, TaskInv, OnSwitchMessage, UNCHANGED overview PROVE TaskInv'
    OBVIOUS
<1>1. /\ queue # <<>> /\ queue' = Tail(queue)
      /\ Head(queue).kind \in {"activate", "forward", "backward", "desk", "cancel"}
      /\ Moves(Head(queue))
      /\ UNCHANGED <<keyboard, stack, desk, zorder, keys, overview>>
    BY DEF OnSwitchMessage, Receives
<1>2. CASE Head(queue).kind = "activate"
    <2>1. Activate(Head(queue).arg = 1)
        BY <1>1, <1>2 DEF Moves
    <2>. QED
        BY <1>1, <1>2, <2>1, ActivateTask
<1>3. CASE Head(queue).kind = "forward"
    <2>1. Forward
        BY <1>1, <1>3 DEF Moves
    <2>. QED
        BY <1>1, <1>3, <2>1, ForwardTask
<1>4. CASE Head(queue).kind = "backward"
    <2>1. Backward
        BY <1>1, <1>4 DEF Moves
    <2>. QED
        BY <1>1, <1>4, <2>1, BackwardTask
<1>5. CASE Head(queue).kind = "desk"
    <2>1. NextDesk
        BY <1>1, <1>5 DEF Moves
    <2>. QED
        BY <1>1, <1>5, <2>1, NextDeskTask
<1>6. CASE Head(queue).kind = "cancel"
    <2>1. Cancel
        BY <1>1, <1>6 DEF Moves
    <2>. QED
        BY <1>1, <1>6, <2>1, CancelTask
<1>. QED
    BY <1>1, <1>2, <1>3, <1>4, <1>5, <1>6

-----------------------------------------------------------------------------
(* do_select.                                                              *)
LEMMA SwitchDesktopIs ==
    ASSUME NEW d, NEW s
    PROVE  \/ SwitchDesktop(d, s) = s /\ (d \notin 1..NDesks \/ d = desk \/ Has(stack, "switch_desktop"))
           \/ /\ d \in 1..NDesks
              /\ SwitchDesktop(d, s) = <<Frame("switch_desktop", "pump", d, NoMeaning)>> \o s
PROOF
<1>. QED
    BY InStackIs DEF SwitchDesktop

LEMMA FrameIs ==
    \A proc, at, arg, meant :
        /\ Frame(proc, at, arg, meant).proc = proc /\ Frame(proc, at, arg, meant).arg = arg
        /\ Frame(proc, at, arg, meant).meant = meant
PROOF
<1>. QED
    BY DEF Frame

\* do_select comes to its own workspace, or its list is empty, or another switch goes on.
LEMMA SelectArrives ==
    ASSUME AnySeq(stack), Lists, Frames, ~InStack("do_select"), NEW i, NEW meant,
           do_select(i, meant),
           task_list # <<>> => i = meant % Len(task_list)
    PROVE  Frames' /\ AnySeq(stack')
PROOF
<1>. DEFINE f == Frame("do_select", "switched", i, meant)
            s == <<f>> \o stack
            d == ts_desk + 1
            w == Frame("switch_desktop", "pump", d, NoMeaning)
<1>1. f.proc = "do_select" /\ f.arg = i /\ f.meant = meant /\ w.proc = "switch_desktop" /\ w.arg = d
    BY FrameIs
<1>2. /\ stack' = IF ts_desk # desk - 1 THEN SwitchDesktop(d, s) ELSE s
      /\ UNCHANGED <<task_list, ts_desk, desk>>
    BY DEF do_select
<1>. HIDE DEF f, w
<1>3. FramesIn(stack, task_list, d)
    BY DEF Frames
<1>4. FramesIn(s, task_list, d)
    BY <1>1, <1>3, FramesSelect
<1>5. AnySeq(s) /\ \A proc : Has(s, proc) <=> proc = "do_select" \/ Has(stack, proc)
    BY <1>1, PushFacts
<1>. HIDE DEF s
<1>6. CASE stack' = s
    <2>1. desk = d \/ d \notin 1..NDesks \/ Has(stack, "switch_desktop")
        <3>1. CASE ts_desk # desk - 1
            <4>1. s = SwitchDesktop(d, s)
                BY <1>2, <1>6, <3>1
            <4>2. s # <<w>> \o s
                <5>1. Len(<<w>> \o s) = Len(s) + 1
                    <6>1. s \in Seq({s[j] : j \in DOMAIN s} \cup {w})
                        BY <1>5, SeqMonotonic DEF AnySeq
                    <6>2. <<w>> \in Seq({s[j] : j \in DOMAIN s} \cup {w}) /\ Len(<<w>>) = 1
                        OBVIOUS
                    <6>. QED
                        BY <6>1, <6>2, ConcatProperties, LenProperties
                <5>2. Len(s) \in Nat
                    BY <1>5, AnySeqFacts
                <5>3. Len(<<w>> \o s) # Len(s)
                    BY <5>1, <5>2
                <5>. QED
                    BY <5>3
            <4>. QED
                BY <4>1, <4>2, SwitchDesktopIs DEF w
        <3>2. CASE ts_desk = desk - 1
            BY <3>2 DEF Lists
        <3>. QED
            BY <3>1, <3>2
    <2>2. task_list # <<>> => d \in 1..NDesks
        <3>. SUFFICES ASSUME task_list # <<>> PROVE d \in 1..NDesks
            OBVIOUS
        <3>1. task_list \in Seq(Windows) /\ \A k \in DOMAIN task_list : d \in HomeOf[task_list[k]]
            BY DEF Lists
        <3>2. 1 \in DOMAIN task_list /\ task_list[1] \in Windows
            BY <3>1, EmptySeq, LenProperties
        <3>. QED
            BY <3>1, <3>2, HomeAssumption
    <2>3. Arrives(s, task_list, d, desk)
        BY <2>1, <2>2, <1>5 DEF Arrives
    <2>. QED
        BY <2>3, <1>2, <1>4, <1>5, <1>6 DEF Frames
<1>7. CASE d \in 1..NDesks /\ stack' = <<w>> \o s
    <2>1. FramesIn(stack', task_list, d)
        BY <1>1, <1>4, <1>5, <1>7, FramesSwitch
    <2>2. AnySeq(stack') /\ Has(stack', "switch_desktop")
        BY <1>1, <1>5, <1>7, PushFacts
    <2>. QED
        BY <2>1, <2>2, <1>2 DEF Frames, Arrives
<1>. QED
    BY <1>2, <1>6, <1>7, SwitchDesktopIs DEF w

LEMMA SelectTask ==
    IInv /\ TaskInv /\ Select /\ UNCHANGED overview => TaskInv'
PROOF
<1>. SUFFICES ASSUME IInv, TaskInv, Select, UNCHANGED overview PROVE TaskInv'
    OBVIOUS
<1>1. /\ queue # <<>> /\ Head(queue).kind = "select" /\ queue' = Tail(queue)
      /\ do_select(task_index, Head(queue).arg) /\ UNCHANGED keys
    BY DEF Select, Receives
<1>2. /\ visible' = FALSE
      /\ UNCHANGED <<task_list, task_index, ts_desk, desk, zorder, keyboard>>
    BY <1>1 DEF do_select
<1>3. UNCHANGED <<alt, held, alttab, shift, walk, keys, items, shown_desk, update_thread, made,
                  threads, last>>
    BY <1>1, <1>2 DEF keyboard, overview
<1>4. /\ AnySeq(queue) /\ AnySeq(queue') /\ ChosenLast(queue') /\ Hotkeys'
      /\ (visible' \in BOOLEAN => Keys')
      /\ Waiting("show")' => Waiting("show")
      /\ Waiting("hotkey")' => Waiting("hotkey")
    BY <1>1, <1>3, Taken
<1>5. ~InStack("do_select")
    BY <1>1, HeadIs
<1>6. task_list # <<>> => task_index = Head(queue).arg % Len(task_list)
    <2>1. PICK a \in Int : AtIndex(a) /\ Leads(queue, a, walk)
        BY DEF TaskInv, Course
    <2>2. PICK c \in Int : Follows(Head(queue), a, c)
        BY <1>1, <1>4, <2>1, LeadsTail
    <2>3. Head(queue).arg = a
        BY <1>1, <2>2 DEF Follows
    <2>. QED
        BY <2>1, <2>3 DEF AtIndex
<1>7. Frames'
    BY <1>1, <1>5, <1>6, SelectArrives DEF IInv, Types, TaskInv
<1>8. Choice'
    <2>1. OnlyOf(queue', {})
        BY <1>1, <1>4, ChosenTail DEF TaskInv, Choice
    <2>2. OnlyOf(queue', {"show"})
        BY <2>1 DEF OnlyOf
    <2>. QED
        BY <2>2, <1>4 DEF Choice
<1>9. Hidden'
    <2>1. HiddenIn(queue, visible) => HiddenIn(queue', FALSE)
        BY <1>1, <1>4, HiddenTail
    <2>. QED
        BY <2>1, <1>2, <1>3, <1>4 DEF TaskInv, Hidden
<1>10. Course'
    <2>1. ASSUME NEW a \in Int, NEW c \in Int, AtIndex(a), Follows(Head(queue), a, c) PROVE AtIndex(c)'
        <3>1. c = a
            BY <2>1, <1>1 DEF Follows
        <3>. QED
            BY <3>1, <2>1, <1>2 DEF AtIndex
    <2>. QED
        BY <2>1, <1>1, <1>3, CourseGoesOn
<1>11. Slack'
    <2>1. DeskStep(Head(queue)) = 0
        BY <1>1 DEF DeskStep
    <2>2. ts_desk' \in Int /\ ts_desk' <= ts_desk + 0
        BY <1>2 DEF TaskInv, Lists
    <2>. QED
        BY <2>1, <2>2, <1>1, SlackGoesOn
<1>12. Lists' /\ Shows' /\ OverviewTypes' /\ Keys'
    BY <1>2, <1>3, <1>4 DEF TaskInv, Lists, Shows, OverviewTypes
<1>. QED
    BY <1>4, <1>7, <1>8, <1>9, <1>10, <1>11, <1>12 DEF TaskInv

\* Keys and clicks are counted.
LEMMA Pressed ==
    ASSUME TaskInv, keys < MaxKeys, keys' = keys + 1
    PROVE  /\ keys \in Int /\ keys' \in Int /\ keys' >= keys /\ keys' \in 0..MaxKeys
           /\ UNCHANGED walk => walk' \in (-keys')..keys'
PROOF
<1>1. keys \in 0..MaxKeys /\ walk \in (-keys)..keys
    BY DEF TaskInv, Keys
<1>. QED
    BY <1>1, KeysAssumption

LEMMA MoreKeys == \A d, a, b \in Int : b >= a => d - 1 + a \in Int /\ d - 1 + b \in Int /\ d - 1 + b >= d - 1 + a
PROOF
<1>. QED
    OBVIOUS

LEMMA SlackStays ==
    ASSUME IInv, TaskInv, UNCHANGED queue, keys \in Int, keys' \in Int, keys' >= keys,
           ts_desk' \in Int, ts_desk' <= ts_desk
    PROVE  Slack'
PROOF
<1>1. AnySeq(queue) /\ ts_desk \in Int /\ Fits(queue, ts_desk, NDesks - 1 + keys)
    BY DEF IInv, Types, TaskInv, Lists, Slack
<1>. DEFINE n == NDesks - 1 + keys
            l == NDesks - 1 + keys'
<1>0. NDesks \in Int
    BY DesksAssumption
<1>2. n \in Int /\ l \in Int /\ l >= n
    BY <1>0, MoreKeys, Zenon
<1>. HIDE DEF n, l
<1>3. Fits(queue, ts_desk', l)
    BY <1>1, <1>2, FitsMore DEF n
<1>. QED
    BY <1>3 DEF Slack, l

LEMMA ClickTaskTask ==
    Prompt /\ IInv /\ TaskInv /\ ClickTask /\ UNCHANGED overview => TaskInv'
PROOF
<1>. SUFFICES ASSUME Prompt, IInv, TaskInv, ClickTask, UNCHANGED overview PROVE TaskInv'
    OBVIOUS
<1>1. /\ queue = <<>> /\ UNCHANGED queue /\ ~Choosing /\ keys < MaxKeys /\ keys' = keys + 1
      /\ \E i \in DOMAIN task_list : do_select(i - 1, i - 1)
    BY DEF ClickTask, Press, Prompt
<1>2. PICK i \in DOMAIN task_list : do_select(i - 1, i - 1)
    BY <1>1
<1>3. /\ visible' = FALSE
      /\ UNCHANGED <<task_list, task_index, ts_desk, desk, zorder, keyboard>>
    BY <1>2 DEF do_select
<1>4. UNCHANGED <<alt, held, alttab, shift, walk, items, shown_desk, update_thread, made,
                  threads, last>>
    BY <1>3 DEF keyboard, overview
<1>5. keys \in Int /\ keys' \in Int /\ keys' >= keys /\ keys' \in 0..MaxKeys
      /\ walk' \in (-keys')..keys'
    BY <1>1, <1>4, Pressed
<1>6. Keys'
    BY <1>3, <1>4, <1>5 DEF TaskInv, Keys
<1>7. Frames'
    <2>1. task_list # <<>> => i - 1 = (i - 1) % Len(task_list)
        <3>1. task_list \in Seq(Windows)
            BY DEF TaskInv, Lists
        <3>2. DOMAIN task_list = 1..Len(task_list) /\ Len(task_list) \in Nat
            BY <3>1, LenProperties
        <3>. DEFINE n == Len(task_list)
        <3>3. n \in Nat \ {0} /\ i - 1 \in 0..(n - 1)
            BY <3>2
        <3>. HIDE DEF n
        <3>4. (i - 1) + n * 0 = i - 1 /\ ((i - 1) + n * 0) % n = i - 1
            BY <3>3, IndexOf
        <3>. QED
            BY <3>4 DEF n
    <2>2. ~InStack("do_select")
        BY <1>1 DEF Choosing
    <2>. QED
        BY <1>2, <2>1, <2>2, SelectArrives DEF IInv, Types, TaskInv
<1>8. Choice' /\ Hotkeys' /\ Hidden'
    <2>1. \A k \in DOMAIN queue' : FALSE
        BY <1>1, NoMessage
    <2>. QED
        BY <2>1, <1>3 DEF Choice, ChosenLast, OnlyOf, Hotkeys, HotkeysIn, Hidden, HiddenIn
<1>9. Course'
    BY <1>1, <1>3, <1>4 DEF TaskInv, Course, AtIndex
<1>10. Slack'
    <2>1. ts_desk' \in Int /\ ts_desk' <= ts_desk
        BY <1>3 DEF TaskInv, Lists
    <2>. QED
        BY <2>1, <1>1, <1>5, SlackStays
<1>11. Lists' /\ OverviewTypes'
    BY <1>3, <1>4 DEF TaskInv, Lists, OverviewTypes
<1>12. Shows'
    <2>1. last \in Int
        BY DEF IInv, Types
    <2>. QED
        BY <2>1, <1>1, <1>4, <1>5 DEF TaskInv, Shows, Waiting
<1>. QED
    BY <1>6, <1>7, <1>8, <1>9, <1>10, <1>11, <1>12 DEF TaskInv

LEMMA FramesEmpty ==
    ASSUME NEW s, NEW l, NEW d, FramesIn(s, l, d)
    PROVE  \A e, active : FramesIn(s, <<>>, e) /\ Arrives(s, <<>>, e, active)
PROOF
<1>. QED
    BY DEF FramesIn, Arrives

LEMMA FinishTask == IInv /\ TaskInv /\ FinishSelect /\ UNCHANGED overview => TaskInv'
PROOF
<1>. SUFFICES ASSUME IInv, TaskInv, FinishSelect, UNCHANGED overview PROVE TaskInv'
    OBVIOUS
<1>1. /\ stack # <<>> /\ Head(stack).proc = "do_select" /\ stack' = Tail(stack)
      /\ task_list' = <<>> /\ ts_desk' = -1
      /\ UNCHANGED <<visible, task_index, keyboard, queue, desk, keys>>
      /\ zorder' = zorder \/ \E w : zorder' = Raised(w)
    BY DEF FinishSelect, Running
<1>2. UNCHANGED <<alt, held, alttab, shift, walk, keys, items, shown_desk, update_thread, made,
                  threads, last>>
    BY <1>1 DEF keyboard, overview
<1>3. AnySeq(stack) /\ \A proc : Has(stack, proc) <=> Head(stack).proc = proc \/ Has(Tail(stack), proc)
    BY <1>1, TailFacts DEF IInv, Types
<1>4. Frames'
    <2>1. FramesIn(stack', task_list, ts_desk + 1)
        BY <1>1, <1>3, FramesTail DEF TaskInv, Frames
    <2>. QED
        BY <2>1, <1>1, FramesEmpty DEF Frames
<1>5. InStack("do_select")
    BY <1>1, <1>3, InStackIs
<1>6. Choice'
    BY <1>1, <1>5 DEF TaskInv, Choice
<1>7. Keys' /\ Hotkeys' /\ Hidden' /\ Shows' /\ OverviewTypes'
    BY <1>1, <1>2 DEF TaskInv, Keys, Hotkeys, Hidden, Waiting, Shows, OverviewTypes
<1>8. Course'
    BY <1>1, <1>2 DEF TaskInv, Course, AtIndex
<1>9. Slack'
    <2>1. ts_desk' \in Int /\ ts_desk' <= ts_desk
        BY <1>1 DEF TaskInv, Lists
    <2>2. keys \in Int
        BY KeysAssumption DEF TaskInv, Keys
    <2>. QED
        BY <2>1, <2>2, <1>1, SlackStays
<1>10. Lists'
    <2>1. zorder' \in Seq(Windows) /\ IsInjective(zorder')
        BY <1>1, RaisedType DEF TaskInv, Lists
    <2>2. task_list' \in Seq(Windows) /\ IsInjective(task_list') /\ \A i \in DOMAIN task_list' : FALSE
        <3>1. <<>> \in Seq(Windows) /\ \A i \in DOMAIN <<>> : FALSE
            BY EmptySeq
        <3>. QED
            BY <3>1, <1>1 DEF IsInjective
    <2>3. ts_desk' \in Int /\ ts_desk' >= -1 /\ desk' \in 1..NDesks
        BY <1>1 DEF TaskInv, Lists
    <2>. QED
        BY <2>1, <2>2, <2>3, <1>1 DEF Lists
<1>. QED
    BY <1>4, <1>6, <1>7, <1>8, <1>9, <1>10 DEF TaskInv

-----------------------------------------------------------------------------
(* Hot keys.                                                               *)

\* A message is posted that the switcher does not look at.
LEMMA IdlePosted ==
    ASSUME IInv, TaskInv, UNCHANGED <<stack, desk, zorder, keyboard, switch, overview>>,
           keys < MaxKeys, keys' = keys + 1, NoneOf(queue, {"select"}),
           NEW m, m.kind \in Idle, queue' = Append(queue, m),
           InStack("do_select") => OnlyOf(queue', {"show"}), Shows'
    PROVE  TaskInv'
PROOF
<1>1. UNCHANGED <<alt, held, alttab, shift, walk, visible, task_list, task_index, ts_desk, items,
                  shown_desk, update_thread, made, threads, last>>
    BY DEF keyboard, switch, overview
<1>2. keys \in Int /\ keys' \in Int /\ keys' >= keys /\ keys' \in 0..MaxKeys
      /\ walk' \in (-keys')..keys'
    BY <1>1, Pressed
<1>3. AnySeq(queue)
    BY DEF IInv, Types
<1>4. Follows(m, walk, walk') /\ DeskStep(m) = 0 /\ m.kind \notin Showing /\ m.kind # "hotkey"
    BY <1>1 DEF Follows, Idle, Hot, DeskStep, Showing
<1>5. Keys' /\ Lists' /\ Frames' /\ OverviewTypes'
    BY <1>1, <1>2 DEF TaskInv, Keys, Lists, Frames, OverviewTypes
<1>6. Hotkeys'
    BY <1>1, <1>3, HotkeysIdle DEF TaskInv, Hotkeys
<1>7. Hidden'
    <2>1. \A i \in DOMAIN queue' : (i \in DOMAIN queue /\ queue'[i] = queue[i]) \/ queue'[i] = m
        BY <1>3, Longer
    <2>2. Waiting("hotkey")' => Waiting("hotkey")
        BY <2>1, <1>4 DEF Waiting
    <2>3. HiddenIn(queue, visible) => HiddenIn(queue', visible')
        BY <1>1, <1>3, <1>4, HiddenStill
    <2>. QED
        BY <2>2, <2>3, <1>1 DEF TaskInv, Hidden
<1>8. Choice'
    <2>1. ChosenLast(queue')
        BY <1>3, ChosenNow
    <2>2. InStack("do_select")' <=> InStack("do_select")
        BY DEF InStack
    <2>. QED
        BY <2>1, <2>2 DEF Choice
<1>9. Course'
    <2>1. PICK a \in Int : AtIndex(a) /\ Leads(queue, a, walk)
        BY DEF TaskInv, Course
    <2>2. walk' \in Int
        BY <1>2
    <2>3. Leads(queue', a, walk')
        BY <2>1, <2>2, <1>3, <1>4, LeadsAppend
    <2>4. AtIndex(a)'
        BY <2>1, <1>1 DEF AtIndex
    <2>. QED
        BY <2>3, <2>4 DEF Course
<1>10. Slack'
    <2>1. Fits(queue, ts_desk, NDesks - 1 + keys) /\ ts_desk \in Int
        BY DEF TaskInv, Slack, Lists
    <2>. DEFINE n == NDesks - 1 + keys
                l == NDesks - 1 + keys'
    <2>2. n \in Int /\ l \in Int /\ l >= n + 0
        <3>1. NDesks \in Int
            BY DesksAssumption
        <3>. QED
            BY <3>1, <1>2
    <2>. HIDE DEF n, l
    <2>3. Fits(queue', ts_desk, l)
        BY <2>1, <2>2, <1>3, <1>4, FitsAppend DEF n
    <2>. QED
        BY <2>3, <1>1 DEF Slack, l
<1>. QED
    BY <1>5, <1>6, <1>7, <1>8, <1>9, <1>10 DEF TaskInv

LEMMA DeskKeyTask == Prompt /\ IInv /\ TaskInv /\ DeskKey => TaskInv'
PROOF
<1>. SUFFICES ASSUME Prompt, IInv, TaskInv, DeskKey PROVE TaskInv'
    OBVIOUS
<1>1. /\ ~Choosing /\ keys < MaxKeys /\ keys' = keys + 1
      /\ UNCHANGED <<stack, desk, zorder, keyboard, switch, overview>>
      /\ \E d : queue' = Append(queue, Message("goto", d))
    BY DEF DeskKey, Press, Prompt
<1>2. PICK d : queue' = Append(queue, Message("goto", d))
    BY <1>1
<1>. DEFINE m == Message("goto", d)
<1>3. m.kind = "goto"
    BY MessageIs
<1>4. queue' = Append(queue, m)
    BY <1>2
<1>. HIDE DEF m
<1>5. NoneOf(queue, {"select"}) /\ ~InStack("do_select")
    BY <1>1 DEF Choosing, Waiting, NoneOf
<1>6. m.kind \in Idle
    BY <1>3 DEF Idle
<1>7. Shows'
    <2>1. \A i \in DOMAIN queue' : (i \in DOMAIN queue /\ queue'[i] = queue[i]) \/ queue'[i] = m
        BY <1>4, Longer DEF IInv, Types
    <2>2. Waiting("show")' => Waiting("show")
        BY <2>1, <1>3 DEF Waiting
    <2>3. last \in Int /\ last' = last
        BY <1>1 DEF IInv, Types, overview
    <2>. QED
        BY <1>1, <2>2, <2>3, Pressed DEF TaskInv, Shows
<1>. QED
    BY <1>1, <1>4, <1>5, <1>6, <1>7, IdlePosted

LEMMA ShowKeyTask == Prompt /\ IInv /\ TaskInv /\ ShowKey => TaskInv'
PROOF
<1>. SUFFICES ASSUME Prompt, IInv, TaskInv, ShowKey PROVE TaskInv'
    OBVIOUS
<1>1. /\ queue = <<>> /\ keys < MaxKeys /\ keys' = keys + 1
      /\ queue' = Append(queue, Message("show", NoMeaning))
      /\ UNCHANGED <<stack, desk, zorder, keyboard, switch, overview>>
    BY DEF ShowKey, Press, Prompt
<1>. DEFINE m == Message("show", NoMeaning)
<1>2. m.kind = "show"
    BY MessageIs
<1>3. queue' = Append(queue, m)
    BY <1>1
<1>. HIDE DEF m
<1>4. \A i \in DOMAIN queue : FALSE
    BY <1>1, NoMessage
<1>5. \A i \in DOMAIN queue' : (i \in DOMAIN queue /\ queue'[i] = queue[i]) \/ queue'[i] = m
    BY <1>3, Longer DEF IInv, Types
<1>6. m.kind \in Idle /\ NoneOf(queue, {"select"}) /\ OnlyOf(queue', {"show"})
    BY <1>2, <1>4, <1>5 DEF Idle, NoneOf, OnlyOf
<1>7. Shows'
    <2>1. last \in Int /\ last' = last
        BY <1>1 DEF IInv, Types, overview
    <2>. QED
        BY <1>1, <2>1, Pressed DEF TaskInv, Shows
<1>. QED
    BY <1>1, <1>3, <1>6, <1>7, IdlePosted

\* A message is taken that the switcher does not look at.
LEMMA IdleTaken ==
    ASSUME IInv, TaskInv, queue # <<>>, queue' = Tail(queue), Head(queue).kind \in Idle,
           UNCHANGED <<desk, zorder, keys, keyboard, switch>>
    PROVE  /\ Keys' /\ Lists' /\ Hotkeys' /\ Hidden' /\ Course' /\ Slack'
           /\ ChosenLast(queue') /\ (Waiting("show")' => Waiting("show"))
           /\ (InStack("do_select") => OnlyOf(queue', {"show"}))
PROOF
<1>1. UNCHANGED <<alt, held, alttab, shift, walk, visible, task_list, task_index, ts_desk>>
    BY DEF keyboard, switch
<1>2. /\ AnySeq(queue) /\ Keys' /\ Hotkeys' /\ ChosenLast(queue')
      /\ Waiting("show")' => Waiting("show")
      /\ Waiting("hotkey")' => Waiting("hotkey")
      /\ OnlyOf(queue, {"show"}) => OnlyOf(queue', {"show"})
    <2>1. visible' \in BOOLEAN
        BY <1>1 DEF TaskInv, Keys
    <2>. QED
        BY <2>1, <1>1, Taken
<1>3. Lists'
    BY <1>1 DEF TaskInv, Lists
<1>4. Head(queue).kind \notin Hiding /\ DeskStep(Head(queue)) = 0
    BY DEF Idle, Hiding, DeskStep
<1>5. Hidden'
    <2>1. HiddenIn(queue, visible) => HiddenIn(queue', visible')
        BY <1>1, <1>2, <1>4, HiddenTail
    <2>. QED
        BY <2>1, <1>1, <1>2 DEF TaskInv, Hidden
<1>6. Course'
    <2>1. ASSUME NEW a \in Int, NEW c \in Int, AtIndex(a), Follows(Head(queue), a, c) PROVE AtIndex(c)'
        <3>1. c = a
            BY <2>1 DEF Follows
        <3>. QED
            BY <3>1, <2>1, <1>1 DEF AtIndex
    <2>. QED
        BY <2>1, <1>1, CourseGoesOn
<1>7. Slack'
    <2>1. ts_desk' \in Int /\ ts_desk' <= ts_desk + 0
        BY <1>1 DEF TaskInv, Lists
    <2>. QED
        BY <2>1, <1>4, SlackGoesOn
<1>. QED
    BY <1>2, <1>3, <1>5, <1>6, <1>7 DEF TaskInv, Choice

LEMMA OnDeskKeyTask == IInv /\ TaskInv /\ OnDeskKey => TaskInv'
PROOF
<1>. SUFFICES ASSUME IInv, TaskInv, OnDeskKey PROVE TaskInv'
    OBVIOUS
<1>1. /\ queue # <<>> /\ Head(queue).kind = "goto" /\ queue' = Tail(queue)
      /\ stack' = SwitchDesktop(Head(queue).arg, stack)
      /\ UNCHANGED <<desk, zorder, keys, keyboard, switch, overview>>
    BY DEF OnDeskKey, Receives
<1>2. UNCHANGED <<task_list, ts_desk, items, shown_desk, update_thread, made, threads, last>>
    BY <1>1 DEF switch, overview
<1>3. Head(queue).kind \in Idle
    BY <1>1 DEF Idle
<1>4. /\ Keys' /\ Lists' /\ Hotkeys' /\ Hidden' /\ Course' /\ Slack'
      /\ ChosenLast(queue') /\ (Waiting("show")' => Waiting("show"))
    BY <1>1, <1>3, IdleTaken
<1>5. AnySeq(stack) /\ ~Has(stack, "do_select")
    BY <1>1, HeadIs, InStackIs DEF IInv, Types
<1>. DEFINE w == Frame("switch_desktop", "pump", Head(queue).arg, NoMeaning)
<1>6. w.proc = "switch_desktop" /\ w.arg = Head(queue).arg
    BY FrameIs
<1>7. \/ stack' = stack
      \/ w.arg \in 1..NDesks /\ stack' = <<w>> \o stack
    BY <1>1, <1>6, SwitchDesktopIs
<1>. HIDE DEF w
<1>8. ~Has(stack', "do_select") /\ FramesIn(stack', task_list, ts_desk + 1)
    BY <1>5, <1>6, <1>7, PushFacts, FramesSwitch DEF TaskInv, Frames
<1>9. Frames'
    BY <1>2, <1>8 DEF Frames, Arrives
<1>10. Choice'
    <2>1. ~InStack("do_select")'
        BY <1>8 DEF InStack, Has
    <2>. QED
        BY <2>1, <1>4 DEF Choice
<1>11. Shows' /\ OverviewTypes'
    BY <1>1, <1>2, <1>4 DEF TaskInv, Shows, OverviewTypes
<1>. QED
    BY <1>4, <1>9, <1>10, <1>11 DEF TaskInv

\* The structures and threads that closing leaves.
LEMMA CloseTypes ==
    ASSUME IInv, OverviewTypes, NEW to, NEW s, close_overview(to, s)
    PROVE  OverviewTypes'
PROOF
<1>1. UNCHANGED <<items, shown_desk, update_thread, made>> /\ threads \subseteq THREAD
    BY DEF close_overview, IInv, Types
<1>2. threads' = (threads \ {t \in threads : t.phase = "update" /\ t.mon = monitors})
                    \cup UNION {NextItem(t) : t \in {t \in threads : t.phase = "update" /\ t.mon = monitors}}
    BY DEF close_overview, DestroyWindows
<1>3. ASSUME NEW t \in threads, NEW u \in NextItem(t) PROVE u.id = t.id
    BY <1>1, NextItemFacts
<1>4. \A u \in threads' : \E t \in threads : u.id = t.id
    BY <1>2, <1>3
<1>. QED
    BY <1>1, <1>4 DEF OverviewTypes

\* close_overview is called on a stack whose do_select, if any, still arrives.
LEMMA CloseFrames ==
    ASSUME NEW s, AnySeq(s), NEW list, NEW d, NEW active, NEW to,
           FramesIn(s, list, d), Arrives(s, list, d, active)
    PROVE  LET t == <<Frame("close_overview", "pump", to, NoMeaning)>> \o s IN
           /\ FramesIn(t, list, d) /\ Arrives(t, list, d, active)
           /\ Has(t, "do_select") <=> Has(s, "do_select")
PROOF
<1>. DEFINE f == Frame("close_overview", "pump", to, NoMeaning)
            t == <<f>> \o s
<1>1. f.proc = "close_overview"
    BY FrameIs
<1>. HIDE DEF f
<1>2. \A proc : Has(t, proc) <=> f.proc = proc \/ Has(s, proc)
    BY PushFacts
<1>3. FramesIn(t, list, d)
    BY <1>1, FramesOther
<1>. HIDE DEF t
<1>4. Arrives(t, list, d, active) /\ (Has(t, "do_select") <=> Has(s, "do_select"))
    BY <1>1, <1>2 DEF Arrives
<1>. QED
    BY <1>3, <1>4 DEF f, t

LEMMA OnHotkeyTask == IInv /\ TaskInv /\ OnHotkey => TaskInv'
PROOF
<1>. SUFFICES ASSUME IInv, TaskInv, OnHotkey PROVE TaskInv'
    OBVIOUS
<1>1. /\ queue # <<>> /\ Head(queue).kind = "hotkey"
      /\ UNCHANGED <<desk, zorder, keys, keyboard, switch>>
      /\ ~visible => NotifyActivate(Head(queue).arg)
    BY DEF OnHotkey, Receives
<1>2. UNCHANGED <<alt, held, alttab, shift, walk, visible, task_list, task_index, ts_desk>>
    BY <1>1 DEF keyboard, switch
<1>3. AnySeq(queue) /\ AnySeq(stack) /\ AnySeq(Tail(queue))
    BY <1>1, TailFacts DEF IInv, Types
<1>4. /\ Waiting("hotkey") /\ ~InStack("do_select") /\ alttab
      /\ OnlyOf(Tail(queue), Idle) /\ walk = Step(Head(queue).arg = 1)
    BY <1>1, HeadIs DEF Hot
<1>5. ~visible
    <2>1. visible => HidesAfter(queue, 0)
        BY <1>4 DEF TaskInv, Hidden, HiddenIn
    <2>2. \A i \in DOMAIN queue : queue[i].kind \notin Hiding
        <3>1. /\ Head(queue) = queue[1]
              /\ \A i \in DOMAIN queue : /\ i \in Nat \ {0}
                                         /\ i # 1 => i - 1 \in DOMAIN Tail(queue)
                                                     /\ Tail(queue)[i - 1] = queue[i]
            BY <1>1, <1>3, Shorter
        <3>2. queue[1].kind \notin Hiding
            BY <3>1, <1>1 DEF Hiding
        <3>3. \A i \in DOMAIN queue : i # 1 => queue[i].kind \in Idle
            BY <3>1, <1>4 DEF OnlyOf
        <3>. QED
            BY <3>2, <3>3 DEF Idle, Hiding
    <2>. QED
        BY <2>1, <2>2 DEF HidesAfter
<1>. DEFINE m == Message("activate", Head(queue).arg)
            q == Tail(queue)
<1>6. m.kind = "activate" /\ m.arg = Head(queue).arg
    BY MessageIs
<1>7. /\ queue' = Append(q, m) /\ close_overview(NoWindow, stack)
      /\ stack' = <<Frame("close_overview", "pump", NoWindow, NoMeaning)>> \o stack
      /\ last' = last
    BY <1>1, <1>5 DEF NotifyActivate, close_overview
<1>. HIDE DEF m, q
<1>8. AnySeq(q) /\ OnlyOf(q, Idle)
    BY <1>3, <1>4 DEF q
<1>9. NoneOf(q, Hot) /\ NoneOf(q, {"select"})
    BY <1>8 DEF OnlyOf, NoneOf, Idle, Hot
<1>10. \A i \in DOMAIN queue' : (i \in DOMAIN q /\ queue'[i] = q[i]) \/ queue'[i] = m
    BY <1>7, <1>8, Longer
<1>11. Keys' /\ Lists'
    BY <1>1, <1>2 DEF TaskInv, Keys, Lists
<1>12. Hotkeys'
    <2>1. walk = Step(m.arg = 1)
        BY <1>4, <1>6
    <2>2. HotkeysIn(Append(q, m), alttab, walk)
        BY <2>1, <1>4, <1>8, <1>9, HotkeysNew
    <2>. QED
        BY <2>2, <1>2, <1>7 DEF Hotkeys
<1>13. Hidden'
    <2>1. ~Waiting("hotkey")'
        BY <1>6, <1>9, <1>10 DEF Waiting, NoneOf, Hot
    <2>. QED
        BY <2>1, <1>2, <1>4 DEF Hidden
<1>14. Frames' /\ Choice'
    <2>1. /\ FramesIn(stack', task_list, ts_desk + 1) /\ Arrives(stack', task_list, ts_desk + 1, desk)
          /\ Has(stack', "do_select") <=> Has(stack, "do_select")
        BY <1>3, <1>7, CloseFrames DEF TaskInv, Frames
    <2>2. ~InStack("do_select")'
        BY <2>1, <1>4 DEF InStack, Has
    <2>3. ChosenLast(queue')
        BY <1>7, <1>8, <1>9, ChosenNow
    <2>. QED
        BY <2>1, <2>2, <2>3, <1>1, <1>2 DEF Frames, Choice
<1>15. Shows'
    <2>1. Waiting("show")' => Waiting("show")
        <3>1. \A i \in DOMAIN q : i + 1 \in DOMAIN queue /\ q[i] = queue[i + 1]
            BY <1>1, <1>3, Shorter DEF q
        <3>. QED
            BY <3>1, <1>6, <1>10 DEF Waiting
    <2>. QED
        BY <2>1, <1>1, <1>7 DEF TaskInv, Shows
<1>16. Course'
    <2>1. PICK a \in Int : AtIndex(a)
        BY DEF TaskInv, Course
    <2>2. Leads(q, a, a)
        BY <2>1, <1>8, LeadsNowhere
    <2>3. walk \in Int /\ Follows(m, a, walk)
        <3>1. walk \in Int
            BY KeysAssumption DEF TaskInv, Keys
        <3>. QED
            BY <3>1, <1>4, <1>6 DEF Follows, Hot, Idle
    <2>4. Leads(Append(q, m), a, walk)
        BY <2>2, <2>3, <1>8, LeadsAppend
    <2>5. AtIndex(a)'
        BY <2>1, <1>2 DEF AtIndex
    <2>. QED
        BY <2>4, <2>5, <1>2, <1>7 DEF Course
<1>17. Slack'
    <2>1. Fits(queue, ts_desk, NDesks - 1 + keys) /\ ts_desk \in Int
        BY DEF TaskInv, Slack, Lists
    <2>. DEFINE n == NDesks - 1 + keys
    <2>2. n \in Int /\ n >= n + 0
        BY DesksAssumption, KeysAssumption DEF TaskInv, Keys
    <2>. HIDE DEF n
    <2>3. DeskStep(Head(queue)) = 0 /\ DeskStep(m) = 0 /\ ts_desk <= ts_desk + 0
        BY <1>1, <1>6, <2>1 DEF DeskStep
    <2>4. Fits(queue, ts_desk, n)
        BY <2>1 DEF n
    <2>5. Fits(q, ts_desk, n)
        BY <1>1, <1>3, <2>1, <2>2, <2>3, <2>4, FitsTail DEF q
    <2>6. Fits(Append(q, m), ts_desk, n)
        BY <1>8, <2>1, <2>2, <2>3, <2>5, FitsAppend
    <2>. QED
        BY <2>6, <1>1, <1>2, <1>7 DEF Slack, n
<1>18. OverviewTypes'
    BY <1>7, CloseTypes DEF TaskInv
<1>. QED
    BY <1>11, <1>12, <1>13, <1>14, <1>15, <1>16, <1>17, <1>18 DEF TaskInv

-----------------------------------------------------------------------------
(* The overview.                                                           *)

\* A step of the overview, or of its threads, that the switcher does not take part in.
LEMMA OverviewGoesOn ==
    ASSUME IInv, TaskInv, UNCHANGED <<queue, keyboard, switch>>,
           \/ UNCHANGED keys
           \/ keys < MaxKeys /\ keys' = keys + 1,
           Lists', last' = last, OverviewTypes', Frames',
           InStack("do_select")' => InStack("do_select")
    PROVE  TaskInv'
PROOF
<1>1. UNCHANGED <<alt, held, alttab, shift, walk, visible, task_list, task_index, ts_desk>>
    BY DEF keyboard, switch
<1>2. /\ keys \in Int /\ keys' \in Int /\ keys' >= keys /\ keys' \in 0..MaxKeys
      /\ walk' \in (-keys')..keys'
    <2>1. CASE UNCHANGED keys
        BY <1>1, <2>1, KeysAssumption DEF TaskInv, Keys
    <2>2. CASE keys < MaxKeys /\ keys' = keys + 1
        BY <1>1, <2>2, Pressed
    <2>. QED
        BY <2>1, <2>2
<1>3. Keys'
    BY <1>1, <1>2 DEF TaskInv, Keys
<1>4. Hotkeys' /\ Hidden'
    BY <1>1 DEF TaskInv, Hotkeys, Hidden, Waiting
<1>5. Choice'
    BY DEF TaskInv, Choice
<1>6. Shows'
    <2>1. last \in Int
        BY DEF IInv, Types
    <2>. QED
        BY <2>1, <1>2 DEF TaskInv, Shows, Waiting
<1>7. Course'
    BY <1>1 DEF TaskInv, Course, AtIndex
<1>8. Slack'
    <2>1. ts_desk' \in Int /\ ts_desk' <= ts_desk
        BY <1>1 DEF TaskInv, Lists
    <2>. QED
        BY <2>1, <1>2, SlackStays
<1>. QED
    BY <1>3, <1>4, <1>5, <1>6, <1>7, <1>8 DEF TaskInv

\* The frame on top goes; what it leaves is a step of the overview.
LEMMA SwitchEndsTask == IInv /\ TaskInv /\ SwitchEnds => TaskInv'
PROOF
<1>. SUFFICES ASSUME IInv, TaskInv, SwitchEnds PROVE TaskInv'
    OBVIOUS
<1>1. /\ stack # <<>> /\ Head(stack).proc = "switch_desktop" /\ desk' = Head(stack).arg
      /\ close_overview(NoWindow, Tail(stack))
      /\ UNCHANGED <<queue, zorder, keys, keyboard, switch>>
    BY DEF SwitchEnds, Drained, Running, OnDesktopSwitched
<1>2. UNCHANGED <<task_list, task_index, ts_desk>>
    BY <1>1 DEF switch
<1>. DEFINE s == Tail(stack)
<1>3. /\ AnySeq(s)
      /\ \A proc : Has(stack, proc) <=> Head(stack).proc = proc \/ Has(s, proc)
    BY <1>1, TailFacts DEF IInv, Types
<1>4. /\ FramesIn(s, task_list, ts_desk + 1) /\ Head(stack).arg \in 1..NDesks
      /\ Has(s, "do_select") /\ task_list # <<>> => Head(stack).arg = ts_desk + 1
    BY <1>1, FramesTail DEF IInv, Types, TaskInv, Frames
<1>5. Arrives(s, task_list, ts_desk + 1, desk')
    BY <1>1, <1>4 DEF Arrives
<1>6. /\ stack' = <<Frame("close_overview", "pump", NoWindow, NoMeaning)>> \o s
      /\ last' = last
    BY <1>1 DEF close_overview
<1>. HIDE DEF s
<1>7. /\ FramesIn(stack', task_list, ts_desk + 1) /\ Arrives(stack', task_list, ts_desk + 1, desk')
      /\ Has(stack', "do_select") <=> Has(s, "do_select")
    BY <1>3, <1>4, <1>5, <1>6, CloseFrames
<1>8. Frames'
    BY <1>2, <1>7 DEF Frames
<1>9. InStack("do_select")' => InStack("do_select")
    BY <1>3, <1>7 DEF InStack, Has
<1>10. Lists'
    BY <1>1, <1>2, <1>4 DEF TaskInv, Lists
<1>11. OverviewTypes'
    BY <1>1, CloseTypes DEF TaskInv
<1>. QED
    BY <1>1, <1>6, <1>8, <1>9, <1>10, <1>11, OverviewGoesOn

LEMMA ClickItemTask == IInv /\ TaskInv /\ ClickItem /\ UNCHANGED <<keyboard, switch>> => TaskInv'
PROOF
<1>. SUFFICES ASSUME IInv, TaskInv, ClickItem, UNCHANGED <<keyboard, switch>> PROVE TaskInv'
    OBVIOUS
<1>1. /\ keys < MaxKeys /\ keys' = keys + 1 /\ UNCHANGED <<queue, desk, zorder>>
      /\ \E w : close_overview(w, stack)
    BY DEF ClickItem, Press
<1>2. PICK w : close_overview(w, stack)
    BY <1>1
<1>3. /\ stack' = <<Frame("close_overview", "pump", w, NoMeaning)>> \o stack
      /\ last' = last
    BY <1>2 DEF close_overview
<1>4. UNCHANGED <<task_list, task_index, ts_desk>>
    BY DEF switch
<1>5. /\ FramesIn(stack', task_list, ts_desk + 1) /\ Arrives(stack', task_list, ts_desk + 1, desk)
      /\ Has(stack', "do_select") <=> Has(stack, "do_select")
    BY <1>3, CloseFrames DEF IInv, Types, TaskInv, Frames
<1>6. Frames' /\ (InStack("do_select")' => InStack("do_select"))
    BY <1>1, <1>4, <1>5 DEF Frames, InStack, Has
<1>7. Lists'
    BY <1>1, <1>4 DEF TaskInv, Lists
<1>8. OverviewTypes'
    BY <1>2, CloseTypes DEF TaskInv
<1>. QED
    BY <1>1, <1>3, <1>6, <1>7, <1>8, OverviewGoesOn

\* A new structure, and its thread.
LEMMA NewOverview ==
    ASSUME IInv, TaskInv, monitors = 0, show_overview
    PROVE  OverviewTypes'
PROOF
<1>1. /\ items' = Listed /\ shown_desk' = desk /\ CreateThread(threads)
    BY DEF show_overview
<1>2. threads = {} /\ made \in Nat
    BY DEF IInv, OneThread, Types
<1>3. made' = made + 1 /\ update_thread' = made' /\ threads' = {Thread(made', "start", 0, 0)}
    BY <1>1, <1>2 DEF CreateThread
<1>4. \A t \in threads' : t.id = made'
    BY <1>3 DEF Thread
<1>5. update_thread' \in 0..made' /\ made' \in 1..made'
    BY <1>2, <1>3
<1>6. items' \subseteq Windows
    <2>1. zorder \in Seq(Windows)
        BY DEF TaskInv, Lists
    <2>2. \A i \in DOMAIN zorder : zorder[i] \in Windows
        BY <2>1, LenProperties
    <2>. QED
        BY <2>2, <1>1 DEF Listed, ToSet
<1>7. shown_desk' \in 0..NDesks
    BY <1>1, DesksAssumption DEF TaskInv, Lists
<1>. QED
    BY <1>4, <1>5, <1>6, <1>7 DEF OverviewTypes

LEMMA ShowTask ==
    IInv /\ TaskInv /\ show_overview /\ UNCHANGED <<keyboard, switch>> => TaskInv'
PROOF
<1>. SUFFICES ASSUME IInv, TaskInv, show_overview, UNCHANGED <<keyboard, switch>> PROVE TaskInv'
    OBVIOUS
<1>1. /\ queue # <<>> /\ Head(queue).kind = "show" /\ queue' = Tail(queue)
      /\ UNCHANGED <<desk, zorder, keys, task_list, ts_desk>>
    BY DEF show_overview, Receives, switch
<1>2. Head(queue).kind \in Idle
    BY <1>1 DEF Idle
<1>3. /\ Keys' /\ Lists' /\ Hotkeys' /\ Hidden' /\ Course' /\ Slack'
      /\ ChosenLast(queue') /\ (Waiting("show")' => Waiting("show"))
      /\ (InStack("do_select") => OnlyOf(queue', {"show"}))
    BY <1>1, <1>2, IdleTaken
<1>4. AnySeq(stack) /\ FramesIn(stack, task_list, ts_desk + 1)
      /\ Arrives(stack, task_list, ts_desk + 1, desk)
    BY DEF IInv, Types, TaskInv, Frames
<1>5. CASE monitors # 0
    <2>1. close_overview(NoWindow, stack)
        BY <1>5 DEF show_overview
    <2>2. /\ stack' = <<Frame("close_overview", "pump", NoWindow, NoMeaning)>> \o stack
          /\ last' = last
        BY <2>1 DEF close_overview
    <2>3. /\ FramesIn(stack', task_list, ts_desk + 1) /\ Arrives(stack', task_list, ts_desk + 1, desk)
          /\ Has(stack', "do_select") <=> Has(stack, "do_select")
        BY <1>4, <2>2, CloseFrames
    <2>4. Frames' /\ (InStack("do_select")' => InStack("do_select"))
        BY <1>1, <2>3 DEF Frames, InStack, Has
    <2>5. Choice'
        BY <1>3, <2>4 DEF Choice
    <2>6. Shows'
        BY <1>1, <1>3, <2>2 DEF TaskInv, Shows
    <2>7. OverviewTypes'
        BY <2>1, CloseTypes DEF TaskInv
    <2>. QED
        BY <1>3, <2>4, <2>5, <2>6, <2>7 DEF TaskInv
<1>6. CASE monitors = 0
    <2>1. last' = last + 1 /\ stack' = stack
        BY <1>6 DEF show_overview
    <2>2. Frames' /\ (InStack("do_select")' => InStack("do_select"))
        BY <1>1, <1>4, <2>1 DEF Frames, InStack
    <2>3. Choice'
        BY <1>3, <2>2 DEF Choice
    <2>4. Shows'
        <3>1. last + 1 <= keys
            BY <1>1, HeadIs DEF TaskInv, Shows
        <3>2. ~Waiting("show")'
            <4>1. /\ Head(queue) = queue[1] /\ 1 \in DOMAIN queue
                  /\ \A i \in DOMAIN queue' : i \in Nat \ {0} /\ i + 1 \in DOMAIN queue
                                              /\ queue'[i] = queue[i + 1]
                BY <1>1, TailFacts DEF IInv, Types
            <4>2. \A i \in DOMAIN queue' : queue'[i].kind # "show"
                BY <4>1 DEF IInv, NoShow
            <4>. QED
                BY <4>2 DEF Waiting
        <3>. QED
            BY <3>1, <3>2, <2>1, <1>1 DEF Shows
    <2>5. OverviewTypes'
        BY <1>6, NewOverview
    <2>. QED
        BY <1>3, <2>2, <2>3, <2>4, <2>5 DEF TaskInv
<1>. QED
    BY <1>5, <1>6

\* close_overview in its pumps.
LEMMA CloseGoesOnTask ==
    IInv /\ TaskInv /\ (CloseSwitches \/ CloseWaits) /\ UNCHANGED <<keyboard, switch>> => TaskInv'
PROOF
<1>. SUFFICES ASSUME IInv, TaskInv, CloseSwitches \/ CloseWaits, UNCHANGED <<keyboard, switch>>
              PROVE TaskInv'
    OBVIOUS
<1>1. /\ stack # <<>> /\ UNCHANGED <<overview, queue, desk, keys>>
      /\ \E at : stack' = [stack EXCEPT ![1].at = at]
      /\ zorder' = zorder \/ \E w : zorder' = Raised(w)
    BY DEF CloseSwitches, CloseWaits, pump, Drained, Running
<1>2. UNCHANGED <<task_list, task_index, ts_desk, items, shown_desk, update_thread, made, threads, last>>
    BY <1>1 DEF switch, overview
<1>3. PICK at : stack' = [stack EXCEPT ![1].at = at]
    BY <1>1
<1>4. AnySeq(stack) /\ FramesIn(stack, task_list, ts_desk + 1)
      /\ Arrives(stack, task_list, ts_desk + 1, desk)
    BY DEF IInv, Types, TaskInv, Frames
<1>. DEFINE t == [stack EXCEPT ![1].at = at]
<1>5. FramesIn(t, task_list, ts_desk + 1)
    BY <1>1, <1>4, FramesAt
<1>6. \A proc : Has(t, proc) <=> Has(stack, proc)
    BY <1>1, <1>4, SameProc
<1>7. stack' = t
    BY <1>3
<1>. HIDE DEF t
<1>8. Frames'
    BY <1>1, <1>2, <1>4, <1>5, <1>6, <1>7 DEF Frames, Arrives
<1>9. InStack("do_select")' => InStack("do_select")
    BY <1>6, <1>7 DEF InStack, Has
<1>10. Lists'
    <2>1. zorder' \in Seq(Windows) /\ IsInjective(zorder')
        BY <1>1, RaisedType DEF TaskInv, Lists
    <2>. QED
        BY <2>1, <1>1, <1>2 DEF TaskInv, Lists
<1>11. OverviewTypes'
    BY <1>2 DEF TaskInv, OverviewTypes
<1>. QED
    BY <1>1, <1>2, <1>8, <1>9, <1>10, <1>11, OverviewGoesOn

LEMMA CloseFreesTask ==
    IInv /\ TaskInv /\ CloseFrees /\ UNCHANGED <<keyboard, switch>> => TaskInv'
PROOF
<1>. SUFFICES ASSUME IInv, TaskInv, CloseFrees, UNCHANGED <<keyboard, switch>> PROVE TaskInv'
    OBVIOUS
<1>1. /\ stack # <<>> /\ Head(stack).proc = "close_overview" /\ stack' = Tail(stack)
      /\ items' = {} /\ update_thread' = 0
      /\ UNCHANGED <<last, shown_desk, threads, made, queue, desk, zorder, keys>>
    BY DEF CloseFrees, Running
<1>2. UNCHANGED <<task_list, task_index, ts_desk>>
    BY DEF switch
<1>3. \A proc : Has(stack, proc) <=> Head(stack).proc = proc \/ Has(Tail(stack), proc)
    BY <1>1, TailFacts DEF IInv, Types
<1>4. FramesIn(Tail(stack), task_list, ts_desk + 1)
    BY <1>1, FramesTail DEF IInv, Types, TaskInv, Frames
<1>5. \A proc : proc # "close_overview" => (Has(Tail(stack), proc) <=> Has(stack, proc))
    BY <1>1, <1>3
<1>6. Frames'
    <2>1. Arrives(stack, task_list, ts_desk + 1, desk)
        BY DEF TaskInv, Frames
    <2>2. Arrives(Tail(stack), task_list, ts_desk + 1, desk)
        BY <2>1, <1>5 DEF Arrives
    <2>. QED
        BY <2>2, <1>1, <1>2, <1>4 DEF Frames
<1>7. InStack("do_select")' => InStack("do_select")
    BY <1>1, <1>5 DEF InStack, Has
<1>8. Lists'
    BY <1>1, <1>2 DEF TaskInv, Lists
<1>9. OverviewTypes'
    <2>1. made \in Nat
        BY DEF IInv, Types
    <2>. QED
        BY <2>1, <1>1, DesksAssumption DEF TaskInv, OverviewTypes
<1>. QED
    BY <1>1, <1>6, <1>7, <1>8, <1>9, OverviewGoesOn

\* What only changes the threads.
LEMMA ThreadsGoOn ==
    ASSUME IInv, TaskInv, UNCHANGED <<last, items, shown_desk, mainthread, keyboard, switch>>,
           update_thread' \in 0..made', \A t \in threads' : t.id \in 1..made'
    PROVE  TaskInv'
PROOF
<1>1. UNCHANGED <<queue, stack, desk, zorder, keys, task_list, task_index, ts_desk>>
    BY DEF mainthread, switch
<1>2. Lists' /\ Frames' /\ (InStack("do_select")' => InStack("do_select"))
    BY <1>1 DEF TaskInv, Lists, Frames, InStack
<1>3. OverviewTypes'
    BY DEF TaskInv, OverviewTypes
<1>. QED
    BY <1>1, <1>2, <1>3, OverviewGoesOn

LEMMA TimerTask == IInv /\ TaskInv /\ OnTimer /\ UNCHANGED <<keyboard, switch>> => TaskInv'
PROOF
<1>. SUFFICES ASSUME IInv, TaskInv, OnTimer, UNCHANGED <<keyboard, switch>> PROVE TaskInv'
    OBVIOUS
<1>1. /\ monitors \in wnds /\ ~Runs(update_thread) /\ CreateThread(threads)
      /\ UNCHANGED <<last, items, shown_desk, mainthread>>
    BY DEF OnTimer
<1>2. threads = {} /\ made \in Nat
    BY <1>1 DEF IInv, OneThread, Runs, Types
<1>3. made' = made + 1 /\ update_thread' = made' /\ threads' = {Thread(made', "start", 0, 0)}
    BY <1>1, <1>2 DEF CreateThread
<1>4. \A t \in threads' : t.id = made'
    BY <1>3 DEF Thread
<1>5. update_thread' \in 0..made' /\ made' \in 1..made'
    BY <1>2, <1>3
<1>. QED
    BY <1>1, <1>4, <1>5, ThreadsGoOn

\* Of the threads that run, one goes on or ends.
LEMMA ThreadsIds ==
    ASSUME IInv, TaskInv,
           UNCHANGED <<last, items, shown_desk, update_thread, made, mainthread, keyboard, switch>>,
           \A u \in threads' : \E t \in threads : u.id = t.id
    PROVE  TaskInv'
PROOF
<1>1. update_thread' \in 0..made' /\ \A t \in threads : t.id \in 1..made'
    BY DEF TaskInv, OverviewTypes
<1>2. \A u \in threads' : u.id \in 1..made'
    BY <1>1
<1>. QED
    BY <1>1, <1>2, ThreadsGoOn

LEMMA PaintedTask == IInv /\ TaskInv /\ Painted /\ UNCHANGED <<keyboard, switch>> => TaskInv'
PROOF
<1>. SUFFICES ASSUME IInv, TaskInv, Painted, UNCHANGED <<keyboard, switch>> PROVE TaskInv'
    OBVIOUS
<1>1. UNCHANGED <<last, items, shown_desk, update_thread, made, mainthread>>
    BY DEF Painted
<1>2. PICK t \in threads : threads' = (threads \ {t}) \cup NextItem(t)
    BY DEF Painted
<1>3. \A u \in NextItem(t) : u.id = t.id
    BY NextItemFacts DEF IInv, Types
<1>4. \A u \in threads' : \E v \in threads : u.id = v.id
    BY <1>2, <1>3
<1>. QED
    BY <1>1, <1>4, ThreadsIds

LEMMA CapturesTask == IInv /\ TaskInv /\ update_captures /\ UNCHANGED <<keyboard, switch>> => TaskInv'
PROOF
<1>. SUFFICES ASSUME IInv, TaskInv, update_captures, UNCHANGED <<keyboard, switch>> PROVE TaskInv'
    OBVIOUS
<1>1. UNCHANGED <<last, items, shown_desk, update_thread, made, mainthread>>
    BY DEF update_captures
<1>2. PICK t \in threads : \E after :
        /\ threads' = (threads \ {t}) \cup after
        /\ \A u \in after : u.id = t.id
    <2>1. CASE CollectItems
        <3>1. PICK t \in threads, n \in 0..Cardinality(items) :
                threads' = (threads \ {t}) \cup
                  IF monitors \in wnds /\ n > 0 THEN {Thread(t.id, "capture", monitors, n)} ELSE {}
            BY <2>1 DEF CollectItems
        <3>2. Thread(t.id, "capture", monitors, n).id = t.id
            BY DEF Thread
        <3>. DEFINE after ==
                IF monitors \in wnds /\ n > 0 THEN {Thread(t.id, "capture", monitors, n)} ELSE {}
        <3>3. threads' = (threads \ {t}) \cup after /\ \A u \in after : u.id = t.id
            BY <3>1, <3>2
        <3>. HIDE DEF after
        <3>. QED
            BY <3>3
    <2>2. CASE Capture
        <3>1. PICK t \in threads :
                threads' = (threads \ {t}) \cup
                  IF t.mon \in wnds THEN {[t EXCEPT !.phase = "update"]} ELSE NextItem(t)
            BY <2>2 DEF Capture
        <3>2. t \in THREAD
            BY DEF IInv, Types
        <3>3. [t EXCEPT !.phase = "update"].id = t.id /\ \A u \in NextItem(t) : u.id = t.id
            BY <3>2, NextItemFacts DEF THREAD
        <3>. DEFINE after ==
                IF t.mon \in wnds THEN {[t EXCEPT !.phase = "update"]} ELSE NextItem(t)
        <3>4. threads' = (threads \ {t}) \cup after /\ \A u \in after : u.id = t.id
            BY <3>1, <3>3
        <3>. HIDE DEF after
        <3>. QED
            BY <3>4
    <2>. QED
        BY <2>1, <2>2 DEF update_captures
<1>3. \A u \in threads' : \E v \in threads : u.id = v.id
    BY <1>2
<1>. QED
    BY <1>1, <1>3, ThreadsIds

-----------------------------------------------------------------------------
(* The invariant of the switcher.                                          *)
LEMMA NoFits == Fits(<<>>, -1, NDesks - 1)
PROOF
<1>1. Len(<<>>) = 0 /\ \A i \in DOMAIN <<>> : FALSE
    BY NoMessage
<1>. DEFINE n == NDesks - 1
            h == [i \in 0..0 |-> n]
<1>2. n \in Nat
    BY DesksAssumption
<1>3. h \in [0..0 -> Int] /\ h[0] = n
    BY <1>2
<1>. HIDE DEF h
<1>4. h[0] >= -1 /\ h[0] >= n /\ \A i \in 0..0 : h[i] <= n
    BY <1>2, <1>3
<1>. HIDE DEF n
<1>5. h \in [0..Len(<<>>) -> Int] /\ \A i \in 0..Len(<<>>) : h[i] <= n
    BY <1>1, <1>3, <1>4
<1>. QED
    BY <1>1, <1>4, <1>5 DEF Fits, n

LEMMA TaskInit == Init => TaskInv
PROOF
<1>. SUFFICES ASSUME Init PROVE TaskInv
    OBVIOUS
<1>1. /\ queue = <<>> /\ stack = <<>> /\ desk \in 1..NDesks /\ zorder \in SetToSeqs(Windows) /\ keys = 0
    BY DEF Init, InitMainThread
<1>2. /\ alt = FALSE /\ held = FALSE /\ alttab = FALSE /\ shift = FALSE
      /\ visible = FALSE /\ task_list = <<>> /\ task_index = -1 /\ ts_desk = -1 /\ walk = 0
    BY DEF Init, InitSwitcher
<1>3. /\ last = 0 /\ items = {} /\ shown_desk = 0 /\ update_thread = 0 /\ threads = {} /\ made = 0
    BY DEF Init, InitOverview
<1>4. AnySeq(<<>>) /\ \A i \in DOMAIN <<>> : FALSE
    BY NoMessage
<1>5. Keys
    <2>1. alt \in BOOLEAN /\ held \in BOOLEAN /\ alttab \in BOOLEAN /\ visible \in BOOLEAN /\ shift = held
        BY <1>2, Zenon
    <2>2. keys \in 0..MaxKeys /\ walk \in (-keys)..keys
        BY <1>1, <1>2, KeysAssumption
    <2>. QED
        BY <2>1, <2>2 DEF Keys
<1>6. Lists
    <2>1. Cardinality(Windows) \in Nat
        BY WindowsAssumption, FS_CardinalityType
    <2>2. zorder \in [1..Cardinality(Windows) -> Windows] /\ IsInjective(zorder)
        BY <1>1 DEF SetToSeqs, IsInjective
    <2>3. zorder \in Seq(Windows)
        BY <2>1, <2>2, SeqDef
    <2>4. task_list \in Seq(Windows) /\ IsInjective(task_list) /\ \A i \in DOMAIN task_list : FALSE
        <3>1. <<>> \in Seq(Windows)
            BY EmptySeq
        <3>. QED
            BY <3>1, <1>2, <1>4 DEF IsInjective
    <2>. QED
        BY <2>2, <2>3, <2>4, <1>1, <1>2 DEF Lists
<1>7. Hotkeys /\ Hidden /\ Choice /\ Shows
    BY <1>1, <1>2, <1>3, <1>4
       DEF Hotkeys, HotkeysIn, Hidden, HiddenIn, Choice, ChosenLast, OnlyOf, Shows, Waiting
<1>8. Frames
    BY <1>1, <1>2, <1>4 DEF Frames, FramesIn, Arrives
<1>9. Course
    <2>1. Leads(<<>>, 0, 0)
        <3>1. OnlyOf(<<>>, Idle)
            BY <1>4 DEF OnlyOf
        <3>. QED
            BY <3>1, <1>4, LeadsNowhere
    <2>2. AtIndex(0)
        BY <1>2 DEF AtIndex
    <2>. QED
        BY <2>1, <2>2, <1>1, <1>2 DEF Course
<1>10. Slack
    <2>1. NDesks - 1 + keys = NDesks - 1
        BY <1>1, DesksAssumption
    <2>. QED
        BY <2>1, <1>1, <1>2, NoFits DEF Slack
<1>11. OverviewTypes
    BY <1>3, DesksAssumption DEF OverviewTypes
<1>. QED
    BY <1>5, <1>6, <1>7, <1>8, <1>9, <1>10, <1>11 DEF TaskInv

LEMMA TaskStep == Prompt /\ IInv /\ TaskInv /\ [Next]_vars => TaskInv'
PROOF
<1>. SUFFICES ASSUME Prompt, IInv, TaskInv, [Next]_vars PROVE TaskInv'
    OBVIOUS
<1>1. CASE UNCHANGED vars
    <2>1. UNCHANGED <<queue, stack, desk, zorder, keys, alt, held, alttab, shift, walk, switch, overview>>
        BY <1>1 DEF vars, mainthread, keyboard
    <2>2. Keys'
        BY <2>1 DEF TaskInv, Keys, switch
    <2>. QED
        BY <2>1, <2>2, KeysQuiet
<1>2. CASE User
    BY <1>2, KeyProcTask, ClickTaskTask, ClickItemTask, ShowKeyTask, DeskKeyTask DEF User
<1>3. CASE MainStep
    <2>1. CASE Plugins
        BY <2>1, OnSwitchMessageTask, SelectTask, FinishTask, ShowTask, CloseGoesOnTask,
           CloseFreesTask, PaintedTask DEF Plugins
    <2>. QED
        BY <2>1, <1>3, OnDeskKeyTask, OnHotkeyTask, SwitchEndsTask DEF MainStep
<1>4. CASE ThreadStep
    BY <1>4, CapturesTask DEF ThreadStep
<1>5. CASE OnTimer /\ UNCHANGED <<keyboard, switch>>
    BY <1>5, TimerTask
<1>. QED
    BY <1>1, <1>2, <1>3, <1>4, <1>5 DEF Next

\* Both invariants hold in every reachable state.
THEOREM TaskInvariance == ASSUME Prompt PROVE Spec => [](IInv /\ TaskInv)
PROOF
<1>1. "mash" \notin World
    BY DEF Prompt
<1>2. IInv /\ [Next]_vars => IInv'
    BY <1>1, StepKeeps
<1>3. IInv /\ TaskInv /\ [Next]_vars => TaskInv'
    BY TaskStep
<1>. QED
    BY <1>2, <1>3, InitHolds, TaskInit, PTL DEF Spec

\* The types of everything: the workspace of the list stays where the keys can take it.
LEMMA TypesFollow == IInv /\ TaskInv => TypeOK
PROOF
<1>. SUFFICES ASSUME IInv, TaskInv PROVE TypeOK
    OBVIOUS
<1>1. ts_desk \in -1..(NDesks + MaxKeys)
    <2>1. PICK h \in [0..Len(queue) -> Int] :
            h[0] >= ts_desk /\ \A i \in 0..Len(queue) : h[i] <= NDesks - 1 + keys
        BY DEF TaskInv, Slack, Fits
    <2>2. 0 \in 0..Len(queue)
        BY AnySeqFacts DEF IInv, Types
    <2>3. h[0] \in Int /\ h[0] >= ts_desk /\ h[0] <= NDesks - 1 + keys
        BY <2>1, <2>2
    <2>4. ts_desk \in Int /\ ts_desk >= -1 /\ keys \in 0..MaxKeys /\ NDesks \in Nat /\ MaxKeys \in Nat
        BY DesksAssumption, KeysAssumption DEF TaskInv, Lists, Keys
    <2>. QED
        BY <2>3, <2>4
<1>2. walk \in -MaxKeys..MaxKeys
    BY KeysAssumption DEF TaskInv, Keys
<1>3. TypeOKSwitcher
    BY <1>1, <1>2 DEF TaskInv, Keys, Lists, TypeOKSwitcher
<1>4. TypeOKOverview
    <2>1. last \in 0..MaxKeys
        BY KeysAssumption DEF TaskInv, Shows, Keys, IInv, Types
    <2>2. monitors \in 0..last /\ wnds \subseteq 1..last /\ freed \subseteq 1..last
        BY DEF IInv, Types, Old
    <2>3. \A t \in threads : t.mon \in 0..last
        BY <2>1, <2>2 DEF IInv, OneThread
    <2>. QED
        BY <2>1, <2>2, <2>3 DEF TaskInv, OverviewTypes, TypeOKOverview
<1>. QED
    BY <1>3, <1>4 DEF TaskInv, Keys, Lists, TypeOK

\* do_select, KeyProc and switch_proc: what is switched to is the window that the keys
\* or the click led to, of the workspace that was shown, and that is active by then
\* unless another change of it goes on; as long as no key comes before what came
\* before it is dealt with, and Alt goes down before Shift.
THEOREM SelectsMeantAlways == ASSUME Prompt PROVE Spec => []SelectsMeant
PROOF
<1>1. IInv /\ TaskInv => SelectsMeant
    <2>. SUFFICES ASSUME IInv, TaskInv PROVE SelectsMeant
        OBVIOUS
    <2>1. TypeOK
        BY TypesFollow
    <2>2. ASSUME Running("do_select"), task_list # <<>>
          PROVE  /\ Head(stack).arg = Head(stack).meant % Len(task_list)
                 /\ \A i \in DOMAIN task_list : ts_desk + 1 \in HomeOf[task_list[i]]
                 /\ desk = ts_desk + 1 \/ InStack("switch_desktop")
        <3>1. stack # <<>> /\ Head(stack).proc = "do_select" /\ AnySeq(stack)
            BY <2>2 DEF Running, IInv, Types
        <3>2. Head(stack).arg = Head(stack).meant % Len(task_list)
            BY <2>2, <3>1, FramesTail DEF TaskInv, Frames
        <3>3. Has(stack, "do_select")
            BY <3>1, TailFacts
        <3>4. desk = ts_desk + 1 \/ InStack("switch_desktop")
            BY <2>2, <3>3, InStackIs DEF TaskInv, Frames, Arrives
        <3>. QED
            BY <3>2, <3>4 DEF TaskInv, Lists
    <2>. QED
        BY <2>1, <2>2 DEF SelectsMeant
<1>. QED
    BY <1>1, TaskInvariance, PTL
=============================================================================
