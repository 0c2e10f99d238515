----------------------------- MODULE MenusProofs -----------------------------
(***************************************************************************)
(* Proofs about both halves of contextmenu.cpp, for any definitions, hot   *)
(* keys, rules and files.                                                  *)
(*                                                                         *)
(* Menus, for any nesting of loops: what a menu was made of lives as long  *)
(* as a frame or a message can reach it, and its commands act on the       *)
(* window it was asked for.  A pool has one way to go: it is on the        *)
(* screen, then its command and the message that frees it are queued in    *)
(* this order, then it is freed.  Sound says so of the queue, Frames of    *)
(* the stack; and Meant, that the context is still the one of every menu   *)
(* that can yet give a command, unless another hot key or a rule came      *)
(* between.                                                                *)
(*                                                                         *)
(* Rules, for any file: whatever is done with the configuration is what    *)
(* the lines read by then say.  RulesInv says of each kind of look-up      *)
(* that the list it goes through and the lines agree on the first entry    *)
(* (FirstAgree) or on all of them (AllAgree), which a line more keeps      *)
(* whether it is about the look-up or not (FirstMore, AllMore).  A menu    *)
(* counts at the line that completes it, and the end of the file as one    *)
(* more CONTEXTMENU line (END).  The tokens that were freed, those of each *)
(* thing made, and those of the menu being defined are Apart; a good line  *)
(* leaves all of its own with one of these (Held) but those that Stay.     *)
(***************************************************************************)
EXTENDS Menus, Rules, FiniteSetTheorems, SequenceTheorems, WellFoundedInduction, TLAPS

ItemArgs == UNION {{Defs[n][i].arg : i \in DOMAIN Defs[n]} : n \in DOMAIN Defs}
Args == ItemArgs \cup {"none"}
POOL == [name : DOMAIN Defs, filled : SUBSET Paths]
FRAME == [at : {"menu", "box", "exec", "switch"}, pool : Nat,
          back : Windows \cup {None, Root, "no"}, rule : BOOLEAN]
MESSAGE == [m : {"hotkey"}, key : Hotkeys]
             \cup [m : {"context"}, slit : BOOLEAN]
             \cup [m : {"command"}, pool : Nat, kind : Functions, arg : Args]
             \cup [m : {"created"}, w : Windows]
             \cup [m : {"free"}, pool : Nat]
Reaches(message) == message.m \in {"command", "free"}

Typed ==
    /\ pools \in Seq(POOL)
    /\ \A p \in DOMAIN pools : pools[p].filled \subseteq Realized[pools[p].name]
    /\ asked \in Seq(Windows \cup {None}) /\ Len(asked) = Len(pools)
    /\ freed \subseteq DOMAIN pools /\ unsure \subseteq DOMAIN pools
    /\ active_workspace_context_window \in Windows \cup {None}
    /\ foreground \in Windows \cup {None, Root} /\ alive \in SUBSET Windows
    /\ events \in 0..MaxEvents

\* Of a stack ST and a queue Q, with the pools MADE so far, LIVE those not freed.
Frames(st, live, made) ==
    /\ st \in Seq(FRAME)
    /\ \A n \in DOMAIN st : st[n].pool \in {0} \cup made
    /\ \A n \in DOMAIN st : st[n].at = "menu" => st[n].pool \in live /\ ~st[n].rule
    /\ \A j, k \in DOMAIN st : st[j].at = "menu" /\ st[k].at = "menu" => j = k
InOrder(q) ==
    \A j, k \in DOMAIN q :
        q[j].m = "free" /\ Reaches(q[k]) /\ q[j].pool = q[k].pool => k <= j
Sound(q, st, live) ==
    /\ q \in Seq(MESSAGE)
    /\ \A i \in DOMAIN q : Reaches(q[i]) => q[i].pool \in live
    /\ InOrder(q)
    /\ \A n \in DOMAIN st, i \in DOMAIN q :
          st[n].at = "menu" /\ Reaches(q[i]) => q[i].pool # st[n].pool
NoMenu(st) == \A n \in DOMAIN st : st[n].at # "menu"
Shown(st, p) == \E n \in DOMAIN st : st[n].at = "menu" /\ st[n].pool = p
HasCommand(q, p) == \E i \in DOMAIN q : q[i].m = "command" /\ q[i].pool = p
Meant(q, st, sure, context, now) ==
    \A p \in sure : Shown(st, p) \/ HasCommand(q, p) => context[p] = now

IInv ==
    /\ Typed /\ Frames(stack, Live, DOMAIN pools) /\ Sound(queue, stack, Live)
    /\ Meant(queue, stack, Live \ unsure, asked, active_workspace_context_window)
    /\ wrong = FALSE /\ aborted = FALSE

-----------------------------------------------------------------------------
(* Sequences.                                                              *)

\* Leaving the frame on top keeps the others.
LEMMA FrontFacts ==
    ASSUME NEW S, NEW s \in Seq(S), s # <<>>
    PROVE  /\ Front(s) \in Seq(S) /\ Len(Front(s)) = Len(s) - 1
           /\ DOMAIN Front(s) = 1..(Len(s) - 1)
           /\ \A i \in DOMAIN Front(s) : i \in DOMAIN s /\ Front(s)[i] = s[i]
           /\ Last(s) = s[Len(s)] /\ Len(s) \in DOMAIN s /\ Last(s) \in S
PROOF
<1>1. Len(s) \in Nat /\ Len(s) > 0 /\ DOMAIN s = 1..Len(s)
    BY EmptySeq, LenProperties
<1>2. 1 \in 1..(Len(s) + 1) /\ Len(s) - 1 \in 0..Len(s)
    BY <1>1
<1>3. /\ SubSeq(s, 1, Len(s) - 1) \in Seq(S)
      /\ Len(SubSeq(s, 1, Len(s) - 1)) = Len(s) - 1
      /\ \A i \in 1..(Len(s) - 1) : SubSeq(s, 1, Len(s) - 1)[i] = s[i]
    BY <1>1, SMT
<1>4. DOMAIN SubSeq(s, 1, Len(s) - 1) = 1..(Len(s) - 1)
    BY <1>3, LenProperties
<1>5. s[Len(s)] \in S
    BY <1>1, ElementOfSeq
<1>. QED
    BY <1>1, <1>3, <1>4, <1>5 DEF Front, Last

\* A message put at the end.
LEMMA AppendFacts ==
    ASSUME NEW S, NEW s \in Seq(S), NEW e \in S
    PROVE  /\ Append(s, e) \in Seq(S) /\ DOMAIN Append(s, e) = 1..(Len(s) + 1)
           /\ Len(Append(s, e)) = Len(s) + 1
           /\ DOMAIN s = 1..Len(s) /\ Len(s) \in Nat
           /\ \A i \in DOMAIN s : Append(s, e)[i] = s[i]
           /\ Append(s, e)[Len(s) + 1] = e
PROOF
<1>1. Len(s) \in Nat /\ DOMAIN s = 1..Len(s)
    BY LenProperties
<1>2. Append(s, e) \in Seq(S) /\ Len(Append(s, e)) = Len(s) + 1
    BY AppendProperties
<1>3. DOMAIN Append(s, e) = 1..(Len(s) + 1)
    BY <1>2, LenProperties
<1>. QED
    BY <1>1, <1>2, <1>3, AppendProperties

\* The message at the head taken off.
LEMMA TailFacts ==
    ASSUME NEW S, NEW s \in Seq(S), s # <<>>
    PROVE  /\ Tail(s) \in Seq(S) /\ Head(s) = s[1] /\ 1 \in DOMAIN s /\ s[1] \in S
           /\ \A i \in DOMAIN Tail(s) : i + 1 \in DOMAIN s /\ Tail(s)[i] = s[i + 1] /\ i \in Nat
PROOF
<1>1. Len(s) \in Nat /\ Len(s) > 0 /\ DOMAIN s = 1..Len(s)
    BY EmptySeq, LenProperties
<1>2. Tail(s) \in Seq(S) /\ Len(Tail(s)) = Len(s) - 1
      /\ \A i \in 1..Len(Tail(s)) : Tail(s)[i] = s[i + 1]
    BY HeadTailProperties
<1>3. DOMAIN Tail(s) = 1..(Len(s) - 1)
    BY <1>2, LenProperties
<1>4. s[1] \in S /\ Head(s) = s[1]
    BY <1>1, ElementOfSeq
<1>. QED
    BY <1>1, <1>2, <1>3, <1>4

-----------------------------------------------------------------------------
(* Stacks and queues.                                                      *)

\* A frame that is no menu comes or goes.
LEMMA SameMenus ==
    ASSUME NEW st, NEW q, NEW live, NEW made, NEW st2,
           Frames(st, live, made), Sound(q, st, live),
           st2 \in Seq(FRAME), \A n \in DOMAIN st2 : st2[n].pool \in {0} \cup made,
           \A n \in DOMAIN st2 : st2[n].at = "menu" => n \in DOMAIN st /\ st2[n] = st[n]
    PROVE  /\ Frames(st2, live, made) /\ Sound(q, st2, live)
           /\ \A p : Shown(st2, p) => Shown(st, p)
PROOF
<1>1. Frames(st2, live, made)
    BY DEF Frames
<1>2. Sound(q, st2, live)
    BY DEF Sound
<1>3. \A p : Shown(st2, p) => Shown(st, p)
    BY DEF Shown
<1>. QED
    BY <1>1, <1>2, <1>3

\* A new menu is shown.
LEMMA MenuShown ==
    ASSUME NEW st, NEW live, NEW made, NEW p, NEW f \in FRAME,
           Frames(st, live, made), f.at = "menu", f.pool = p, f.rule = FALSE, NoMenu(st)
    PROVE  Frames(Append(st, f), live \cup {p}, made \cup {p})
PROOF
<1>. DEFINE st2 == Append(st, f)
<1>1. /\ st2 \in Seq(FRAME) /\ DOMAIN st2 = DOMAIN st \cup {Len(st) + 1}
      /\ \A n \in DOMAIN st : st2[n] = st[n]
      /\ st2[Len(st) + 1] = f
    BY AppendFacts DEF Frames
<1>. HIDE DEF st2
<1>2. \A n \in DOMAIN st2 : st2[n].at = "menu" => n = Len(st) + 1 /\ st2[n] = f
    BY <1>1 DEF NoMenu
<1>3. Frames(st2, live \cup {p}, made \cup {p})
    BY <1>1, <1>2 DEF Frames
<1>. QED
    BY <1>3 DEF st2

\* A new menu that cannot be shown is to be freed.
LEMMA MenuRefused ==
    ASSUME NEW st, NEW q, NEW live, NEW made, NEW p \in Nat \ {0},
           Frames(st, live, made), Sound(q, st, live), live \subseteq made, p \notin made
    PROVE  /\ Frames(st, live \cup {p}, made \cup {p})
           /\ Sound(q \o FreeLater(p), st, live \cup {p})
           /\ \A o : HasCommand(q \o FreeLater(p), o) => HasCommand(q, o)
PROOF
<1>. DEFINE e == [m |-> "free", pool |-> p]
            q2 == Append(q, e)
<1>1. e \in MESSAGE /\ e.m = "free" /\ e.pool = p
    BY DEF MESSAGE
<1>2. q \in Seq(MESSAGE) /\ q \o FreeLater(p) = q2
    BY <1>1, AppendIsConcat DEF FreeLater, Sound
<1>. HIDE DEF e
<1>3. /\ q2 \in Seq(MESSAGE) /\ DOMAIN q2 = DOMAIN q \cup {Len(q) + 1}
      /\ DOMAIN q = 1..Len(q) /\ Len(q) \in Nat
      /\ \A i \in DOMAIN q : q2[i] = q[i]
      /\ q2[Len(q) + 1] = e
    BY <1>1, <1>2, AppendFacts
<1>. HIDE DEF q2
<1>4. Frames(st, live \cup {p}, made \cup {p})
    BY DEF Frames
<1>5. \A i \in DOMAIN q2 : Reaches(q2[i]) => q2[i].pool \in live \cup {p}
    BY <1>1, <1>3 DEF Sound
<1>6. InOrder(q2)
    <2>. SUFFICES ASSUME NEW j \in DOMAIN q2, NEW k \in DOMAIN q2, q2[j].m = "free",
                         Reaches(q2[k]), q2[j].pool = q2[k].pool
                  PROVE  k <= j
        BY DEF InOrder
    <2>1. CASE j = Len(q) + 1
        BY <2>1, <1>3
    <2>2. CASE j \in DOMAIN q /\ k \in DOMAIN q
        BY <2>2, <1>3 DEF Sound, InOrder
    <2>3. CASE j \in DOMAIN q /\ k = Len(q) + 1
        <3>1. q2[j] = q[j] /\ Reaches(q[j])
            BY <2>3, <1>3 DEF Reaches
        <3>2. q[j].pool \in live /\ q2[k].pool = p
            BY <2>3, <3>1, <1>1, <1>3 DEF Sound
        <3>. QED
            BY <3>1, <3>2
    <2>. QED
        BY <2>1, <2>2, <2>3, <1>3
<1>7. \A n \in DOMAIN st, i \in DOMAIN q2 :
          st[n].at = "menu" /\ Reaches(q2[i]) => q2[i].pool # st[n].pool
    BY <1>1, <1>3 DEF Sound, Frames
<1>8. \A o : HasCommand(q2, o) => HasCommand(q, o)
    BY <1>1, <1>3 DEF HasCommand
<1>. QED
    BY <1>2, <1>3, <1>4, <1>5, <1>6, <1>7, <1>8 DEF Sound

\* A message that names no pool.
LEMMA Posted ==
    ASSUME NEW st, NEW q, NEW live, NEW e \in MESSAGE, Sound(q, st, live), ~Reaches(e)
    PROVE  /\ Sound(Append(q, e), st, live)
           /\ \A o : HasCommand(Append(q, e), o) => HasCommand(q, o)
PROOF
<1>. DEFINE q2 == Append(q, e)
<1>1. /\ q2 \in Seq(MESSAGE) /\ DOMAIN q2 = DOMAIN q \cup {Len(q) + 1}
      /\ \A i \in DOMAIN q : q2[i] = q[i]
      /\ q2[Len(q) + 1] = e
    BY AppendFacts DEF Sound
<1>. HIDE DEF q2
<1>2. \A i \in DOMAIN q2 : Reaches(q2[i]) => i \in DOMAIN q /\ q2[i] = q[i]
    BY <1>1
<1>3. InOrder(q2)
    <2>1. \A i \in DOMAIN q2 : q2[i].m = "free" => Reaches(q2[i])
        BY DEF Reaches
    <2>. QED
        BY <2>1, <1>2 DEF InOrder, Sound
<1>4. Sound(q2, st, live)
    BY <1>1, <1>2, <1>3 DEF Sound
<1>5. \A o : HasCommand(q2, o) => HasCommand(q, o)
    BY <1>1, <1>2 DEF HasCommand, Reaches
<1>. QED
    BY <1>4, <1>5 DEF q2

\* The message at the head is taken off.
LEMMA Popped ==
    ASSUME NEW st, NEW q, NEW live, Sound(q, st, live), q # <<>>
    PROVE  /\ Sound(Tail(q), st, live)
           /\ \A o : HasCommand(Tail(q), o) => HasCommand(q, o)
           /\ Head(q) \in MESSAGE
           /\ Reaches(Head(q)) => Head(q).pool \in live /\ ~Shown(st, Head(q).pool)
           /\ Head(q).m = "command" => HasCommand(q, Head(q).pool)
           /\ Head(q).m = "free" =>
                 \A i \in DOMAIN Tail(q) : Reaches(Tail(q)[i]) => Tail(q)[i].pool # Head(q).pool
PROOF
<1>. DEFINE q2 == Tail(q)
<1>1. /\ q \in Seq(MESSAGE) /\ q2 \in Seq(MESSAGE) /\ Head(q) = q[1] /\ 1 \in DOMAIN q
      /\ q[1] \in MESSAGE
      /\ \A i \in DOMAIN q2 : i + 1 \in DOMAIN q /\ q2[i] = q[i + 1] /\ i \in Nat
    BY TailFacts DEF Sound
<1>. HIDE DEF q2
<1>2. InOrder(q2)
    <2>. SUFFICES ASSUME NEW j \in DOMAIN q2, NEW k \in DOMAIN q2, q2[j].m = "free",
                         Reaches(q2[k]), q2[j].pool = q2[k].pool
                  PROVE  k <= j
        BY DEF InOrder
    <2>1. k + 1 <= j + 1
        BY <1>1 DEF Sound, InOrder
    <2>. QED
        BY <2>1, <1>1
<1>3. Sound(q2, st, live)
    BY <1>1, <1>2 DEF Sound
<1>4. \A o : HasCommand(q2, o) => HasCommand(q, o)
    BY <1>1 DEF HasCommand
<1>5. Reaches(q[1]) => q[1].pool \in live /\ ~Shown(st, q[1].pool)
    BY <1>1 DEF Sound, Shown
<1>6. q[1].m = "command" => HasCommand(q, q[1].pool)
    BY <1>1 DEF HasCommand
<1>7. ASSUME q[1].m = "free", NEW i \in DOMAIN q2, Reaches(q2[i]), q2[i].pool = q[1].pool
      PROVE  FALSE
    <2>1. Reaches(q[i + 1]) /\ i + 1 \in DOMAIN q /\ q[i + 1].pool = q[1].pool
        BY <1>1, <1>7
    <2>2. i + 1 <= 1 /\ i \in Nat /\ i # 0
        <3>1. i # 0
            <4>1. DOMAIN q2 = 1..Len(q2) /\ Len(q2) \in Nat
                BY <1>1, LenProperties
            <4>. QED
                BY <4>1
        <3>. QED
            BY <2>1, <1>1, <1>7, <3>1 DEF Sound, InOrder
    <2>. QED
        BY <2>2
<1>. QED
    BY <1>1, <1>3, <1>4, <1>5, <1>6, <1>7 DEF q2

-----------------------------------------------------------------------------
(* What the invariant says of the properties.                              *)
LEMMA PoolFacts ==
    ASSUME Typed
    PROVE  /\ Len(pools) \in Nat /\ DOMAIN pools = 1..Len(pools) /\ DOMAIN asked = DOMAIN pools
           /\ \A p \in DOMAIN pools : pools[p] \in POOL /\ asked[p] \in Windows \cup {None}
PROOF
<1>1. /\ Len(pools) \in Nat /\ DOMAIN pools = 1..Len(pools) /\ DOMAIN asked = 1..Len(asked)
      /\ Len(asked) = Len(pools)
    BY LenProperties DEF Typed
<1>. QED
    BY <1>1, ElementOfSeq DEF Typed

LEMMA InvTypes == IInv => TypeOK
PROOF
<1>. SUFFICES ASSUME IInv PROVE TypeOK
    OBVIOUS
<1>1. \A p \in DOMAIN pools : /\ pools[p].name \in DOMAIN Defs
                              /\ pools[p].filled \subseteq Realized[pools[p].name]
                              /\ asked[p] \in Windows \cup {None}
    BY PoolFacts DEF IInv, Typed, POOL
<1>2. \A n \in DOMAIN stack : /\ stack[n].at \in {"menu", "box", "exec", "switch"}
                              /\ stack[n].pool \in {0} \cup DOMAIN pools
    <2>1. \A n \in DOMAIN stack : stack[n] \in FRAME
        BY LenProperties, ElementOfSeq DEF IInv, Frames
    <2>. QED
        BY <2>1 DEF IInv, Frames, FRAME
<1>3. \A n \in DOMAIN queue : queue[n].m \in {"hotkey", "context", "command", "created", "free"}
    <2>1. \A n \in DOMAIN queue : queue[n] \in MESSAGE
        BY LenProperties, ElementOfSeq DEF IInv, Sound
    <2>. QED
        BY <2>1 DEF MESSAGE
<1>. QED
    BY <1>1, <1>2, <1>3 DEF IInv, Typed, TypeOK

LEMMA InvAlive == IInv => ItemsAlive
PROOF
<1>. SUFFICES ASSUME IInv PROVE ItemsAlive
    OBVIOUS
<1>. DEFINE menus == {n \in DOMAIN stack : stack[n].at = "menu"}
<1>1. Cardinality(menus) <= 1
    <2>1. CASE menus = {}
        BY <2>1, FS_EmptySet
    <2>2. CASE \E n : menus = {n}
        <3>1. PICK n : menus = {n}
            BY <2>2
        <3>2. Cardinality({n}) = 1
            BY FS_Singleton
        <3>. QED
            BY <3>1, <3>2
    <2>3. \A j, k \in menus : j = k
        BY DEF IInv, Frames
    <2>. HIDE DEF menus
    <2>4. menus = {} \/ \E n : menus = {n}
        BY <2>3
    <2>. QED
        BY <2>1, <2>2, <2>4
<1>2. \A n \in DOMAIN stack : stack[n].at = "menu" => stack[n].pool \notin freed
    BY DEF IInv, Frames, Live
<1>3. \A n \in DOMAIN queue : queue[n].m \in {"command", "free"} => queue[n].pool \notin freed
    BY DEF IInv, Sound, Live, Reaches
<1>4. \A j, k \in DOMAIN queue :
          queue[j].m = "free" /\ queue[k].m \in {"command", "free"}
             /\ queue[j].pool = queue[k].pool => k <= j
    BY DEF IInv, Sound, InOrder, Reaches
<1>. QED
    BY <1>1, <1>2, <1>3, <1>4, InvTypes DEF IInv, ItemsAlive

-----------------------------------------------------------------------------
(* Functions.  Whether or not the caller makes every menu unsure, running  *)
(* one keeps the invariant: the menus left sure keep their context.        *)
BACKS == Windows \cup {None, Root, "no"}
Kept == freed' = freed /\ alive' = alive /\ aborted' = aborted /\ events' \in 0..MaxEvents

\* Which menus stay sure, and of what.
StillSure(f, context, q) ==
    \/ unsure' = unsure \cup Live
    \/ /\ unsure' = unsure /\ context = active_workspace_context_window /\ ~f.rule
       /\ Meant(q, stack, Live \ unsure, asked, context)

\* The function returns to the loop it was called from, or waits in a frame that is no menu.
LEMMA NoNewMenu ==
    ASSUME Typed, Frames(stack, Live, DOMAIN pools), wrong' = FALSE, aborted = FALSE, Kept,
           NEW f, NEW context, Sound(queue', stack, Live),
           unsure' \in {unsure, unsure \cup Live},
           StillSure(f, context, queue'),
           ~f.rule => active_workspace_context_window' = context,
           UNCHANGED <<pools, asked>>,
           stack' \in Seq(FRAME), \A n \in DOMAIN stack' : stack'[n].pool \in {0} \cup DOMAIN pools,
           \A n \in DOMAIN stack' :
              stack'[n].at = "menu" => n \in DOMAIN stack /\ stack'[n] = stack[n],
           active_workspace_context_window' \in Windows \cup {None},
           foreground' \in Windows \cup {None, Root}
    PROVE  IInv'
PROOF
<1>1. Live' = Live
    BY DEF Live, Kept
<1>2. Typed'
    BY DEF Typed, Kept, Live
<1>3. /\ Frames(stack', Live, DOMAIN pools) /\ Sound(queue', stack', Live)
      /\ \A p : Shown(stack', p) => Shown(stack, p)
    BY SameMenus
<1>4. Meant(queue', stack', Live \ unsure', asked, active_workspace_context_window')
    <2>1. CASE unsure' = unsure \cup Live
        BY <2>1 DEF Meant
    <2>2. CASE /\ unsure' = unsure /\ ~f.rule
               /\ Meant(queue', stack, Live \ unsure, asked, context)
        BY <2>2, <1>3 DEF Meant
    <2>. QED
        BY <2>1, <2>2 DEF StillSure
<1>. QED
    BY <1>1, <1>2, <1>3, <1>4 DEF IInv, Kept

\* popup_context_menu.
LEMMA NewMenu ==
    ASSUME Typed, Frames(stack, Live, DOMAIN pools), wrong' = FALSE, aborted = FALSE, Kept,
           NEW q, Sound(q, stack, Live), NEW f \in [pool : Nat, back : BACKS, rule : BOOLEAN],
           f.pool \in {0} \cup DOMAIN pools, ~f.rule,
           NEW name \in DOMAIN Defs, NEW context \in Windows \cup {None},
           NEW fg \in Windows \cup {None, Root},
           unsure' \in {unsure, unsure \cup Live}, StillSure(f, context, q),
           Popup(name, f, fg, context, q)
    PROVE  IInv'
PROOF
<1>. DEFINE p == Len(pools) + 1
            new == [name |-> name, filled |-> {}]
<1>1. /\ Len(pools) \in Nat /\ DOMAIN pools = 1..Len(pools) /\ DOMAIN asked = DOMAIN pools
      /\ Len(asked) = Len(pools)
    BY PoolFacts DEF Typed
<1>2. /\ pools' = Append(pools, new) /\ asked' = Append(asked, context)
      /\ IF MenuOpen
         THEN Return(f, fg, context, stack) /\ queue' = q \o FreeLater(p)
         ELSE Wait("menu", [f EXCEPT !.pool = p], fg, context) /\ queue' = q
    BY DEF Popup, TrackFails
<1>3. new \in POOL
    BY DEF POOL
<1>4. /\ pools' \in Seq(POOL) /\ DOMAIN pools' = DOMAIN pools \cup {p}
      /\ \A i \in DOMAIN pools : pools'[i] = pools[i]
      /\ pools'[p] = new
    BY <1>1, <1>2, <1>3, AppendFacts DEF Typed
<1>5. /\ asked' \in Seq(Windows \cup {None}) /\ Len(asked') = Len(pools) + 1
      /\ \A i \in DOMAIN pools : asked'[i] = asked[i]
      /\ asked'[p] = context
    BY <1>1, <1>2, AppendFacts DEF Typed
<1>6. Len(pools') = Len(pools) + 1
    BY <1>1, <1>2, <1>3, AppendProperties DEF Typed
<1>7. /\ active_workspace_context_window' = context
      /\ foreground' \in Windows \cup {None, Root}
    <2>1. ASSUME Return(f, fg, context, stack)
          PROVE  active_workspace_context_window' = context
                 /\ foreground' \in Windows \cup {None, Root}
        BY <2>1 DEF Return, KeepContext, Typed
    <2>. QED
        BY <2>1, <1>2 DEF Wait
<1>8. p \in Nat \ {0} /\ p \notin DOMAIN pools /\ p \notin Live /\ Live \subseteq DOMAIN pools
    BY <1>1 DEF Live
<1>9. Live' = Live \cup {p} /\ DOMAIN pools' = DOMAIN pools \cup {p}
    BY <1>1, <1>4 DEF Live, Kept, Typed
<1>10. Typed'
    <2>1. \A i \in DOMAIN pools' : pools'[i].filled \subseteq Realized[pools'[i].name]
        BY <1>3, <1>4 DEF Typed
    <2>. QED
        BY <2>1, <1>4, <1>5, <1>6, <1>7 DEF Typed, Kept, Live
<1>. HIDE DEF p, new
<1>11. CASE MenuOpen
    <2>1. stack' = stack /\ queue' = q \o FreeLater(p)
        BY <1>2, <1>11 DEF Return
    <2>2. /\ Frames(stack, Live \cup {p}, DOMAIN pools \cup {p})
          /\ Sound(queue', stack, Live \cup {p})
          /\ \A o : HasCommand(queue', o) => HasCommand(q, o)
        BY <2>1, <1>8, MenuRefused
    <2>3. ~Shown(stack, p) /\ ~HasCommand(q, p)
        BY <1>8 DEF Frames, Sound, Shown, HasCommand, Reaches
    <2>4. Meant(queue', stack', Live' \ unsure', asked', active_workspace_context_window')
        <3>1. CASE unsure' = unsure \cup Live
            BY <3>1, <2>1, <2>2, <2>3, <1>9 DEF Meant
        <3>2. CASE /\ unsure' = unsure
                   /\ Meant(q, stack, Live \ unsure, asked, context)
            BY <3>2, <2>1, <2>2, <2>3, <1>5, <1>7, <1>8, <1>9 DEF Meant
        <3>. QED
            BY <3>1, <3>2 DEF StillSure
    <2>. QED
        BY <2>1, <2>2, <2>4, <1>9, <1>10 DEF IInv, Kept
<1>12. CASE ~MenuOpen
    <2>. DEFINE fr == [at |-> "menu", pool |-> p, back |-> f.back, rule |-> f.rule]
    <2>1. stack' = Append(stack, fr) /\ queue' = q
        BY <1>2, <1>12 DEF Wait
    <2>2. fr \in FRAME /\ fr.at = "menu" /\ fr.pool = p /\ fr.rule = FALSE
        BY <1>8 DEF FRAME, BACKS
    <2>. HIDE DEF fr
    <2>3. /\ Frames(stack', Live \cup {p}, DOMAIN pools \cup {p})
          /\ Sound(queue', stack', Live \cup {p})
          /\ \A o : Shown(stack', o) => o = p
        <3>1. NoMenu(stack)
            BY <1>12 DEF MenuOpen, NoMenu
        <3>2. Frames(Append(stack, fr), Live \cup {p}, DOMAIN pools \cup {p})
            BY <3>1, <2>2, <1>8, MenuShown
        <3>3. \A n \in DOMAIN Append(stack, fr) :
                  Append(stack, fr)[n].at = "menu" => Append(stack, fr)[n].pool = p
            BY <3>1, <2>2, AppendFacts DEF NoMenu, Frames
        <3>4. Sound(q, Append(stack, fr), Live \cup {p})
            BY <3>3, <1>8 DEF Sound
        <3>5. \A o : Shown(Append(stack, fr), o) => o = p
            BY <3>3 DEF Shown
        <3>. QED
            BY <3>2, <3>4, <3>5, <2>1
    <2>4. ~HasCommand(q, p)
        BY <1>8 DEF Sound, HasCommand, Reaches
    <2>5. Meant(queue', stack', Live' \ unsure', asked', active_workspace_context_window')
        <3>1. CASE unsure' = unsure \cup Live
            BY <3>1, <2>1, <2>3, <2>4, <1>5, <1>7, <1>9 DEF Meant
        <3>2. CASE /\ unsure' = unsure
                   /\ Meant(q, stack, Live \ unsure, asked, context)
            BY <3>2, <2>1, <2>3, <2>4, <1>5, <1>7, <1>8, <1>9 DEF Meant
        <3>. QED
            BY <3>1, <3>2 DEF StillSure
    <2>. QED
        BY <2>3, <2>5, <1>9, <1>10 DEF IInv, Kept
<1>. QED
    BY <1>11, <1>12

\* What Wait leaves, in a frame that is no menu.
LEMMA WaitFacts ==
    ASSUME Typed, Frames(stack, Live, DOMAIN pools),
           NEW f \in [pool : Nat, back : BACKS, rule : BOOLEAN],
           f.pool \in {0} \cup DOMAIN pools,
           NEW at \in {"box", "exec", "switch"}, NEW fg, NEW context, Wait(at, f, fg, context)
    PROVE  /\ stack' \in Seq(FRAME)
           /\ \A n \in DOMAIN stack' : stack'[n].pool \in {0} \cup DOMAIN pools
           /\ \A n \in DOMAIN stack' :
                 stack'[n].at = "menu" => n \in DOMAIN stack /\ stack'[n] = stack[n]
           /\ foreground' = fg /\ active_workspace_context_window' = context
PROOF
<1>. DEFINE fr == [at |-> at, pool |-> f.pool, back |-> f.back, rule |-> f.rule]
<1>1. fr \in FRAME /\ fr.at # "menu" /\ fr.pool = f.pool
    BY DEF FRAME, BACKS
<1>2. stack' = Append(stack, fr)
    BY DEF Wait
<1>. HIDE DEF fr
<1>3. /\ stack' \in Seq(FRAME) /\ DOMAIN stack' = DOMAIN stack \cup {Len(stack) + 1}
      /\ \A n \in DOMAIN stack : stack'[n] = stack[n]
      /\ stack'[Len(stack) + 1] = fr
    BY <1>1, <1>2, AppendFacts DEF Frames
<1>. QED
    BY <1>1, <1>3 DEF Frames, Wait

\* And Return, to a stack with fewer frames or none less.
LEMMA ReturnFacts ==
    ASSUME NEW f, NEW fg \in Windows \cup {None, Root}, NEW context \in Windows \cup {None},
           NEW rest, alive \subseteq Windows, Return(f, fg, context, rest)
    PROVE  /\ stack' = rest
           /\ foreground' \in Windows \cup {None, Root}
           /\ active_workspace_context_window' \in Windows \cup {None}
           /\ ~f.rule => active_workspace_context_window' = context
PROOF
<1>1. foreground' \in Windows \cup {None, Root}
    BY DEF Return
<1>2. /\ active_workspace_context_window' \in Windows \cup {None}
      /\ ~f.rule => active_workspace_context_window' = context
    BY DEF Return, KeepContext
<1>. QED
    BY <1>1, <1>2 DEF Return

LEMMA RunKeeps ==
    ASSUME Typed, Frames(stack, Live, DOMAIN pools), wrong = FALSE, aborted = FALSE, Kept,
           NEW q, Sound(q, stack, Live), NEW f \in [pool : Nat, back : BACKS, rule : BOOLEAN],
           f.pool \in {0} \cup DOMAIN pools,
           NEW kind, NEW arg, NEW fg \in Windows \cup {None, Root},
           NEW context \in Windows \cup {None},
           kind = "show" => ~f.rule,
           f.pool \notin unsure \cup {0} => context = asked[f.pool],
           unsure' \in {unsure, unsure \cup Live}, StillSure(f, context, q),
           Run(kind, arg, f, fg, context, q)
    PROVE  IInv'
PROOF
<1>1. wrong' = FALSE
    BY DEF Run
<1>2. stack \in Seq(FRAME) /\ \A n \in DOMAIN stack : stack[n].pool \in {0} \cup DOMAIN pools
    BY DEF Frames
<1>3. ASSUME Return(f, fg, context, stack), queue' = q, UNCHANGED <<pools, asked>>
      PROVE  IInv'
    <2>1. /\ stack' = stack
          /\ foreground' \in Windows \cup {None, Root}
          /\ active_workspace_context_window' \in Windows \cup {None}
          /\ ~f.rule => active_workspace_context_window' = context
        BY <1>3, ReturnFacts DEF Typed
    <2>2. Sound(queue', stack, Live) /\ StillSure(f, context, queue')
        BY <1>3
    <2>. QED
        BY <2>1, <2>2, <1>1, <1>2, <1>3, NoNewMenu
<1>4. ASSUME NEW at \in {"box", "exec", "switch"}, Wait(at, f, fg, context),
             queue' = q, UNCHANGED <<pools, asked>>
      PROVE  IInv'
    <2>1. /\ stack' \in Seq(FRAME)
          /\ \A n \in DOMAIN stack' : stack'[n].pool \in {0} \cup DOMAIN pools
          /\ \A n \in DOMAIN stack' :
                stack'[n].at = "menu" => n \in DOMAIN stack /\ stack'[n] = stack[n]
          /\ foreground' = fg /\ active_workspace_context_window' = context
        BY <1>4, WaitFacts
    <2>2. Sound(queue', stack, Live) /\ StillSure(f, context, queue')
        BY <1>4
    <2>. QED
        BY <2>1, <2>2, <1>1, <1>4, NoNewMenu
<1>5. CASE kind = "place"
    BY <1>5, <1>3, <1>4 DEF Run
<1>6. CASE kind \in {"ask", "exec"}
    BY <1>6, <1>4 DEF Run
<1>7. CASE kind = "show"
    <2>1. Popup(arg, f, fg, context, q)
        BY <1>7 DEF Run
    <2>2. CASE arg \in DOMAIN Defs
        BY <2>1, <2>2, <1>1, <1>7, NewMenu
    <2>3. CASE arg \notin DOMAIN Defs
        BY <2>1, <2>3, <1>3 DEF Popup
    <2>. QED
        BY <2>2, <2>3
<1>. QED
    BY <1>5, <1>6, <1>7 DEF Run

-----------------------------------------------------------------------------
(* The messages.                                                           *)

\* What each handler starts from.
LEMMA HeadFacts ==
    ASSUME IInv, queue # <<>>
    PROVE  /\ Sound(Tail(queue), stack, Live)
           /\ Meant(Tail(queue), stack, Live \ unsure, asked, active_workspace_context_window)
           /\ Head(queue) \in MESSAGE
           /\ Reaches(Head(queue)) => /\ Head(queue).pool \in Live
                                     /\ ~Shown(stack, Head(queue).pool)
           /\ /\ Head(queue).m = "command"
              /\ Head(queue).pool \notin unsure
              => asked[Head(queue).pool] = active_workspace_context_window
           /\ Head(queue).m = "free" =>
                 \A i \in DOMAIN Tail(queue) :
                    Reaches(Tail(queue)[i]) => Tail(queue)[i].pool # Head(queue).pool
PROOF
<1>1. /\ Sound(Tail(queue), stack, Live)
      /\ \A o : HasCommand(Tail(queue), o) => HasCommand(queue, o)
      /\ Head(queue) \in MESSAGE
      /\ Reaches(Head(queue)) => Head(queue).pool \in Live /\ ~Shown(stack, Head(queue).pool)
      /\ Head(queue).m = "command" => HasCommand(queue, Head(queue).pool)
      /\ Head(queue).m = "free" =>
            \A i \in DOMAIN Tail(queue) :
               Reaches(Tail(queue)[i]) => Tail(queue)[i].pool # Head(queue).pool
    BY Popped DEF IInv
<1>2. Meant(Tail(queue), stack, Live \ unsure, asked, active_workspace_context_window)
    BY <1>1 DEF IInv, Meant
<1>3. /\ Head(queue).m = "command"
      /\ Head(queue).pool \notin unsure
      => asked[Head(queue).pool] = active_workspace_context_window
    BY <1>1 DEF IInv, Meant, Reaches
<1>. QED
    BY <1>1, <1>2, <1>3

LEMMA DispatchKeeps == IInv /\ Dispatch => IInv'
PROOF
<1>. SUFFICES ASSUME IInv, Dispatch PROVE IInv'
    OBVIOUS
<1>. DEFINE m == Head(queue)
            q == Tail(queue)
<1>1. /\ Sound(q, stack, Live)
      /\ Meant(q, stack, Live \ unsure, asked, active_workspace_context_window)
      /\ m \in MESSAGE
      /\ Reaches(m) => m.pool \in Live /\ ~Shown(stack, m.pool)
      /\ m.m = "command" /\ m.pool \notin unsure
           => asked[m.pool] = active_workspace_context_window
      /\ m.m = "free" => \A i \in DOMAIN q : Reaches(q[i]) => q[i].pool # m.pool
    BY HeadFacts DEF Dispatch
<1>2. \/ m.m = "hotkey" /\ HandleHotkey(m.key, q) /\ UNCHANGED freed
      \/ m.m = "context" /\ ContextMenu(m, q) /\ UNCHANGED freed
      \/ m.m = "command" /\ MenuCommand(m, q) /\ UNCHANGED freed
      \/ m.m = "created" /\ WindowCreated(m, q) /\ UNCHANGED freed
      \/ m.m = "free" /\ FreeMenu(m, q)
    BY DEF Dispatch
<1>3. UNCHANGED <<alive, aborted, events>>
    BY DEF Dispatch
<1>4. Typed /\ Frames(stack, Live, DOMAIN pools) /\ wrong = FALSE /\ aborted = FALSE
    BY DEF IInv
<1>5. UNCHANGED freed => Kept
    BY <1>3, <1>4 DEF Kept, Typed
<1>. HIDE DEF m, q
<1>6. ASSUME m.m = "hotkey", HandleHotkey(m.key, q), UNCHANGED freed
      PROVE  IInv'
    <2>. DEFINE h == resolve_hotkey(m.key)
                context == IF foreground \in Windows THEN foreground ELSE None
                f == Frame(0, foreground, FALSE)
    <2>1. Run(h.kind, h.arg, f, Root, context, q) /\ unsure' = unsure \cup Live
        BY <1>6 DEF HandleHotkey
    <2>2. f \in [pool : Nat, back : BACKS, rule : BOOLEAN] /\ f.pool = 0 /\ ~f.rule
        BY <1>4 DEF Frame, BACKS, Typed
    <2>3. context \in Windows \cup {None} /\ StillSure(f, context, q)
        BY <2>1 DEF StillSure
    <2>. HIDE DEF f, context
    <2>. QED
        BY <1>1, <1>4, <1>5, <1>6, <2>1, <2>2, <2>3, RunKeeps
<1>7. ASSUME m.m = "context", ContextMenu(m, q), UNCHANGED freed
      PROVE  IInv'
    <2>. DEFINE f == Frame(0, "no", FALSE)
                fg == IF m.slit THEN foreground ELSE Root
    <2>1. Run("show", "root", f, fg, active_workspace_context_window, q) /\ unsure' = unsure
        BY <1>7 DEF ContextMenu
    <2>2. f \in [pool : Nat, back : BACKS, rule : BOOLEAN] /\ f.pool = 0 /\ ~f.rule
        BY DEF Frame, BACKS
    <2>3. fg \in Windows \cup {None, Root} /\ StillSure(f, active_workspace_context_window, q)
        BY <2>1, <2>2, <1>1, <1>4 DEF StillSure, Typed
    <2>4. active_workspace_context_window \in Windows \cup {None}
        BY <1>4 DEF Typed
    <2>. HIDE DEF f, fg
    <2>. QED
        BY <1>1, <1>4, <1>5, <1>7, <2>1, <2>2, <2>3, <2>4, RunKeeps
<1>8. ASSUME m.m = "command", MenuCommand(m, q), UNCHANGED freed
      PROVE  IInv'
    <2>. DEFINE f == Frame(m.pool, "no", FALSE)
    <2>1. /\ Run(m.kind, m.arg, f, foreground, active_workspace_context_window, q)
          /\ unsure' = unsure
        BY <1>8 DEF MenuCommand
    <2>2. m.pool \in DOMAIN pools /\ m.pool \in Nat
        BY <1>1, <1>4, <1>8, PoolFacts DEF Reaches, Live
    <2>3. f \in [pool : Nat, back : BACKS, rule : BOOLEAN] /\ f.pool = m.pool /\ ~f.rule
        BY <2>2 DEF Frame, BACKS
    <2>4. StillSure(f, active_workspace_context_window, q)
        BY <2>1, <2>3, <1>1 DEF StillSure
    <2>5. /\ active_workspace_context_window \in Windows \cup {None}
          /\ foreground \in Windows \cup {None, Root}
        BY <1>4 DEF Typed
    <2>6. f.pool \notin unsure \cup {0} => active_workspace_context_window = asked[f.pool]
        BY <2>3, <1>1, <1>8
    <2>7. f.pool \in {0} \cup DOMAIN pools
        BY <2>2, <2>3
    <2>. HIDE DEF f
    <2>. QED
        BY <1>1, <1>4, <1>5, <1>8, <2>1, <2>3, <2>4, <2>5, <2>6, <2>7, RunKeeps
<1>9. ASSUME m.m = "created", WindowCreated(m, q), UNCHANGED freed
      PROVE  IInv'
    <2>1. CASE m.w \in Matching
        <3>. DEFINE f == Frame(0, "no", TRUE)
        <3>1. Run("place", "none", f, foreground, m.w, q) /\ unsure' = unsure \cup Live
            BY <1>9, <2>1 DEF WindowCreated
        <3>2. f \in [pool : Nat, back : BACKS, rule : BOOLEAN] /\ f.pool = 0
            BY DEF Frame, BACKS
        <3>3. m.w \in Windows \cup {None} /\ foreground \in Windows \cup {None, Root}
            BY <2>1, <1>4, MenusAssumption DEF Typed
        <3>4. StillSure(f, m.w, q)
            BY <3>1 DEF StillSure
        <3>. HIDE DEF f
        <3>. QED
            BY <1>1, <1>4, <1>5, <1>9, <3>1, <3>2, <3>3, <3>4, RunKeeps
    <2>2. CASE m.w \notin Matching
        <3>1. /\ queue' = q
              /\ UNCHANGED <<stack, foreground, active_workspace_context_window, pools, asked,
                             wrong, unsure, freed>>
            BY <1>9, <2>2 DEF WindowCreated
        <3>. QED
            BY <3>1, <1>1, <1>3, <1>4 DEF IInv, Typed, Live
    <2>. QED
        BY <2>1, <2>2
<1>10. ASSUME m.m = "free", FreeMenu(m, q)
      PROVE  IInv'
    <2>. DEFINE p == m.pool
    <2>1. /\ freed' = freed \cup {p} /\ pools' = [pools EXCEPT ![p].filled = {}]
          /\ asked' = [asked EXCEPT ![p] = None] /\ unsure' = unsure \ {p} /\ queue' = q
          /\ UNCHANGED <<stack, foreground, active_workspace_context_window, wrong>>
        BY <1>10 DEF FreeMenu
    <2>2. p \in Live /\ p \in DOMAIN pools /\ ~Shown(stack, p)
        BY <1>1, <1>10 DEF Reaches, Live
    <2>. HIDE DEF p
    <2>3. /\ DOMAIN pools = 1..Len(pools) /\ DOMAIN asked = DOMAIN pools
          /\ pools[p] \in POOL /\ Len(asked) = Len(pools)
        BY <1>4, <2>2, PoolFacts DEF Typed
    <2>. DEFINE new == [pools[p] EXCEPT !.filled = {}]
    <2>4. new \in POOL /\ new.filled = {}
        BY <2>3 DEF POOL
    <2>. HIDE DEF new
    <2>5. /\ pools' \in Seq(POOL) /\ Len(pools') = Len(pools)
          /\ \A i \in 1..Len(pools) : pools'[i] = IF i = p THEN new ELSE pools[i]
        <3>1. pools' = [pools EXCEPT ![p] = new]
            BY <2>1 DEF new
        <3>2. pools \in Seq(POOL) /\ p \in 1..Len(pools)
            BY <1>4, <2>2, <2>3 DEF Typed
        <3>. QED
            BY <3>1, <3>2, <2>4, ExceptSeq
    <2>6. /\ asked' \in Seq(Windows \cup {None}) /\ Len(asked') = Len(asked)
          /\ \A i \in DOMAIN pools : i # p => asked'[i] = asked[i]
        <3>1. asked \in Seq(Windows \cup {None}) /\ p \in 1..Len(asked)
            BY <1>4, <2>2, <2>3 DEF Typed
        <3>. QED
            BY <3>1, <2>1, <2>3, ExceptSeq
    <2>7. DOMAIN pools' = DOMAIN pools /\ Live' = Live \ {p}
        <3>1. DOMAIN pools' = 1..Len(pools)
            BY <2>5, LenProperties
        <3>. QED
            BY <3>1, <2>1, <2>3 DEF Live
    <2>8. Typed'
        <3>1. \A i \in DOMAIN pools' : pools'[i].filled \subseteq Realized[pools'[i].name]
            BY <2>3, <2>4, <2>5, <2>7, <1>4 DEF Typed
        <3>. QED
            BY <3>1, <2>1, <2>2, <2>3, <2>5, <2>6, <2>7, <1>3, <1>4 DEF Typed
    <2>9. Frames(stack, Live', DOMAIN pools')
        BY <2>2, <2>7, <1>4 DEF Frames, Shown
    <2>10. Sound(q, stack, Live')
        <3>1. \A i \in DOMAIN q : Reaches(q[i]) => q[i].pool # p
            BY <1>1, <1>10 DEF p
        <3>. QED
            BY <3>1, <2>7, <1>1 DEF Sound
    <2>11. Meant(q, stack, Live' \ unsure', asked', active_workspace_context_window)
        BY <2>1, <2>6, <2>7, <1>1 DEF Meant, Live
    <2>. QED
        BY <2>1, <2>8, <2>9, <2>10, <2>11, <1>3, <1>4 DEF IInv
<1>. QED
    BY <1>2, <1>6, <1>7, <1>8, <1>9, <1>10

-----------------------------------------------------------------------------
(* The other steps.                                                        *)

LEMMA Tuples ==
    /\ \A a, b, c, d, e : <<a, b>> # <<c, d, e>>
    /\ \A a, b, c, d, e, f : <<a, b, c>> = <<d, e, f>> => b = e
    /\ \A a, b, c, d : <<a, b>> = <<c, d>> => a = c
PROOF
<1>1. ASSUME NEW a, NEW b, NEW c, NEW d, NEW e PROVE <<a, b>> # <<c, d, e>>
    <2>1. Len(<<a, b>>) = 2 /\ Len(<<c, d, e>>) = 3
        OBVIOUS
    <2>. QED
        BY <2>1
<1>2. ASSUME NEW a, NEW b, NEW c, NEW d, NEW e, NEW f, <<a, b, c>> = <<d, e, f>> PROVE b = e
    <2>1. <<a, b, c>>[2] = b /\ <<d, e, f>>[2] = e
        OBVIOUS
    <2>. QED
        BY <1>2, <2>1
<1>3. ASSUME NEW a, NEW b, NEW c, NEW d, <<a, b>> = <<c, d>> PROVE a = c
    <2>1. <<a, b>>[1] = a /\ <<c, d>>[1] = c
        OBVIOUS
    <2>. QED
        BY <1>3, <2>1
<1>. QED
    BY <1>1, <1>2, <1>3, Zenon

\* The forms that what WM_MENUSELECT registers can have.
LEMMA FilledForms ==
    ASSUME NEW item, NEW path, NEW x \in FilledBy(item, path)
    PROVE  \/ \E how, what : x = <<how, path, what>>
           \/ IsPluginMenu(item) /\ x = <<"free argument", "NULL">>
PROOF
<1>1. CASE item.kind = "dir"
    <2>1. x \in DirItems(path)
        BY <1>1 DEF FilledBy
    <2>2. \E how \in {"delete item", "free path", "free args"}, f \in Files :
              x = <<how, path, f>>
        BY <2>1 DEF DirItems
    <2>. QED
        BY <2>2
<1>2. CASE item.kind # "dir"
    <2>1. IsPluginMenu(item) /\ x \in PluginItems(item.arg, path)
        BY <1>2 DEF FilledBy
    <2>2. CASE \E arg : x = <<"delete item", path, arg>>
        BY <2>2
    <2>3. CASE \E arg : x = <<"free argument", path, arg>>
        BY <2>3
    <2>. QED
        BY <2>1, <2>2, <2>3 DEF PluginItems
<1>. QED
    BY <1>1, <1>2

LEMMA FreshDestructors ==
    ASSUME NEW name \in DOMAIN Defs, NEW filled \in SUBSET Realized[name],
           NEW path \in Realized[name], path \notin filled
    PROVE  /\ Clones(name) \cap FilledBy(Item[name][path], path) = {}
           /\ \A other \in filled :
                FilledBy(Item[name][other], other) \cap FilledBy(Item[name][path], path) = {}
PROOF
<1>1. ASSUME NEW x \in Clones(name), NEW y \in FilledBy(Item[name][path], path)
      PROVE  x # y
    <2>1. PICK gone \in {"delete item", "delete menu"} : \E what : x = <<gone, what>>
        BY DEF Clones
    <2>2. \/ \E how, what : y = <<how, path, what>>
          \/ y = <<"free argument", "NULL">>
        BY FilledForms
    <2>3. PICK it : x = <<gone, it>>
        BY <2>1
    <2>4. CASE y = <<"free argument", "NULL">>
        BY <2>1, <2>3, <2>4, Tuples
    <2>5. ASSUME NEW a, NEW c, y = <<a, path, c>> PROVE x # y
        BY <2>3, <2>5, Tuples, Zenon
    <2>. QED
        BY <2>2, <2>4, <2>5
<1>2. ASSUME NEW other \in filled, NEW x \in FilledBy(Item[name][other], other),
             NEW y \in FilledBy(Item[name][path], path)
      PROVE  x # y
    <2>1. other # path /\ other \in Realized[name]
        OBVIOUS
    <2>2. \/ \E how, what : x = <<how, other, what>>
          \/ IsPluginMenu(Item[name][other]) /\ x = <<"free argument", "NULL">>
        BY FilledForms
    <2>3. \/ \E how, what : y = <<how, path, what>>
          \/ IsPluginMenu(Item[name][path]) /\ y = <<"free argument", "NULL">>
        BY FilledForms
    <2>4. ~(IsPluginMenu(Item[name][other]) /\ IsPluginMenu(Item[name][path]))
        BY <2>1, OnePluginMenu
    <2>5. ASSUME NEW a, NEW b, NEW c, NEW d, x = <<a, other, b>>, y = <<c, path, d>> PROVE x # y
        BY <2>1, <2>5, Tuples, Zenon
    <2>6. ASSUME NEW a, NEW b, x = <<a, other, b>>, y = <<"free argument", "NULL">> PROVE x # y
        BY <2>6, Tuples, Zenon
    <2>7. ASSUME NEW a, NEW b, x = <<"free argument", "NULL">>, y = <<a, path, b>> PROVE x # y
        BY <2>7, Tuples, Zenon
    <2>. QED
        BY <2>2, <2>3, <2>4, <2>5, <2>6, <2>7
<1>. QED
    BY <1>1, <1>2

LEMMA SelectKeeps == IInv /\ Select => IInv'
PROOF
<1>. SUFFICES ASSUME IInv, Select PROVE IInv'
    OBVIOUS
<1>. DEFINE p == Last(stack).pool
            name == pools[p].name
<1>1. /\ Typed /\ Frames(stack, Live, DOMAIN pools) /\ Sound(queue, stack, Live)
      /\ wrong = FALSE /\ aborted = FALSE
      /\ Meant(queue, stack, Live \ unsure, asked, active_workspace_context_window)
    BY DEF IInv
<1>2. PICK path \in Realized[name] :
        /\ path \notin pools[p].filled
        /\ pools' = [pools EXCEPT ![p].filled = @ \cup {path}]
        /\ aborted' = (aborted \/ ToKill(pools[p]) \cap FilledBy(Item[name][path], path) # {})
    BY DEF Select, Empty
<1>3. p \in DOMAIN pools
    <2>1. stack # <<>> /\ Last(stack).at = "menu"
        BY DEF Select
    <2>2. Len(stack) \in DOMAIN stack /\ Last(stack) = stack[Len(stack)]
        BY <2>1, <1>1, FrontFacts DEF Frames
    <2>. QED
        BY <2>1, <2>2, <1>1 DEF Frames, Live
<1>4. UNCHANGED <<freed, stack, queue, active_workspace_context_window, foreground,
                  alive, asked, unsure, wrong, events>>
    BY DEF Select
<1>. HIDE DEF p
<1>5. /\ pools[p] \in POOL /\ name \in DOMAIN Defs /\ pools[p].filled \subseteq Realized[name]
      /\ DOMAIN pools = 1..Len(pools)
    BY <1>1, <1>3, PoolFacts DEF Typed, POOL
<1>6. aborted' = FALSE
    <2>. HIDE DEF name
    <2>1. /\ Clones(name) \cap FilledBy(Item[name][path], path) = {}
          /\ \A other \in pools[p].filled :
               FilledBy(Item[name][other], other) \cap FilledBy(Item[name][path], path) = {}
        BY <1>2, <1>5, FreshDestructors
    <2>2. ToKill(pools[p]) = Clones(name) \cup
              UNION {FilledBy(Item[name][other], other) : other \in pools[p].filled}
        BY DEF ToKill, name
    <2>. QED
        BY <2>1, <2>2, <1>1, <1>2
<1>. DEFINE new == [pools[p] EXCEPT !.filled = @ \cup {path}]
<1>7. new \in POOL /\ new.filled \subseteq Realized[name] /\ new.name = name
    <2>1. path \in Paths
        BY <1>2, <1>5 DEF Realized
    <2>. QED
        BY <2>1, <1>2, <1>5 DEF POOL
<1>8. pools' = [pools EXCEPT ![p] = new]
    BY <1>2
<1>. HIDE DEF new
<1>9. /\ pools' \in Seq(POOL) /\ Len(pools') = Len(pools)
      /\ \A i \in 1..Len(pools) : pools'[i] = IF i = p THEN new ELSE pools[i]
    BY <1>1, <1>3, <1>5, <1>7, <1>8, ExceptSeq DEF Typed
<1>10. DOMAIN pools' = DOMAIN pools /\ Live' = Live
    <2>1. DOMAIN pools' = 1..Len(pools)
        BY <1>9, LenProperties
    <2>. QED
        BY <2>1, <1>4, <1>5 DEF Live
<1>11. \A i \in DOMAIN pools' : pools'[i].filled \subseteq Realized[pools'[i].name]
    BY <1>1, <1>5, <1>7, <1>9, <1>10 DEF Typed
<1>12. Typed'
    BY <1>1, <1>4, <1>9, <1>10, <1>11 DEF Typed
<1>. QED
    BY <1>1, <1>4, <1>6, <1>10, <1>12 DEF IInv

\* The command that MenuEnds may queue is of the menu, and the item's.
LEMMA CommandTyped ==
    ASSUME Typed, NEW p \in DOMAIN pools, NEW c \in Commands(p), c # <<>>
    PROVE  \E e : /\ c = <<e>> /\ e \in MESSAGE /\ e.m = "command" /\ e.pool = p
PROOF
<1>1. PICK i \in Pickable(pools[p]) :
          c = <<[m |-> "command", pool |-> p, kind |-> i.kind, arg |-> i.arg]>>
    BY DEF Commands
<1>2. pools[p].name \in DOMAIN Defs /\ p \in Nat
    BY PoolFacts DEF POOL
<1>3. i.kind \in Functions /\ i.arg \in Args
    <2>. DEFINE name == pools[p].name
    <2>1. CASE i \in {[kind |-> "exec", arg |-> "none"] : q \in pools[p].filled}
        <3>1. i = [kind |-> "exec", arg |-> "none"]
            BY <2>1
        <3>2. i.kind = "exec" /\ i.arg = "none"
            BY <3>1
        <3>3. "none" \in Args
            BY DEF Args
        <3>. QED
            BY <3>2, <3>3 DEF Functions
    <2>2. ASSUME NEW q \in Realized[name], Item[name][q].kind \in Functions, i = Item[name][q]
          PROVE  i.kind \in Functions /\ i.arg \in Args
        <3>. DEFINE n == MenuAt(name, Front(q))
        <3>1. n \in DOMAIN Defs /\ Last(q) \in DOMAIN Defs[n]
            BY <2>2, <1>2 DEF Realized
        <3>2. Item[name][q] = Defs[n][Last(q)]
            BY <2>2, <1>2 DEF Item
        <3>. HIDE DEF n
        <3>3. Defs[n][Last(q)].arg \in Args
            <4>. DEFINE args == {Defs[n][j].arg : j \in DOMAIN Defs[n]}
            <4>1. Defs[n][Last(q)].arg \in args
                BY <3>1
            <4>2. args \in {{Defs[d][j].arg : j \in DOMAIN Defs[d]} : d \in DOMAIN Defs}
                BY <3>1
            <4>. HIDE DEF args
            <4>. QED
                BY <4>1, <4>2 DEF Args, ItemArgs
        <3>. QED
            BY <2>2, <3>2, <3>3
    <2>. QED
        BY <2>1, <2>2 DEF Pickable
<1>4. [m |-> "command", pool |-> p, kind |-> i.kind, arg |-> i.arg] \in MESSAGE
    BY <1>2, <1>3 DEF MESSAGE
<1>. QED
    BY <1>1, <1>4

\* A command is queued that no menu on the stack and no message to free it is about.
LEMMA CommandQueued ==
    ASSUME NEW st, NEW q, NEW live, NEW e \in MESSAGE, Sound(q, st, live),
           e.m = "command", e.pool \in live,
           \A i \in DOMAIN q : Reaches(q[i]) => q[i].pool # e.pool,
           NoMenu(st)
    PROVE  Sound(Append(q, e), st, live)
PROOF
<1>. DEFINE q2 == Append(q, e)
<1>1. /\ q2 \in Seq(MESSAGE) /\ DOMAIN q2 = DOMAIN q \cup {Len(q) + 1}
      /\ DOMAIN q = 1..Len(q) /\ Len(q) \in Nat
      /\ \A i \in DOMAIN q : q2[i] = q[i]
      /\ q2[Len(q) + 1] = e
    BY AppendFacts DEF Sound
<1>. HIDE DEF q2
<1>2. InOrder(q2)
    <2>. SUFFICES ASSUME NEW j \in DOMAIN q2, NEW k \in DOMAIN q2, q2[j].m = "free",
                         Reaches(q2[k]), q2[j].pool = q2[k].pool
                  PROVE  k <= j
        BY DEF InOrder
    <2>1. j \in DOMAIN q /\ Reaches(q[j])
        BY <1>1 DEF Reaches
    <2>2. k \in DOMAIN q
        BY <2>1, <1>1
    <2>. QED
        BY <2>1, <2>2, <1>1 DEF Sound, InOrder
<1>3. Sound(q2, st, live)
    BY <1>1, <1>2 DEF Sound, NoMenu
<1>. QED
    BY <1>3 DEF q2

\* The message that frees a menu no longer on the stack is queued behind its command.
LEMMA FreeQueued ==
    ASSUME NEW st, NEW q, NEW live, NEW e \in MESSAGE, Sound(q, st, live),
           e.m = "free", e.pool \in live,
           \A i \in DOMAIN q : q[i].m = "free" => q[i].pool # e.pool,
           NoMenu(st)
    PROVE  Sound(Append(q, e), st, live)
PROOF
<1>. DEFINE q2 == Append(q, e)
<1>1. /\ q2 \in Seq(MESSAGE) /\ DOMAIN q2 = DOMAIN q \cup {Len(q) + 1}
      /\ DOMAIN q = 1..Len(q) /\ Len(q) \in Nat
      /\ \A i \in DOMAIN q : q2[i] = q[i]
      /\ q2[Len(q) + 1] = e
    BY AppendFacts DEF Sound
<1>. HIDE DEF q2
<1>2. InOrder(q2)
    <2>. SUFFICES ASSUME NEW j \in DOMAIN q2, NEW k \in DOMAIN q2, q2[j].m = "free",
                         Reaches(q2[k]), q2[j].pool = q2[k].pool
                  PROVE  k <= j
        BY DEF InOrder
    <2>1. CASE j \in DOMAIN q /\ k \in DOMAIN q
        BY <2>1, <1>1 DEF Sound, InOrder
    <2>2. CASE j = Len(q) + 1
        BY <2>2, <1>1
    <2>3. CASE j \in DOMAIN q /\ k = Len(q) + 1
        BY <2>3, <1>1
    <2>. QED
        BY <2>1, <2>2, <2>3, <1>1
<1>3. Sound(q2, st, live)
    BY <1>1, <1>2 DEF Sound, NoMenu
<1>. QED
    BY <1>3 DEF q2

LEMMA MenuEndsKeeps == IInv /\ MenuEnds => IInv'
PROOF
<1>. SUFFICES ASSUME IInv, MenuEnds PROVE IInv'
    OBVIOUS
<1>. DEFINE f == Last(stack)
            rest == Front(stack)
            p == f.pool
<1>1. /\ Typed /\ Frames(stack, Live, DOMAIN pools) /\ Sound(queue, stack, Live)
      /\ wrong = FALSE /\ aborted = FALSE
      /\ Meant(queue, stack, Live \ unsure, asked, active_workspace_context_window)
    BY DEF IInv
<1>2. /\ stack # <<>> /\ f.at = "menu"
      /\ Return(f, foreground, active_workspace_context_window, rest)
      /\ UNCHANGED <<pools, freed, alive, asked, unsure, wrong, aborted, events>>
    BY DEF MenuEnds
<1>3. PICK c \in Commands(p) : queue' = queue \o (c \o FreeLater(p))
    BY DEF MenuEnds, FreeLast
<1>4. /\ rest \in Seq(FRAME) /\ DOMAIN rest = 1..(Len(stack) - 1)
      /\ \A n \in DOMAIN rest : n \in DOMAIN stack /\ rest[n] = stack[n]
      /\ f = stack[Len(stack)] /\ Len(stack) \in DOMAIN stack
    BY <1>1, <1>2, FrontFacts DEF Frames
<1>5. p \in Live /\ p \in DOMAIN pools /\ ~f.rule /\ p \in Nat
    BY <1>1, <1>2, <1>4, PoolFacts DEF Frames, Live
<1>6. NoMenu(rest)
    <2>. SUFFICES ASSUME NEW n \in DOMAIN rest, rest[n].at = "menu" PROVE FALSE
        BY DEF NoMenu
    <2>1. n \in DOMAIN stack /\ stack[n].at = "menu" /\ stack[Len(stack)].at = "menu"
        BY <1>2, <1>4
    <2>2. n = Len(stack)
        BY <2>1, <1>1, <1>4 DEF Frames
    <2>3. Len(stack) \in Nat
        BY <1>1, LenProperties DEF Frames
    <2>. QED
        BY <2>2, <2>3, <1>4
<1>7. \A i \in DOMAIN queue : Reaches(queue[i]) => queue[i].pool # p
    BY <1>1, <1>2, <1>4 DEF Sound
<1>8. Shown(stack, p)
    BY <1>2, <1>4 DEF Shown
<1>9. /\ stack' = rest /\ foreground' \in Windows \cup {None, Root}
      /\ active_workspace_context_window' = active_workspace_context_window
    BY <1>1, <1>2, <1>5, ReturnFacts DEF Typed
<1>. DEFINE e2 == [m |-> "free", pool |-> p]
<1>10. e2 \in MESSAGE /\ e2.m = "free" /\ e2.pool = p /\ FreeLater(p) = <<e2>>
    BY <1>5 DEF MESSAGE, FreeLater
<1>. HIDE DEF f, rest, p, e2
<1>11. Frames(rest, Live, DOMAIN pools) /\ Sound(queue, rest, Live)
    BY <1>1, <1>4, <1>6 DEF Frames, Sound, NoMenu
<1>12. ASSUME NEW q, Sound(q, rest, Live),
              \A i \in DOMAIN q : q[i].m = "free" => q[i].pool # p,
              \A o : HasCommand(q, o) => HasCommand(queue, o) \/ o = p,
              queue' = Append(q, e2)
       PROVE  IInv'
    <2>1. Sound(queue', rest, Live)
        BY <1>5, <1>6, <1>10, <1>12, FreeQueued
    <2>2. \A o : HasCommand(queue', o) => HasCommand(queue, o) \/ o = p
        <3>1. /\ DOMAIN queue' = DOMAIN q \cup {Len(q) + 1}
              /\ \A i \in DOMAIN q : queue'[i] = q[i]
              /\ queue'[Len(q) + 1] = e2
            BY <1>10, <1>12, AppendFacts DEF Sound
        <3>2. \A o : HasCommand(queue', o) => HasCommand(q, o)
            BY <3>1, <1>10 DEF HasCommand
        <3>. QED
            BY <3>2, <1>12
    <2>3. Meant(queue', rest, Live \ unsure, asked, active_workspace_context_window)
        <3>1. \A o : ~Shown(rest, o)
            BY <1>6 DEF NoMenu, Shown
        <3>. QED
            BY <3>1, <2>2, <1>1, <1>8 DEF Meant
    <2>. QED
        BY <2>1, <2>3, <1>1, <1>2, <1>9, <1>11 DEF IInv, Typed, Live
<1>13. queue \in Seq(MESSAGE)
    BY <1>1 DEF Sound
<1>14. CASE c = <<>>
    <2>1. queue' = Append(queue, e2)
        BY <1>3, <1>10, <1>13, <1>14, AppendIsConcat, ConcatEmptySeq
    <2>2. \A i \in DOMAIN queue : queue[i].m = "free" => queue[i].pool # p
        BY <1>7 DEF Reaches
    <2>. QED
        BY <2>1, <2>2, <1>11, <1>12
<1>15. CASE c # <<>>
    <2>1. PICK e : c = <<e>> /\ e \in MESSAGE /\ e.m = "command" /\ e.pool = p
        BY <1>1, <1>3, <1>5, <1>15, CommandTyped
    <2>. DEFINE q == Append(queue, e)
    <2>2. /\ q \in Seq(MESSAGE) /\ DOMAIN q = DOMAIN queue \cup {Len(queue) + 1}
          /\ \A i \in DOMAIN queue : q[i] = queue[i]
          /\ q[Len(queue) + 1] = e
        BY <2>1, <1>13, AppendFacts
    <2>3. queue' = Append(q, e2)
        <3>1. queue \o (<<e>> \o <<e2>>) = (queue \o <<e>>) \o <<e2>>
            BY <2>1, <1>10, <1>13
        <3>2. queue \o <<e>> = q
            BY <2>1, <1>13, AppendIsConcat
        <3>3. q \o <<e2>> = Append(q, e2)
            BY <2>2, <1>10, AppendIsConcat
        <3>. QED
            BY <3>1, <3>2, <3>3, <2>1, <1>3, <1>10
    <2>4. Sound(q, rest, Live)
        BY <2>1, <1>5, <1>6, <1>7, <1>11, CommandQueued
    <2>. HIDE DEF q
    <2>5. \A i \in DOMAIN q : q[i].m = "free" => q[i].pool # p
        BY <2>1, <2>2, <1>7 DEF Reaches
    <2>6. \A o : HasCommand(q, o) => HasCommand(queue, o) \/ o = p
        BY <2>1, <2>2 DEF HasCommand
    <2>. QED
        BY <2>3, <2>4, <2>5, <2>6, <1>12
<1>. QED
    BY <1>14, <1>15

LEMMA FrameEndsKeeps == IInv /\ FrameEnds => IInv'
PROOF
<1>. SUFFICES ASSUME IInv, FrameEnds PROVE IInv'
    OBVIOUS
<1>. DEFINE f == Last(stack)
            context == active_workspace_context_window
<1>1. /\ Typed /\ Frames(stack, Live, DOMAIN pools) /\ Sound(queue, stack, Live)
      /\ wrong = FALSE /\ aborted = FALSE
      /\ Meant(queue, stack, Live \ unsure, asked, context)
    BY DEF IInv
<1>2. /\ Return(f, foreground, context, Front(stack)) /\ stack # <<>>
      /\ unsure' = IF f.rule THEN unsure \cup Live ELSE unsure
      /\ UNCHANGED <<pools, freed, queue, alive, asked, wrong, aborted, events>>
    BY DEF FrameEnds
<1>3. /\ Front(stack) \in Seq(FRAME)
      /\ \A n \in DOMAIN Front(stack) : n \in DOMAIN stack /\ Front(stack)[n] = stack[n]
    BY <1>1, <1>2, FrontFacts DEF Frames
<1>4. /\ stack' = Front(stack)
      /\ foreground' \in Windows \cup {None, Root}
      /\ active_workspace_context_window' \in Windows \cup {None}
      /\ ~f.rule => active_workspace_context_window' = context
    BY <1>1, <1>2, ReturnFacts DEF Typed
<1>5. StillSure(f, context, queue') /\ unsure' \in {unsure, unsure \cup Live}
    BY <1>1, <1>2 DEF StillSure
<1>6. Kept /\ wrong' = FALSE
    BY <1>1, <1>2 DEF Kept, Typed
<1>7. \A n \in DOMAIN stack' : stack'[n].pool \in {0} \cup DOMAIN pools
    BY <1>1, <1>3, <1>4 DEF Frames
<1>8. Sound(queue', stack, Live)
    BY <1>1, <1>2
<1>. HIDE DEF f, context
<1>. QED
    BY <1>1, <1>2, <1>3, <1>4, <1>5, <1>6, <1>7, <1>8, NoNewMenu

LEMMA OutsideKeeps == IInv /\ Outside => IInv'
PROOF
<1>. SUFFICES ASSUME IInv, Outside PROVE IInv'
    OBVIOUS
<1>1. events' \in 0..MaxEvents
    BY MenusAssumption DEF Outside, Happens, IInv, Typed
<1>2. ASSUME NEW e \in MESSAGE, ~Reaches(e), Post(e), UNCHANGED foreground,
             alive' \in SUBSET Windows
      PROVE  IInv'
    <2>1. /\ Sound(queue', stack, Live)
          /\ \A o : HasCommand(queue', o) => HasCommand(queue, o)
        BY <1>2, Posted DEF Post, IInv
    <2>2. Meant(queue', stack, Live \ unsure, asked, active_workspace_context_window)
        BY <2>1 DEF Meant, IInv
    <2>. QED
        BY <2>1, <2>2, <1>1, <1>2 DEF IInv, Post, Typed, Live
<1>3. ASSUME NEW k \in Hotkeys, Post([m |-> "hotkey", key |-> k]), UNCHANGED <<foreground, alive>>
      PROVE  IInv'
    <2>1. [m |-> "hotkey", key |-> k] \in MESSAGE /\ ~Reaches([m |-> "hotkey", key |-> k])
        BY DEF MESSAGE, Reaches
    <2>. QED
        BY <2>1, <1>2, <1>3 DEF IInv, Typed
<1>4. ASSUME NEW slit \in BOOLEAN, Post([m |-> "context", slit |-> slit]),
             UNCHANGED <<foreground, alive>>
      PROVE  IInv'
    <2>1. [m |-> "context", slit |-> slit] \in MESSAGE /\ ~Reaches([m |-> "context", slit |-> slit])
        BY DEF MESSAGE, Reaches
    <2>. QED
        BY <2>1, <1>2, <1>4 DEF IInv, Typed
<1>5. ASSUME NEW k \in Hotkeys, PressHotkey(k)
      PROVE  IInv'
    BY <1>3, <1>5 DEF PressHotkey
<1>6. CASE RightClick
    <2>1. RootKeys \subseteq Hotkeys
        BY DEF RootKeys
    <2>. QED
        BY <2>1, <1>3, <1>4, <1>6 DEF RightClick
<1>7. ASSUME NEW w \in Windows, Create(w)
      PROVE  IInv'
    <2>1. [m |-> "created", w |-> w] \in MESSAGE /\ ~Reaches([m |-> "created", w |-> w])
        BY DEF MESSAGE, Reaches
    <2>2. alive' \in SUBSET Windows
        BY <1>7 DEF Create, IInv, Typed
    <2>. QED
        BY <2>1, <2>2, <1>2, <1>7 DEF Create
<1>8. ASSUME NEW w \in Windows, Close(w)
      PROVE  IInv'
    BY <1>1, <1>8 DEF Close, IInv, Typed, Live
<1>9. ASSUME NEW w \in Windows, Activate(w)
      PROVE  IInv'
    BY <1>1, <1>9 DEF Activate, IInv, Typed, Live
<1>. QED
    BY <1>5, <1>6, <1>7, <1>8, <1>9 DEF Outside

-----------------------------------------------------------------------------
(* The invariant.                                                          *)
LEMMA InitHolds == Init => IInv
PROOF
<1>. SUFFICES ASSUME Init PROVE IInv
    OBVIOUS
<1>1. Typed
    BY MenusAssumption DEF Init, Typed
<1>2. Frames(stack, Live, DOMAIN pools)
    BY DEF Init, Frames
<1>3. Sound(queue, stack, Live)
    BY DEF Init, Sound, InOrder
<1>4. Live = {}
    BY DEF Init, Live
<1>. QED
    BY <1>1, <1>2, <1>3, <1>4 DEF Init, IInv, Meant

LEMMA StepKeeps == IInv /\ [Next]_vars => IInv'
PROOF
<1>. SUFFICES ASSUME IInv, [Next]_vars PROVE IInv'
    OBVIOUS
<1>1. CASE UNCHANGED vars
    BY <1>1 DEF vars, IInv, Typed, Live
<1>2. CASE Idle
    BY <1>2, <1>1 DEF Idle
<1>. QED
    BY <1>1, <1>2, SelectKeeps, DispatchKeeps, MenuEndsKeeps, FrameEndsKeeps, OutsideKeeps DEF Next

\* The inductive invariant holds in every reachable state.
THEOREM Invariance == Spec => []IInv
PROOF
<1>. QED
    BY InitHolds, StepKeeps, PTL DEF Spec

\* popup_context_menu, WZDM_FREE_MENU: no menu on the screen and no command in
\* the queue is left without its items, however handlers are nested; no pool is
\* freed twice, and none meets the same destructor twice.
THEOREM ItemsAlwaysAlive == Spec => []ItemsAlive
PROOF
<1>. QED
    BY Invariance, InvAlive, PTL

\* handle_hotkey: the window a menu's command acts on is the one the menu was
\* asked for, unless another hot key or a rule came between.
THEOREM AlwaysMeant == Spec => []MeantWindow
PROOF
<1>1. IInv => MeantWindow
    BY DEF IInv, MeantWindow
<1>. QED
    BY <1>1, Invariance, PTL

-----------------------------------------------------------------------------
(* The places of some elements of a list, in their order.                  *)
\* Places among 1..n are finitely many, and n + 1 is not one of them.
LEMMA PlacesAre ==
    ASSUME NEW n \in Nat, NEW S \in SUBSET (1..n)
    PROVE  /\ IsFiniteSet(S) /\ Cardinality(S) \in Nat /\ Cardinality(S) <= n
           /\ n + 1 \notin S
           /\ IsFiniteSet(S \cup {n + 1}) /\ Cardinality(S \cup {n + 1}) = Cardinality(S) + 1
PROOF
<1>1. IsFiniteSet(1..n) /\ Cardinality(1..n) = n
    BY FS_Interval
<1>2. IsFiniteSet(S) /\ Cardinality(S) <= n
    BY <1>1, FS_Subset
<1>3. Cardinality(S) \in Nat
    BY <1>2, FS_CardinalityType
<1>4. n + 1 \notin S
    OBVIOUS
<1>5. IsFiniteSet(S \cup {n + 1}) /\ Cardinality(S \cup {n + 1}) = Cardinality(S) + 1
    BY <1>2, <1>4, FS_AddElement
<1>. QED
    BY <1>2, <1>3, <1>4, <1>5

\* A later place has a higher rank.
LEMMA RankGrows ==
    ASSUME NEW n \in Nat, NEW S \in SUBSET (1..n), NEW i \in S, NEW j \in S, i < j
    PROVE  Rank(S, i) < Rank(S, j)
PROOF
<1>. DEFINE I == {x \in S : x <= i}
            J == {x \in S : x <= j}
<1>1. IsFiniteSet(J) /\ Cardinality(J) \in Nat
    BY PlacesAre, FS_Subset, FS_CardinalityType
<1>0. i \in Nat /\ j \in Nat /\ \A x \in S : x \in Nat
    OBVIOUS
<1>a. (\A x \in S : x <= i => x <= j) /\ j <= j /\ ~(j <= i)
    BY <1>0
<1>2. I \subseteq J /\ j \in J /\ j \notin I
    BY <1>a
<1>. HIDE DEF I, J
<1>3. Cardinality(I) <= Cardinality(J) /\ Cardinality(I) # Cardinality(J) /\ IsFiniteSet(I)
    BY <1>1, <1>2, FS_Subset
<1>4. Cardinality(I) \in Nat
    BY <1>3, FS_CardinalityType
<1>5. Cardinality(I) < Cardinality(J)
    BY <1>1, <1>3, <1>4
<1>. QED
    BY <1>5 DEF Rank, I, J

\* The ranks go from 1 to the number of places.
LEMMA RankIn ==
    ASSUME NEW n \in Nat, NEW S \in SUBSET (1..n), NEW i \in S
    PROVE  Rank(S, i) \in 1..Cardinality(S)
PROOF
<1>. DEFINE I == {x \in S : x <= i}
<1>1. IsFiniteSet(S) /\ Cardinality(S) \in Nat
    BY PlacesAre
<1>2. I \in SUBSET S /\ i \in I
    OBVIOUS
<1>. HIDE DEF I
<1>3. IsFiniteSet(I) /\ Cardinality(I) <= Cardinality(S)
    BY <1>1, <1>2, FS_Subset
<1>4. Cardinality(I) \in Nat /\ Cardinality(I) # 0
    BY <1>2, <1>3, FS_CardinalityType, FS_EmptySet
<1>5. Cardinality(I) \in 1..Cardinality(S)
    BY <1>1, <1>3, <1>4
<1>. QED
    BY <1>5 DEF Rank, I

\* No two places have the same rank.
LEMMA RankOnce ==
    ASSUME NEW n \in Nat, NEW S \in SUBSET (1..n), NEW i \in S, NEW j \in S,
           Rank(S, i) = Rank(S, j)
    PROVE  i = j
PROOF
<1>1. i \in Nat /\ j \in Nat
    OBVIOUS
<1>2. Rank(S, i) \in 1..Cardinality(S) /\ Cardinality(S) \in Nat
    BY RankIn, PlacesAre
<1>3. ASSUME i < j PROVE FALSE
    <2>1. Rank(S, i) < Rank(S, j)
        BY <1>3, RankGrows
    <2>. QED
        BY <2>1, <1>2
<1>4. ASSUME j < i PROVE FALSE
    <2>1. Rank(S, j) < Rank(S, i)
        BY <1>4, RankGrows
    <2>. QED
        BY <2>1, <1>2
<1>. QED
    BY <1>1, <1>3, <1>4

\* Every rank is taken: NthOf finds the place that has it.
LEMMA NthIs ==
    ASSUME NEW n \in Nat, NEW S \in SUBSET (1..n), NEW k \in 1..Cardinality(S)
    PROVE  NthOf(S, k) \in S /\ Rank(S, NthOf(S, k)) = k
PROOF
<1>. DEFINE K == 1..Cardinality(S)
            f == [i \in S |-> Rank(S, i)]
<1>1. IsFiniteSet(S) /\ Cardinality(S) \in Nat
    BY PlacesAre
<1>2. IsFiniteSet(K) /\ Cardinality(K) = Cardinality(S)
    BY <1>1, FS_Interval
<1>3. f \in [S -> K]
    BY RankIn
<1>4. \A i, j \in S : f[i] = f[j] => i = j
    BY RankOnce
<1>5. \A i \in S : f[i] = Rank(S, i)
    OBVIOUS
<1>. HIDE DEF f, K
<1>6. f \in Injection(S, K)
    BY <1>3, <1>4 DEF Injection, IsInjective
<1>7. f \in Surjection(S, K)
    BY <1>2, <1>6, FS_Injection
<1>8. \E i \in S : f[i] = k
    BY <1>7 DEF Surjection, K
<1>9. \E i \in S : Rank(S, i) = k
    BY <1>5, <1>8
<1>. QED
    BY <1>9 DEF NthOf

\* NthOf finds a place by its rank.
LEMMA NthUnique ==
    ASSUME NEW n \in Nat, NEW S \in SUBSET (1..n), NEW i \in S
    PROVE  NthOf(S, Rank(S, i)) = i
PROOF
<1>1. Rank(S, i) \in 1..Cardinality(S)
    BY RankIn
<1>2. NthOf(S, Rank(S, i)) \in S /\ Rank(S, NthOf(S, Rank(S, i))) = Rank(S, i)
    BY <1>1, NthIs
<1>. QED
    BY <1>2, RankOnce

\* One more element, behind the others.
LEMMA NthNew ==
    ASSUME NEW n \in Nat, NEW S \in SUBSET (1..n)
    PROVE  /\ \A k \in 1..Cardinality(S) : NthOf(S \cup {n + 1}, k) = NthOf(S, k)
           /\ NthOf(S \cup {n + 1}, Cardinality(S) + 1) = n + 1
PROOF
<1>. DEFINE T == S \cup {n + 1}
<1>1. T \in SUBSET (1..(n + 1)) /\ n + 1 \in Nat /\ Cardinality(S) \in Nat
      /\ Cardinality(T) = Cardinality(S) + 1 /\ n + 1 \in T /\ S \subseteq T
    BY PlacesAre
<1>2. \A i \in S : Rank(T, i) = Rank(S, i)
    <2>1. ASSUME NEW i \in S PROVE {j \in T : j <= i} = {j \in S : j <= i}
        OBVIOUS
    <2>. QED
        BY <2>1 DEF Rank
<1>3. Rank(T, n + 1) = Cardinality(T)
    <2>0. \A j \in T : j \in 1..(n + 1)
        BY <1>1
    <2>a. \A j \in T : j <= n + 1
        BY <2>0
    <2>1. {j \in T : j <= n + 1} = T
        BY <2>a
    <2>. QED
        BY <2>1 DEF Rank
<1>. HIDE DEF T
<1>4. \A i \in T : NthOf(T, Rank(T, i)) = i
    BY <1>1, NthUnique
<1>5. ASSUME NEW k \in 1..Cardinality(S) PROVE NthOf(T, k) = NthOf(S, k)
    BY <1>1, <1>2, <1>4, NthIs
<1>6. NthOf(T, Cardinality(S) + 1) = n + 1
    BY <1>1, <1>3, <1>4
<1>. QED
    BY <1>5, <1>6 DEF T

\* A set of numbers has a least one.
LEMMA Least ==
    ASSUME NEW I \in SUBSET Nat, I # {}
    PROVE  Min(I) \in I /\ \A j \in I : Min(I) <= j
PROOF
<1>1. PICK n \in I : TRUE
    OBVIOUS
<1>2. IsWellFoundedOn(OpToRel(<, Nat), Nat)
    BY NatLessThanWellFounded
<1>3. PICK i \in I : \A j \in I : ~(<<j, i>> \in OpToRel(<, Nat))
    BY <1>1, <1>2, WFMin
<1>5. \A j \in I : ~(j < i)
    BY <1>3 DEF OpToRel
<1>4. \A j \in I : i <= j
    BY <1>5
<1>. QED
    BY <1>4 DEF Min

\* What is least is the minimum.
LEMMA LeastIs ==
    ASSUME NEW I \in SUBSET Nat, NEW i \in I, \A j \in I : i <= j
    PROVE  Min(I) = i
PROOF
<1>1. Min(I) \in I /\ Min(I) <= i
    BY Least
<1>2. i \in Nat /\ Min(I) \in Nat /\ i <= Min(I)
    BY <1>1
<1>. QED
    BY <1>1, <1>2

\* The first of some places does not change when one comes behind them.
LEMMA LeastStays ==
    ASSUME NEW n \in Nat, NEW S \in SUBSET (1..n), S # {}
    PROVE  Min(S \cup {n + 1}) = Min(S)
PROOF
<1>1. Min(S) \in S /\ \A j \in S : Min(S) <= j
    BY Least
<1>2. Min(S) \in 1..n
    BY <1>1
<1>3. \A j \in S \cup {n + 1} : Min(S) <= j
    BY <1>1, <1>2
<1>4. S \cup {n + 1} \in SUBSET Nat /\ Min(S) \in S \cup {n + 1}
    BY <1>1
<1>. QED
    BY <1>3, <1>4, LeastIs

-----------------------------------------------------------------------------
(* Lines as they come out of tokenize_line.                                *)
TEXTS == STRING \cup {"CONTEXTMENU"}
LINE == {t \in Seq(TEXTS) : Len(t) <= MAX_TOKENS /\ \A i \in 1..Len(t) : t[i] # Null}
WORD == [q : WordTypes, t : STRING]

\* A sequence is a function on the numbers up to its length.
LEMMA SeqIs ==
    ASSUME NEW S, NEW s \in Seq(S)
    PROVE  /\ Len(s) \in Nat /\ DOMAIN s = 1..Len(s) /\ s \in [1..Len(s) -> S]
           /\ s = [i \in 1..Len(s) |-> s[i]]
PROOF
<1>. QED
    BY LenProperties

\* Append leaves the elements before it alone.
LEMMA AppendIs ==
    ASSUME NEW S, NEW s \in Seq(S), NEW e \in S
    PROVE  /\ Append(s, e) \in Seq(S) /\ Len(Append(s, e)) = Len(s) + 1
           /\ DOMAIN Append(s, e) = 1..(Len(s) + 1)
           /\ \A i \in 1..Len(s) : Append(s, e)[i] = s[i]
           /\ Append(s, e)[Len(s) + 1] = e
PROOF
<1>1. Append(s, e) \in Seq(S) /\ Len(Append(s, e)) = Len(s) + 1
      /\ (\A i \in 1..Len(s) : Append(s, e)[i] = s[i]) /\ Append(s, e)[Len(s) + 1] = e
    BY AppendProperties
<1>2. DOMAIN Append(s, e) = 1..(Len(s) + 1)
    BY <1>1, SeqIs
<1>. QED
    BY <1>1, <1>2

\* tokenize_line: at most MAX_TOKENS texts, none of them NULL.
LEMMA Tokenized ==
    ASSUME NEW lines \in Families, NEW line \in lines
    PROVE  tokenize_line(line) \in LINE
PROOF
<1>. DEFINE hashes == {i \in DOMAIN line : line[i].q = "hash"}
            n == IF hashes = {} THEN Len(line) ELSE Min(hashes) - 1
            m == Min({n, MAX_TOKENS})
            t == [i \in 1..m |-> Text(line[i])]
<1>1. line \in Seq(WORD) /\ \A i \in DOMAIN line : Text(line[i]) \in STRING /\ Text(line[i]) # Null
    BY LinesAssumption DEF WORD
<1>2. Len(line) \in Nat /\ DOMAIN line = 1..Len(line)
    BY <1>1, SeqIs
<1>3. n \in Nat /\ n <= Len(line)
    <2>1. CASE hashes = {}
        BY <1>2, <2>1
    <2>2. CASE hashes # {}
        <3>0. hashes \in SUBSET Nat
            BY <1>2
        <3>1. Min(hashes) \in hashes
            BY <3>0, <2>2, Least
        <3>2. Min(hashes) \in 1..Len(line)
            BY <1>2, <3>1
        <3>. QED
            BY <1>2, <2>2, <3>2
    <2>. QED
        BY <2>1, <2>2
<1>. HIDE DEF n
<1>4. m \in {n, MAX_TOKENS} /\ m <= n /\ m <= MAX_TOKENS
    BY <1>3, Least DEF MAX_TOKENS
<1>5. m \in Nat
    BY <1>3, <1>4 DEF MAX_TOKENS
<1>. HIDE DEF m
<1>6. \A i \in 1..m : i \in DOMAIN line
    BY <1>2, <1>3, <1>4, <1>5
<1>7. t \in [1..m -> TEXTS] /\ \A i \in 1..m : t[i] # Null
    BY <1>1, <1>6 DEF TEXTS
<1>. HIDE DEF t
<1>8. t \in Seq(TEXTS) /\ Len(t) = m
    BY <1>5, <1>7, SeqDef, LenProperties
<1>9. t \in LINE
    BY <1>4, <1>5, <1>7, <1>8 DEF LINE
<1>10. tokenize_line(line) = t
    BY DEF tokenize_line, t, m, n
<1>. QED
    BY <1>9, <1>10

-----------------------------------------------------------------------------
(* The file.  Its lines but the empty ones that are passed over are Now.   *)
CountedOf(f) == {i \in DOMAIN f : i = 1 \/ f[i] # <<>>}
TextsOf(f, n) == [k \in 1..n |-> tokenize_line(f[NthOf(CountedOf(f), k)])]
Now == Texts(lineno)

FileInv ==
    /\ family \in Families /\ file \in Seq(family) /\ Len(file) <= MaxLines
    /\ lineno = Cardinality(Counted)

\* The lines that count, which are in the file.
LEMMA CountedIs ==
    ASSUME NEW f, NEW lines \in Families, f \in Seq(lines)
    PROVE  /\ Len(f) \in Nat /\ DOMAIN f = 1..Len(f) /\ CountedOf(f) \in SUBSET (1..Len(f))
           /\ Cardinality(CountedOf(f)) \in Nat /\ Cardinality(CountedOf(f)) <= Len(f)
           /\ \A k \in 1..Cardinality(CountedOf(f)) :
                 /\ NthOf(CountedOf(f), k) \in 1..Len(f)
                 /\ tokenize_line(f[NthOf(CountedOf(f), k)]) \in LINE
PROOF
<1>1. Len(f) \in Nat /\ DOMAIN f = 1..Len(f) /\ f \in [1..Len(f) -> lines]
    BY SeqIs
<1>2. CountedOf(f) \in SUBSET (1..Len(f))
    BY <1>1 DEF CountedOf
<1>3. Cardinality(CountedOf(f)) \in Nat /\ Cardinality(CountedOf(f)) <= Len(f)
    BY <1>1, <1>2, PlacesAre
<1>4. ASSUME NEW k \in 1..Cardinality(CountedOf(f)) PROVE NthOf(CountedOf(f), k) \in 1..Len(f)
    BY <1>1, <1>2, NthIs
<1>5. \A i \in 1..Len(f) : tokenize_line(f[i]) \in LINE
    BY <1>1, Tokenized
<1>. QED
    BY <1>1, <1>2, <1>3, <1>4, <1>5

\* The lines read are lines.
LEMMA TextsAre ==
    ASSUME NEW f, NEW lines \in Families, f \in Seq(lines), NEW n \in 0..Cardinality(CountedOf(f))
    PROVE  TextsOf(f, n) \in Seq(LINE) /\ Len(TextsOf(f, n)) = n
PROOF
<1>1. Cardinality(CountedOf(f)) \in Nat /\ n \in Nat
    BY CountedIs
<1>2. \A k \in 1..n : tokenize_line(f[NthOf(CountedOf(f), k)]) \in LINE
    BY <1>1, CountedIs
<1>3. TextsOf(f, n) \in [1..n -> LINE]
    BY <1>2 DEF TextsOf
<1>. QED
    BY <1>1, <1>3, SeqDef, LenProperties

\* The next line of the file changes nothing before it: it is passed over, or comes last.
LEMMA TextsGrow ==
    ASSUME NEW f, NEW lines \in Families, f \in Seq(lines), NEW line \in lines
    PROVE  LET new == Append(f, line)  c == Cardinality(CountedOf(f))
           IN /\ new \in Seq(lines) /\ Len(new) = Len(f) + 1
              /\ \A n \in 0..c : TextsOf(new, n) = TextsOf(f, n)
              /\ line = <<>> /\ f # <<>> => CountedOf(new) = CountedOf(f)
              /\ ~(line = <<>> /\ f # <<>>) =>
                    /\ Cardinality(CountedOf(new)) = c + 1
                    /\ TextsOf(new, c + 1) = Append(TextsOf(f, c), tokenize_line(line))
PROOF
<1>. DEFINE new == Append(f, line)
            C == CountedOf(f)
            c == Cardinality(C)
            N == CountedOf(new)
<1>1. /\ Len(f) \in Nat /\ DOMAIN f = 1..Len(f) /\ C \in SUBSET (1..Len(f)) /\ c \in Nat
      /\ \A k \in 1..c : NthOf(C, k) \in 1..Len(f)
    BY CountedIs
<1>2. /\ new \in Seq(lines) /\ Len(new) = Len(f) + 1 /\ DOMAIN new = 1..(Len(f) + 1)
      /\ (\A i \in 1..Len(f) : new[i] = f[i]) /\ new[Len(f) + 1] = line
    BY AppendIs
<1>3. f = <<>> <=> Len(f) = 0
    BY EmptySeq, SeqIs
<1>4. N = IF line = <<>> /\ f # <<>> THEN C ELSE C \cup {Len(f) + 1}
    <2>1. \A i \in 1..Len(f) : i \in N <=> i \in C
        BY <1>1, <1>2 DEF CountedOf
    <2>2. Len(f) + 1 \in N <=> ~(line = <<>> /\ f # <<>>)
        BY <1>1, <1>2, <1>3 DEF CountedOf
    <2>3. N \subseteq 1..(Len(f) + 1)
        BY <1>2 DEF CountedOf
    <2>4. 1..(Len(f) + 1) = (1..Len(f)) \cup {Len(f) + 1}
        BY <1>1
    <2>5. C \subseteq 1..Len(f)
        BY <1>1
    <2>. HIDE DEF N, C
    <2>6. ASSUME NEW i PROVE i \in N <=> i \in (IF line = <<>> /\ f # <<>> THEN C ELSE C \cup {Len(f) + 1})
        <3>1. CASE i \in 1..Len(f)
            <4>1. i # Len(f) + 1
                BY <1>1, <3>1
            <4>. QED
                BY <2>1, <3>1, <4>1
        <3>2. CASE i = Len(f) + 1
            <4>1. i \notin C
                BY <1>1, <2>5, <3>2
            <4>. QED
                BY <2>2, <3>2, <4>1
        <3>3. CASE i \notin 1..(Len(f) + 1)
            BY <2>3, <2>4, <2>5, <3>3
        <3>. QED
            BY <2>4, <3>1, <3>2, <3>3
    <2>. QED
        BY <2>6
<1>5. \A k \in 1..c : NthOf(N, k) = NthOf(C, k)
    <2>1. \A k \in 1..c : NthOf(C \cup {Len(f) + 1}, k) = NthOf(C, k)
        BY <1>1, NthNew
    <2>. QED
        BY <1>4, <2>1
<1>. HIDE DEF new, N, C
<1>6. ASSUME NEW n \in 0..c PROVE TextsOf(new, n) = TextsOf(f, n)
    <2>1. ASSUME NEW k \in 1..n PROVE new[NthOf(N, k)] = f[NthOf(C, k)]
        <3>1. k \in 1..c
            BY <1>1
        <3>2. NthOf(N, k) = NthOf(C, k) /\ NthOf(C, k) \in 1..Len(f)
            BY <1>1, <1>5, <3>1
        <3>. QED
            BY <1>2, <3>2
    <2>. QED
        BY <2>1 DEF TextsOf, N, C
<1>7. ASSUME ~(line = <<>> /\ f # <<>>)
      PROVE  /\ Cardinality(N) = c + 1
             /\ TextsOf(new, c + 1) = Append(TextsOf(f, c), tokenize_line(line))
    <2>1. N = C \cup {Len(f) + 1}
        BY <1>4, <1>7
    <2>2. Cardinality(N) = c + 1
        BY <1>1, <2>1, PlacesAre
    <2>3. NthOf(N, c + 1) = Len(f) + 1
        BY <1>1, <2>1, NthNew
    <2>4. TextsOf(f, c) \in Seq(LINE) /\ Len(TextsOf(f, c)) = c
        BY <1>1, TextsAre DEF C
    <2>5. tokenize_line(line) \in LINE
        BY Tokenized
    <2>. DEFINE a == Append(TextsOf(f, c), tokenize_line(line))
    <2>6. /\ a \in Seq(LINE) /\ Len(a) = c + 1 /\ a[c + 1] = tokenize_line(line)
          /\ \A k \in 1..c : a[k] = TextsOf(f, c)[k]
        BY <2>4, <2>5, AppendIs
    <2>7. a = [k \in 1..(c + 1) |-> a[k]]
        BY <2>6, SeqIs
    <2>8. ASSUME NEW k \in 1..(c + 1) PROVE a[k] = tokenize_line(new[NthOf(N, k)])
        <3>1. CASE k = c + 1
            BY <1>2, <2>3, <2>6, <3>1
        <3>2. CASE k # c + 1
            <4>1. k \in 1..c
                BY <1>1, <3>2
            <4>2. a[k] = tokenize_line(f[NthOf(C, k)])
                BY <2>6, <4>1 DEF TextsOf, C
            <4>. QED
                BY <1>1, <1>2, <1>5, <4>1, <4>2
        <3>. QED
            BY <3>1, <3>2
    <2>. HIDE DEF a
    <2>9. TextsOf(new, c + 1) = [k \in 1..(c + 1) |-> tokenize_line(new[NthOf(N, k)])]
        BY DEF TextsOf, N
    <2>10. TextsOf(new, c + 1) = a
        BY <2>7, <2>8, <2>9
    <2>. QED
        BY <2>2, <2>10 DEF a
<1>. QED
    BY <1>1, <1>2, <1>4, <1>6, <1>7 DEF new, N, C

\* The lines the properties speak of are those of the file.
LEMMA TextsNow ==
    /\ Counted = CountedOf(file) /\ \A n : Texts(n) = TextsOf(file, n)
    /\ Counted' = CountedOf(file') /\ \A n : Texts(n)' = TextsOf(file', n)
    /\ Now = TextsOf(file, lineno) /\ Now' = TextsOf(file', lineno')
PROOF
<1>. QED
    BY DEF Counted, CountedOf, Texts, TextsOf, Now

\* The next line is T.
Reading(t) ==
    /\ phase = "parsing" /\ lineno \in Nat /\ lineno' = lineno + 1
    /\ t \in LINE /\ parse_context_menu(t)
    /\ Now \in Seq(LINE) /\ Len(Now) = lineno /\ Now' = Append(Now, t)
    /\ \A n \in 0..lineno : Texts(n)' = Texts(n)
    /\ UNCHANGED <<family, did>>
\* An empty line is passed over.
Passing ==
    /\ UNCHANGED <<config, lineno, phase, boxes, freed_tokens, family, did>>
    /\ Now' = Now /\ \A n \in 0..lineno : Texts(n)' = Texts(n)

\* The lines read so far.
LEMMA FileIs ==
    ASSUME FileInv
    PROVE  lineno \in Nat /\ lineno <= Len(file) /\ Now \in Seq(LINE) /\ Len(Now) = lineno
           /\ file \in Seq(family) /\ family \in Families
PROOF
<1>1. family \in Families /\ file \in Seq(family) /\ lineno = Cardinality(CountedOf(file))
    BY TextsNow DEF FileInv
<1>2. lineno \in Nat /\ lineno <= Len(file)
    BY <1>1, CountedIs
<1>3. TextsOf(file, lineno) \in Seq(LINE) /\ Len(TextsOf(file, lineno)) = lineno
    BY <1>1, <1>2, TextsAre
<1>. QED
    BY <1>1, <1>2, <1>3, TextsNow

\* A step of the loop of load_config passes over the next line or parses it.
LEMMA FileRead ==
    ASSUME FileInv, ReadLine
    PROVE  FileInv' /\ (Passing \/ \E t : Reading(t))
PROOF
<1>1. PICK line \in family :
        /\ file' = Append(file, line)
        /\ IF line = <<>> /\ file # <<>>
           THEN UNCHANGED <<config, lineno, phase, boxes, freed_tokens>>
           ELSE lineno' = lineno + 1 /\ parse_context_menu(tokenize_line(line))
    BY DEF ReadLine
<1>2. phase = "parsing" /\ Len(file) < MaxLines /\ UNCHANGED <<family, did>>
    BY DEF ReadLine
<1>3. lineno \in Nat /\ Now \in Seq(LINE) /\ Len(Now) = lineno /\ file \in Seq(family)
      /\ family \in Families /\ lineno = Cardinality(CountedOf(file)) /\ Len(file) \in Nat
    BY FileIs, TextsNow, SeqIs DEF FileInv
<1>4. tokenize_line(line) \in LINE
    BY <1>3, Tokenized
<1>5. /\ file' \in Seq(family) /\ Len(file') = Len(file) + 1
      /\ \A n \in 0..lineno : TextsOf(file', n) = TextsOf(file, n)
      /\ line = <<>> /\ file # <<>> => CountedOf(file') = CountedOf(file)
      /\ ~(line = <<>> /\ file # <<>>) =>
            /\ Cardinality(CountedOf(file')) = lineno + 1
            /\ TextsOf(file', lineno + 1) = Append(TextsOf(file, lineno), tokenize_line(line))
    BY <1>1, <1>3, TextsGrow
<1>6. Len(file') <= MaxLines
    BY <1>2, <1>3, <1>5, RulesAssumption
<1>7. \A n \in 0..lineno : Texts(n)' = Texts(n)
    BY <1>5, TextsNow
<1>8. CASE line = <<>> /\ file # <<>>
    <2>1. FileInv'
        BY <1>1, <1>2, <1>3, <1>5, <1>6, <1>8, TextsNow DEF FileInv
    <2>2. Now' = Now
        BY <1>1, <1>3, <1>5, <1>8, TextsNow
    <2>3. Passing
        BY <1>1, <1>2, <1>7, <1>8, <2>2 DEF Passing
    <2>. QED
        BY <2>1, <2>3
<1>9. CASE ~(line = <<>> /\ file # <<>>)
    <2>1. FileInv'
        BY <1>1, <1>2, <1>3, <1>5, <1>6, <1>9, TextsNow DEF FileInv
    <2>2. Now' = Append(Now, tokenize_line(line))
        BY <1>1, <1>5, <1>9, TextsNow
    <2>3. Reading(tokenize_line(line))
        BY <1>1, <1>2, <1>3, <1>4, <1>7, <1>9, <2>2 DEF Reading
    <2>. QED
        BY <2>1, <2>3
<1>. QED
    BY <1>8, <1>9

\* Nothing but the loop changes the lines.
LEMMA FileKept ==
    ASSUME FileInv, UNCHANGED <<family, file, lineno>>
    PROVE  FileInv' /\ Now' = Now /\ \A n : Texts(n)' = Texts(n)
PROOF
<1>1. Counted' = Counted /\ Now' = Now /\ \A n : Texts(n)' = Texts(n)
    BY TextsNow
<1>. QED
    BY <1>1 DEF FileInv

-----------------------------------------------------------------------------
(* Which lines are good.                                                   *)
\* The texts of a line.
LEMMA LineIs ==
    ASSUME NEW t \in LINE
    PROVE  /\ t \in Seq(TEXTS) /\ Len(t) \in Nat /\ Len(t) <= 10 /\ DOMAIN t = 1..Len(t)
           /\ \A i \in 1..Len(t) : t[i] \in TEXTS /\ t[i] # Null
           /\ t # <<>> <=> 1 <= Len(t)
PROOF
<1>1. t \in Seq(TEXTS) /\ Len(t) <= 10 /\ \A i \in 1..Len(t) : t[i] # Null
    BY DEF LINE, MAX_TOKENS
<1>2. Len(t) \in Nat /\ DOMAIN t = 1..Len(t) /\ t \in [1..Len(t) -> TEXTS]
    BY <1>1, SeqIs
<1>3. t = <<>> <=> Len(t) = 0
    BY <1>1, EmptySeq
<1>. QED
    BY <1>1, <1>2, <1>3

\* RulesView asks of an item what the parser asks of it.
LEMMA TypesAre ==
    /\ DOMAIN Arity = {"MergeDirs", "SubMenu", "Execute", "Func", "Separator"}
    /\ View!Items = DOMAIN Arity /\ DOMAIN View!Lengths = LineTypes
    /\ \A c \in DOMAIN Arity : View!Lengths[c] = Arity[c] /\ Arity[c] \subseteq 1..5
PROOF
<1>1. DOMAIN Arity = {"MergeDirs", "SubMenu", "Execute", "Func", "Separator"}
    BY DEF Arity
<1>2. View!Items = DOMAIN Arity
    BY <1>1 DEF View!Items
<1>3. DOMAIN View!Lengths = LineTypes
    BY <1>1 DEF View!Lengths, LineTypes
<1>4. ASSUME NEW c \in DOMAIN Arity PROVE View!Lengths[c] = Arity[c] /\ Arity[c] \subseteq 1..5
    BY <1>1, <1>4 DEF Arity, View!Lengths
<1>. QED
    BY <1>1, <1>2, <1>3, <1>4

\* The lengths of the other types of lines.
LEMMA LengthsAre ==
    /\ View!Lengths["CONTEXTMENU"] = {2} /\ View!Lengths["SaferExec"] = {3}
    /\ View!Lengths["HOTKEY"] = 5..10 /\ View!Lengths["SLIT"] = {2, 3}
    /\ View!Lengths["LOAD"] = {2} /\ View!Lengths["MATCH"] = 5..10 /\ View!Lengths["SET"] = {4}
PROOF
<1>. QED
    BY DEF View!Lengths

\* What Good says of each type of line.
LEMMA GoodLines ==
    ASSUME NEW t \in LINE, t # <<>>
    PROVE  /\ t[1] = "CONTEXTMENU" => (View!Good(t) <=> Len(t) = 2)
           /\ t[1] \in DOMAIN Arity => (View!Good(t) <=> Len(t) \in Arity[t[1]])
           /\ t[1] = "SaferExec" => (View!Good(t) <=> Len(t) = 3 /\ t[3] \in DOMAIN Patterns)
           /\ t[1] = "HOTKEY" => (View!Good(t) <=> Len(t) >= 5 /\ t[4] \in {"Func", "Execute"})
           /\ t[1] = "SLIT" => (View!Good(t) <=> Len(t) \in {2, 3})
           /\ t[1] = "LOAD" => (View!Good(t) <=> Len(t) = 2)
           /\ t[1] = "MATCH" => (View!Good(t) <=> Len(t) >= 5 /\ t[4] \in DOMAIN Patterns)
           /\ t[1] = "SET" => (View!Good(t) <=> Len(t) = 4)
           /\ t[1] \notin LineTypes => ~View!Good(t)
PROOF
<1>1. Len(t) \in Nat /\ Len(t) <= 10
    BY LineIs
<1>2. View!Good(t) <=> /\ t[1] \in LineTypes
                       /\ Len(t) \in View!Lengths[t[1]]
                       /\ t[1] = "HOTKEY" => t[4] \in {"Func", "Execute"}
                       /\ t[1] = "SaferExec" => t[3] \in DOMAIN Patterns
                       /\ t[1] = "MATCH" => t[4] \in DOMAIN Patterns
    BY TypesAre DEF View!Good
<1>3. {"CONTEXTMENU", "SaferExec", "HOTKEY", "SLIT", "LOAD", "MATCH", "SET"} \subseteq LineTypes
      /\ DOMAIN Arity \subseteq LineTypes
    BY DEF LineTypes
<1>4. t[1] \in DOMAIN Arity => (View!Good(t) <=> Len(t) \in Arity[t[1]])
    <2>1. \A c \in DOMAIN Arity : c \notin {"HOTKEY", "SaferExec", "MATCH"}
        BY TypesAre
    <2>. QED
        BY <1>2, <1>3, <2>1, TypesAre
<1>5. Len(t) \in 5..10 <=> Len(t) >= 5
    <2>1. \A n \in Nat : n <= 10 => (n \in 5..10 <=> n >= 5)
        OBVIOUS
    <2>. QED
        BY <1>1, <2>1
<1>. QED
    BY <1>2, <1>3, <1>4, <1>5, LengthsAre

-----------------------------------------------------------------------------
(* What a line does.                                                       *)
BadLine(t) ==
    /\ t # <<>> /\ ~View!Good(t) /\ config_error
    /\ IF t[1] = "CONTEXTMENU" THEN menu_defs' = wrap_up_vec /\ mdef' = NoDef
       ELSE UNCHANGED <<menu_defs, mdef>>
    /\ UNCHANGED <<safer_matches, window_matches, hotkeys, slits, plugins, core_config>>
FatalLine(t) ==
    /\ t # <<>> /\ View!Good(t) /\ Crash /\ UNCHANGED config
    /\ \/ t[1] \in DOMAIN Arity /\ mdef.name = Null
       \/ t[1] = "SET" /\ Len(t) = 4 /\ t[2] = "slit" /\ slits = <<>>
EmptyLine(t) == t = <<>> /\ Done({}) /\ UNCHANGED config
EmptyMenu(t) == [NoDef EXCEPT !.name = t[2], !.own = Tokens({2})]
MenuLine(t) ==
    /\ t[1] = "CONTEXTMENU" /\ Len(t) = 2 /\ Done({1})
    /\ menu_defs' = wrap_up_vec /\ mdef' = EmptyMenu(t)
    /\ UNCHANGED <<safer_matches, window_matches, hotkeys, slits, plugins, core_config>>
NewItem(t) == Built(t[1], Tail(t), 2..Len(t))
ItemLine(t) ==
    /\ t[1] \in DOMAIN Arity /\ Len(t) \in Arity[t[1]] /\ mdef.name # Null /\ Done({1})
    /\ mdef' = [mdef EXCEPT !.items = Append(@, NewItem(t))]
    /\ UNCHANGED <<menu_defs, safer_matches, window_matches, hotkeys, slits, plugins, core_config>>
NewSafer(t) == [level |-> Level(t[2]), re |-> t[3]]
SaferLine(t) ==
    /\ t[1] = "SaferExec" /\ Len(t) = 3 /\ t[3] \in DOMAIN Patterns /\ Done({1, 2, 3})
    /\ safer_matches' = Append(safer_matches, NewSafer(t))
    /\ UNCHANGED <<menu_defs, mdef, window_matches, hotkeys, slits, plugins, core_config>>
KeyOf(t) == <<resolve_hotkey_modifier(t[2]), resolve_hotkey_name(t[3])>>
NewHotkey(t) == Built(t[4], HotkeyArgs(t), HotkeyKeeps(t))
HotkeyLine(t) ==
    /\ t[1] = "HOTKEY" /\ Len(t) >= 5 /\ t[4] \in {"Func", "Execute"} /\ Done({2, 3, 4})
    /\ hotkeys' = [k \in DOMAIN hotkeys \cup {KeyOf(t)} |->
                      IF k = KeyOf(t) THEN NewHotkey(t) ELSE hotkeys[k]]
    /\ UNCHANGED <<menu_defs, mdef, safer_matches, window_matches, slits, plugins, core_config>>
NewSlit(t) == IF Len(t) = 3 THEN [align |-> resolve_grav(t[2]), grav |-> resolve_grav(t[3]),
                                  name |-> Null, config |-> <<>>]
              ELSE [align |-> "RIGHT", grav |-> "BOTTOM", name |-> t[2], config |-> <<>>]
SlitLine(t) ==
    /\ t[1] = "SLIT" /\ Len(t) \in {2, 3} /\ Done(DOMAIN t)
    /\ slits' = Append(slits, NewSlit(t))
    /\ UNCHANGED <<menu_defs, mdef, safer_matches, window_matches, hotkeys, plugins, core_config>>
NewPlugin(t) ==
    [name |-> t[2], slit |-> Len(slits), config |-> <<>>,
     early |-> [s \in Plugins[t[2]].early |-> core_get_plugin_string(t[2], <<>>, s)]]
PluginMenu(t) == [NoDef EXCEPT !.name = Plugins[t[2]].menu, !.plugin = TRUE]
LoadLine(t) ==
    /\ t[1] = "LOAD" /\ Len(t) = 2 /\ Done({1, 2})
    /\ IF t[2] \notin DOMAIN Plugins THEN UNCHANGED <<plugins, menu_defs>>
       ELSE /\ plugins' = Append(plugins, NewPlugin(t))
            /\ menu_defs' = IF Plugins[t[2]].menu = Null THEN menu_defs
                            ELSE Append(menu_defs, PluginMenu(t))
    /\ UNCHANGED <<mdef, safer_matches, window_matches, hotkeys, slits, core_config>>
NewMatch(t) ==
    [type |-> t[2], prop |-> t[3], re |-> t[4], func |-> t[5], arg |-> At(t, 6),
     own |-> Tokens({2, 3, 5, 6} \cap DOMAIN t)]
MatchLine(t) ==
    /\ t[1] = "MATCH" /\ Len(t) >= 5 /\ t[4] \in DOMAIN Patterns /\ Done({1, 4})
    /\ window_matches' = Append(window_matches, NewMatch(t))
    /\ UNCHANGED <<menu_defs, mdef, safer_matches, hotkeys, slits, plugins, core_config>>
SetLine(t) ==
    /\ t[1] = "SET" /\ Len(t) = 4 /\ ~(t[2] = "slit" /\ slits = <<>>) /\ Done(1..4)
    /\ slits' = IF t[2] = "slit" THEN [slits EXCEPT ![Len(slits)].config = Append(@, Setting(t[3], t[4]))]
                ELSE slits
    /\ core_config' = IF t[2] = "core" THEN Append(core_config, Setting(t[3], t[4])) ELSE core_config
    /\ plugins' = IF t[2] \notin {"slit", "core"} /\ \E p \in DOMAIN plugins : plugins[p].name = t[2]
                  THEN [plugins EXCEPT ![First(t[2])].config = Append(@, Setting(t[3], t[4]))]
                  ELSE plugins
    /\ UNCHANGED <<menu_defs, mdef, safer_matches, window_matches, hotkeys>>

GoodLine(t) ==
    /\ t # <<>> /\ View!Good(t)
    /\ \/ MenuLine(t) \/ ItemLine(t) \/ SaferLine(t) \/ HotkeyLine(t)
       \/ SlitLine(t) \/ LoadLine(t) \/ MatchLine(t) \/ SetLine(t)

\* parse_context_menu refuses a line, dies at it, has nothing to do or does what it says.
LEMMA Effects ==
    ASSUME NEW t \in LINE, parse_context_menu(t)
    PROVE  BadLine(t) \/ FatalLine(t) \/ EmptyLine(t) \/ GoodLine(t)
PROOF
<1>. DEFINE R == BadLine(t) \/ FatalLine(t) \/ EmptyLine(t) \/ GoodLine(t)
<1>1. /\ DOMAIN t = 1..Len(t) /\ Len(t) \in Nat
      /\ \A i \in 1..Len(t) : t[i] # Null
    BY LineIs
<1>2. \A c \in DOMAIN Arity : c \notin {"CONTEXTMENU", "SaferExec", "HOTKEY", "SLIT", "LOAD", "MATCH", "SET"}
    BY TypesAre
<1>3. \A i \in Nat \ {0} : At(t, i) = IF i <= Len(t) THEN t[i] ELSE Null
    BY <1>1 DEF At
<1>4. CASE t = <<>>
    <2>1. Done({}) /\ UNCHANGED config
        BY <1>4 DEF parse_context_menu
    <2>. QED
        BY <1>4, <2>1 DEF EmptyLine
<1>5. ASSUME t # <<>>, t[1] = "CONTEXTMENU", CONTEXTMENU(t) PROVE R
    <2>1. CASE Len(t) = 2
        <3>1. MenuLine(t)
            BY <1>5, <2>1 DEF CONTEXTMENU, MenuLine, EmptyMenu
        <3>. QED
            BY <1>5, <2>1, <3>1, GoodLines DEF GoodLine
    <2>2. CASE Len(t) # 2
        BY <1>5, <2>2, GoodLines DEF CONTEXTMENU, BadLine
    <2>. QED
        BY <2>1, <2>2
<1>6. ASSUME t # <<>>, t[1] \in DOMAIN Arity, MenuItem(t) PROVE R
    <2>0. t[1] # "CONTEXTMENU"
        BY <1>2, <1>6
    <2>1. CASE Len(t) \notin Arity[t[1]]
        BY <1>6, <2>0, <2>1, GoodLines DEF MenuItem, BadLine
    <2>2. CASE Len(t) \in Arity[t[1]] /\ mdef.name = Null
        BY <1>6, <2>2, GoodLines DEF MenuItem, FatalLine, config
    <2>3. CASE Len(t) \in Arity[t[1]] /\ mdef.name # Null
        <3>1. ItemLine(t)
            BY <1>6, <2>3 DEF MenuItem, ItemLine, NewItem
        <3>. QED
            BY <1>6, <2>3, <3>1, GoodLines DEF GoodLine
    <2>. QED
        BY <2>1, <2>2, <2>3
<1>7. ASSUME t # <<>>, t[1] = "SaferExec", SaferExec(t) PROVE R
    <2>1. CASE Len(t) # 3 \/ At(t, 3) \notin DOMAIN Patterns
        <3>1. ~View!Good(t)
            BY <1>3, <1>7, <2>1, GoodLines
        <3>. QED
            BY <1>7, <2>1, <3>1 DEF SaferExec, BadLine
    <2>2. CASE ~(Len(t) # 3 \/ At(t, 3) \notin DOMAIN Patterns)
        <3>1. Len(t) = 3 /\ t[3] \in DOMAIN Patterns
            BY <1>3, <2>2
        <3>2. SaferLine(t)
            BY <1>7, <2>2, <3>1 DEF SaferExec, SaferLine, NewSafer
        <3>. QED
            BY <1>7, <3>1, <3>2, GoodLines DEF GoodLine
    <2>. QED
        BY <2>1, <2>2
<1>8. ASSUME t # <<>>, t[1] = "HOTKEY", HOTKEY(t) PROVE R
    <2>1. CASE Len(t) < 5 \/ At(t, 4) \notin {"Func", "Execute"}
        <3>1. ~View!Good(t)
            BY <1>1, <1>3, <1>8, <2>1, GoodLines
        <3>. QED
            BY <1>8, <2>1, <3>1 DEF HOTKEY, BadLine
    <2>2. CASE ~(Len(t) < 5 \/ At(t, 4) \notin {"Func", "Execute"})
        <3>1. Len(t) >= 5 /\ t[4] \in {"Func", "Execute"}
            BY <1>1, <1>3, <2>2
        <3>2. HotkeyLine(t)
            BY <1>8, <2>2, <3>1 DEF HOTKEY, HotkeyLine, NewHotkey, KeyOf
        <3>. QED
            BY <1>8, <3>1, <3>2, GoodLines DEF GoodLine
    <2>. QED
        BY <2>1, <2>2
<1>9. ASSUME t # <<>>, t[1] = "SLIT", SLIT(t) PROVE R
    <2>1. CASE Len(t) \notin {2, 3}
        BY <1>9, <2>1, GoodLines DEF SLIT, BadLine
    <2>2. CASE Len(t) \in {2, 3}
        <3>1. SlitLine(t)
            BY <1>9, <2>2 DEF SLIT, SlitLine, NewSlit
        <3>. QED
            BY <1>9, <2>2, <3>1, GoodLines DEF GoodLine
    <2>. QED
        BY <2>1, <2>2
<1>10. ASSUME t # <<>>, t[1] = "LOAD", LOAD(t) PROVE R
    <2>1. CASE Len(t) # 2
        BY <1>10, <2>1, GoodLines DEF LOAD, BadLine
    <2>2. CASE Len(t) = 2
        <3>1. LoadLine(t)
            BY <1>10, <2>2 DEF LOAD, LoadLine, NewPlugin, PluginMenu
        <3>. QED
            BY <1>10, <2>2, <3>1, GoodLines DEF GoodLine
    <2>. QED
        BY <2>1, <2>2
<1>11. ASSUME t # <<>>, t[1] = "MATCH", MATCH(t) PROVE R
    <2>1. CASE Len(t) < 5 \/ At(t, 4) \notin DOMAIN Patterns
        <3>1. ~View!Good(t)
            BY <1>1, <1>3, <1>11, <2>1, GoodLines
        <3>. QED
            BY <1>11, <2>1, <3>1 DEF MATCH, BadLine
    <2>2. CASE ~(Len(t) < 5 \/ At(t, 4) \notin DOMAIN Patterns)
        <3>1. Len(t) >= 5 /\ t[4] \in DOMAIN Patterns
            BY <1>1, <1>3, <2>2
        <3>2. MatchLine(t)
            BY <1>11, <2>2, <3>1 DEF MATCH, MatchLine, NewMatch
        <3>. QED
            BY <1>11, <3>1, <3>2, GoodLines DEF GoodLine
    <2>. QED
        BY <2>1, <2>2
<1>12. ASSUME t # <<>>, t[1] = "SET", SET(t) PROVE R
    <2>1. CASE Len(t) # 4
        BY <1>12, <2>1, GoodLines DEF SET, BadLine
    <2>2. CASE Len(t) = 4 /\ t[2] = "slit" /\ slits = <<>>
        BY <1>12, <2>2, GoodLines DEF SET, FatalLine, config
    <2>3. CASE Len(t) = 4 /\ ~(t[2] = "slit" /\ slits = <<>>)
        <3>0. At(t, 3) = t[3] /\ At(t, 4) = t[4]
            BY <1>3, <2>3
        <3>1. SetLine(t)
            BY <1>12, <2>3, <3>0 DEF SET, SetLine
        <3>. QED
            BY <1>12, <2>3, <3>1, GoodLines DEF GoodLine
    <2>. QED
        BY <2>1, <2>2, <2>3
<1>13. ASSUME t # <<>>, t[1] \notin LineTypes, config_error, UNCHANGED config PROVE R
    <2>1. t[1] # "CONTEXTMENU"
        BY <1>13 DEF LineTypes
    <2>. QED
        BY <1>13, <2>1, GoodLines DEF BadLine, config
<1>. QED
    BY <1>4, <1>5, <1>6, <1>7, <1>8, <1>9, <1>10, <1>11, <1>12, <1>13 DEF parse_context_menu

-----------------------------------------------------------------------------
(* The types.                                                              *)
TOKENS == Nat \X Nat
TEXT == TEXTS \cup {Null, "", "NORMAL", "LEFT", "RIGHT", "BOTTOM"}
ITEM == [kind : TEXT, args : Seq(TEXT), own : SUBSET TOKENS]
MENU == [name : TEXT \cup {Plugins[p].menu : p \in DOMAIN Plugins}, items : Seq(ITEM),
         plugin : BOOLEAN, own : SUBSET TOKENS]
SETTING == [name : TEXT, value : TEXT]
EARLY == {[s \in Plugins[p].early |-> View!Stored(p, s)] : p \in DOMAIN Plugins}
RULE == [type : TEXT, prop : TEXT, re : DOMAIN Patterns, func : TEXT, arg : TEXT,
         own : SUBSET TOKENS]
SLITS == [align : TEXT, grav : TEXT, name : TEXT, config : Seq(SETTING)]
PLUGIN == [name : DOMAIN Plugins, slit : Nat, config : Seq(SETTING), early : EARLY]
Types ==
    /\ menu_defs \in Seq(MENU) /\ mdef \in MENU
    /\ safer_matches \in Seq([level : TEXT, re : DOMAIN Patterns])
    /\ window_matches \in Seq(RULE)
    /\ \A k \in DOMAIN hotkeys : hotkeys[k] \in ITEM
    /\ slits \in Seq(SLITS) /\ plugins \in Seq(PLUGIN) /\ core_config \in Seq(SETTING)
    /\ boxes \in Seq(Nat)

\* The texts a configuration can hold.
LEMMA TextIs ==
    /\ Null \in TEXT /\ TEXTS \subseteq TEXT
    /\ {"", "NORMAL", "LEFT", "RIGHT", "BOTTOM"} \subseteq TEXT
PROOF
<1>. QED
    BY DEF TEXT

\* The tokens of the line that is parsed.
LEMMA TokensAre ==
    ASSUME lineno' \in Nat, NEW is \in SUBSET Nat
    PROVE  Tokens(is) \in SUBSET TOKENS
PROOF
<1>. QED
    BY DEF Tokens, Token, TOKENS

\* Append, as to types.
LEMMA AppendType ==
    ASSUME NEW S, NEW s \in Seq(S), NEW e \in S
    PROVE  Append(s, e) \in Seq(S)
PROOF
<1>. QED
    BY AppendIs

\* The empty list.
LEMMA EmptyType == ASSUME NEW S PROVE <<>> \in Seq(S)
PROOF
<1>. QED
    OBVIOUS

\* wrap_up_vec appends a menu, if there is one.
LEMMA WrapType ==
    ASSUME Types
    PROVE  wrap_up_vec \in Seq(MENU)
PROOF
<1>1. Append(menu_defs, mdef) \in Seq(MENU) /\ menu_defs \in Seq(MENU)
    BY AppendType DEF Types
<1>. QED
    BY <1>1 DEF wrap_up_vec

\* No menu being defined, as to types.
LEMMA NoDefType == NoDef \in MENU
PROOF
<1>1. Null \in TEXT /\ {} \in SUBSET TOKENS /\ FALSE \in BOOLEAN /\ <<>> \in Seq(ITEM)
    BY EmptyType, TextIs
<1>. QED
    BY <1>1 DEF NoDef, MENU

\* A setting, as to types.
LEMMA SettingType ==
    ASSUME NEW n \in TEXT, NEW v \in TEXT
    PROVE  Setting(n, v) \in SETTING
PROOF
<1>. QED
    BY DEF Setting, SETTING

\* Before any SET line core_get_plugin_string answers what the registry has.
LEMMA StoredIs ==
    ASSUME NEW p, NEW s
    PROVE  core_get_plugin_string(p, <<>>, s) = View!Stored(p, s)
PROOF
<1>1. {i \in DOMAIN <<>> : (<<>>)[i].name = s} = {}
    OBVIOUS
<1>. QED
    BY <1>1 DEF core_get_plugin_string, View!Stored

\* A token, or NULL behind the last.
LEMMA AtType ==
    ASSUME NEW t \in LINE, NEW i \in Nat \ {0}
    PROVE  At(t, i) \in TEXT /\ At(t, i) = IF i <= Len(t) THEN t[i] ELSE Null
PROOF
<1>1. DOMAIN t = 1..Len(t) /\ Len(t) \in Nat /\ \A k \in 1..Len(t) : t[k] \in TEXTS
    BY LineIs
<1>2. CASE i <= Len(t)
    <2>1. i \in 1..Len(t)
        BY <1>1, <1>2
    <2>. QED
        BY <1>1, <1>2, <2>1, TextIs DEF At
<1>3. CASE ~(i <= Len(t))
    <2>1. i \notin DOMAIN t
        BY <1>1, <1>3
    <2>. QED
        BY <1>3, <2>1, TextIs DEF At
<1>. QED
    BY <1>2, <1>3

\* What each type of line makes is of its type.
LEMMA NewTypes ==
    ASSUME NEW t \in LINE, lineno' \in Nat, Types
    PROVE  /\ MenuLine(t) => EmptyMenu(t) \in MENU
           /\ ItemLine(t) => [mdef EXCEPT !.items = Append(@, NewItem(t))] \in MENU
           /\ SaferLine(t) => NewSafer(t) \in [level : TEXT, re : DOMAIN Patterns]
           /\ HotkeyLine(t) => NewHotkey(t) \in ITEM
           /\ SlitLine(t) => NewSlit(t) \in SLITS
           /\ LoadLine(t) /\ t[2] \in DOMAIN Plugins =>
                 NewPlugin(t) \in PLUGIN /\ PluginMenu(t) \in MENU
           /\ MatchLine(t) => NewMatch(t) \in RULE
PROOF
<1>1. /\ t \in Seq(TEXT) /\ Len(t) \in Nat /\ DOMAIN t = 1..Len(t)
      /\ \A i \in 1..Len(t) : t[i] \in TEXT
    <2>1. /\ t \in Seq(TEXTS) /\ Len(t) \in Nat /\ DOMAIN t = 1..Len(t)
          /\ \A i \in 1..Len(t) : t[i] \in TEXTS
        BY LineIs
    <2>2. t \in [1..Len(t) -> TEXTS]
        BY <2>1, SeqIs
    <2>3. t \in [1..Len(t) -> TEXT]
        BY <2>2, TextIs
    <2>4. t \in Seq(TEXT)
        BY <2>1, <2>3, SeqDef
    <2>5. \A i \in 1..Len(t) : t[i] \in TEXT
        BY <2>3
    <2>. QED
        BY <2>1, <2>4, <2>5
<1>2. \A is \in SUBSET Nat : Tokens(is) \in SUBSET TOKENS
    BY TokensAre
<1>3. ASSUME MenuLine(t) PROVE EmptyMenu(t) \in MENU
    <2>1. t[2] \in TEXT /\ Tokens({2}) \in SUBSET TOKENS
        BY <1>1, <1>2, <1>3 DEF MenuLine
    <2>. QED
        BY <2>1, NoDefType DEF EmptyMenu, MENU
<1>4. ASSUME t # <<>> PROVE NewItem(t) \in ITEM
    <2>1. Tail(t) \in Seq(TEXT)
        BY <1>1, <1>4, HeadTailProperties
    <2>2. t[1] \in TEXT
        BY <1>1, <1>4, LineIs
    <2>3. Tokens(2..Len(t)) \in SUBSET TOKENS
        BY <1>1, <1>2
    <2>. QED
        BY <2>1, <2>2, <2>3 DEF NewItem, Built, ITEM
<1>5. ASSUME ItemLine(t) PROVE [mdef EXCEPT !.items = Append(@, NewItem(t))] \in MENU
    <2>1. t # <<>>
        <3>1. Len(t) \in 1..5
            BY <1>5, TypesAre DEF ItemLine
        <3>. QED
            BY <3>1, <1>1, LineIs
    <2>2. mdef \in MENU
        BY DEF Types
    <2>3. Append(mdef.items, NewItem(t)) \in Seq(ITEM)
        BY <1>4, <2>1, <2>2, AppendType DEF MENU
    <2>. QED
        BY <2>2, <2>3 DEF MENU
<1>6. ASSUME SaferLine(t) PROVE NewSafer(t) \in [level : TEXT, re : DOMAIN Patterns]
    <2>1. t[2] \in TEXT /\ t[3] \in DOMAIN Patterns
        BY <1>1, <1>6 DEF SaferLine
    <2>2. Level(t[2]) \in TEXT
        BY <2>1, TextIs DEF Level
    <2>. QED
        BY <2>1, <2>2 DEF NewSafer
<1>7. ASSUME HotkeyLine(t) PROVE NewHotkey(t) \in ITEM
    <2>1. Len(t) >= 5
        BY <1>7 DEF HotkeyLine
    <2>2. t[4] \in TEXT /\ t[5] \in TEXT /\ At(t, 6) \in TEXT
        BY <1>1, <2>1, AtType
    <2>3. (IF Len(t) = 7 THEN t[7] ELSE "") \in TEXT
        <3>1. CASE Len(t) = 7
            <4>1. 7 \in 1..Len(t)
                BY <3>1
            <4>. QED
                BY <1>1, <3>1, <4>1
        <3>2. CASE Len(t) # 7
            BY <3>2, TextIs
        <3>. QED
            BY <3>1, <3>2
    <2>4. HotkeyArgs(t) \in Seq(TEXT)
        <3>1. \A x, y \in TEXT : <<x, y>> \in Seq(TEXT)
            OBVIOUS
        <3>2. \A x, y, z \in TEXT : <<x, y, z>> \in Seq(TEXT)
            OBVIOUS
        <3>. QED
            BY <2>2, <2>3, <3>1, <3>2 DEF HotkeyArgs
    <2>5. HotkeyKeeps(t) \in SUBSET Nat
        BY DEF HotkeyKeeps
    <2>. QED
        BY <1>2, <2>2, <2>4, <2>5 DEF NewHotkey, Built, ITEM
<1>8. ASSUME SlitLine(t) PROVE NewSlit(t) \in SLITS
    <2>1. t[2] \in TEXT
        BY <1>1, <1>8 DEF SlitLine
    <2>2. \A x \in TEXT : resolve_grav(x) \in TEXT
        BY TextIs DEF resolve_grav
    <2>3. Len(t) = 3 => t[3] \in TEXT
        BY <1>1
    <2>4. <<>> \in Seq(SETTING) /\ Null \in TEXT
        BY EmptyType, TextIs
    <2>5. CASE Len(t) = 3
        <3>1. resolve_grav(t[2]) \in TEXT /\ resolve_grav(t[3]) \in TEXT
            BY <2>1, <2>2, <2>3, <2>5
        <3>. QED
            BY <2>4, <2>5, <3>1 DEF NewSlit, SLITS
    <2>6. CASE Len(t) # 3
        BY <2>1, <2>4, <2>6, TextIs DEF NewSlit, SLITS
    <2>. QED
        BY <2>5, <2>6
<1>9. ASSUME LoadLine(t), t[2] \in DOMAIN Plugins PROVE NewPlugin(t) \in PLUGIN /\ PluginMenu(t) \in MENU
    <2>1. [s \in Plugins[t[2]].early |-> core_get_plugin_string(t[2], <<>>, s)] \in EARLY
        BY <1>9, StoredIs DEF EARLY
    <2>2. Len(slits) \in Nat
        BY SeqIs DEF Types
    <2>3. <<>> \in Seq(SETTING)
        BY EmptyType
    <2>4. NewPlugin(t) \in PLUGIN
        BY <1>9, <2>1, <2>2, <2>3 DEF NewPlugin, PLUGIN
    <2>5. PluginMenu(t) \in MENU
        BY <1>9, NoDefType DEF PluginMenu, MENU
    <2>. QED
        BY <2>4, <2>5
<1>10. ASSUME MatchLine(t) PROVE NewMatch(t) \in RULE
    <2>1. Len(t) >= 5
        BY <1>10 DEF MatchLine
    <2>2. t[2] \in TEXT /\ t[3] \in TEXT /\ t[5] \in TEXT /\ At(t, 6) \in TEXT
        BY <1>1, <2>1, AtType
    <2>3. Tokens({2, 3, 5, 6} \cap DOMAIN t) \in SUBSET TOKENS
        BY <1>2
    <2>. QED
        BY <1>10, <2>2, <2>3 DEF MatchLine, NewMatch, RULE
<1>. QED
    BY <1>3, <1>5, <1>6, <1>7, <1>8, <1>9, <1>10

\* The types stay, whatever is read.
LEMMA TypesRead ==
    ASSUME NEW t, Reading(t), Types
    PROVE  Types'
PROOF
<1>1. t \in LINE /\ parse_context_menu(t) /\ lineno' \in Nat
    BY DEF Reading
<1>2. wrap_up_vec \in Seq(MENU) /\ NoDef \in MENU
    BY WrapType, NoDefType
<1>3. /\ MenuLine(t) => EmptyMenu(t) \in MENU
      /\ ItemLine(t) => [mdef EXCEPT !.items = Append(@, NewItem(t))] \in MENU
      /\ SaferLine(t) => NewSafer(t) \in [level : TEXT, re : DOMAIN Patterns]
      /\ HotkeyLine(t) => NewHotkey(t) \in ITEM
      /\ SlitLine(t) => NewSlit(t) \in SLITS
      /\ LoadLine(t) /\ t[2] \in DOMAIN Plugins =>
            NewPlugin(t) \in PLUGIN /\ PluginMenu(t) \in MENU
      /\ MatchLine(t) => NewMatch(t) \in RULE
    BY <1>1, NewTypes
<1>4. /\ menu_defs \in Seq(MENU) /\ mdef \in MENU
      /\ safer_matches \in Seq([level : TEXT, re : DOMAIN Patterns])
      /\ window_matches \in Seq(RULE)
      /\ \A k \in DOMAIN hotkeys : hotkeys[k] \in ITEM
      /\ slits \in Seq(SLITS) /\ plugins \in Seq(PLUGIN) /\ core_config \in Seq(SETTING)
      /\ boxes \in Seq(Nat)
    BY DEF Types
<1>5. CASE BadLine(t)
    <2>1. boxes' \in Seq(Nat)
        BY <1>1, <1>4, <1>5, AppendType DEF BadLine, config_error
    <2>2. menu_defs' \in Seq(MENU) /\ mdef' \in MENU
        BY <1>2, <1>4, <1>5 DEF BadLine
    <2>. QED
        BY <1>4, <1>5, <2>1, <2>2 DEF BadLine, Types
<1>6. CASE FatalLine(t)
    BY <1>4, <1>6 DEF FatalLine, Crash, config, Types
<1>7. CASE EmptyLine(t)
    BY <1>4, <1>7 DEF EmptyLine, Done, config, Types
<1>8. CASE GoodLine(t)
    <2>1. CASE MenuLine(t)
        BY <1>2, <1>3, <1>4, <2>1 DEF MenuLine, Done, Types
    <2>2. CASE ItemLine(t)
        BY <1>2, <1>3, <1>4, <2>2 DEF ItemLine, Done, Types
    <2>3. CASE SaferLine(t)
        <3>1. Append(safer_matches, NewSafer(t)) \in Seq([level : TEXT, re : DOMAIN Patterns])
            BY <1>3, <1>4, <2>3, AppendType
        <3>. QED
            BY <1>4, <2>3, <3>1 DEF SaferLine, Done, Types
    <2>4. CASE HotkeyLine(t)
        <3>1. \A k \in DOMAIN hotkeys' : hotkeys'[k] \in ITEM
            BY <1>3, <1>4, <2>4 DEF HotkeyLine
        <3>. QED
            BY <1>4, <2>4, <3>1 DEF HotkeyLine, Done, Types
    <2>5. CASE SlitLine(t)
        <3>1. Append(slits, NewSlit(t)) \in Seq(SLITS)
            BY <1>3, <1>4, <2>5, AppendType
        <3>. QED
            BY <1>4, <2>5, <3>1 DEF SlitLine, Done, Types
    <2>6. CASE LoadLine(t)
        <3>1. CASE t[2] \notin DOMAIN Plugins
            BY <1>4, <2>6, <3>1 DEF LoadLine, Done, Types
        <3>2. CASE t[2] \in DOMAIN Plugins
            <4>1. /\ Append(plugins, NewPlugin(t)) \in Seq(PLUGIN)
                  /\ Append(menu_defs, PluginMenu(t)) \in Seq(MENU)
                BY <1>3, <1>4, <2>6, <3>2, AppendType
            <4>. QED
                BY <1>4, <2>6, <3>2, <4>1 DEF LoadLine, Done, Types
        <3>. QED
            BY <3>1, <3>2
    <2>7. CASE MatchLine(t)
        <3>1. Append(window_matches, NewMatch(t)) \in Seq(RULE)
            BY <1>3, <1>4, <2>7, AppendType
        <3>. QED
            BY <1>4, <2>7, <3>1 DEF MatchLine, Done, Types
    <2>8. CASE SetLine(t)
        <3>0. Setting(t[3], t[4]) \in SETTING
            <4>1. \A i \in 1..Len(t) : t[i] \in TEXT
                BY <1>1, LineIs, TextIs
            <4>2. t[3] \in TEXT /\ t[4] \in TEXT
                BY <4>1, <2>8 DEF SetLine
            <4>. QED
                BY <4>2, SettingType
        <3>1. slits' \in Seq(SLITS)
            <4>1. CASE t[2] = "slit"
                <5>1. Len(slits) \in Nat /\ slits \in [1..Len(slits) -> SLITS]
                    BY <1>4, SeqIs
                <5>2. Len(slits) # 0
                    BY <1>4, <2>8, <4>1, EmptySeq DEF SetLine
                <5>3. Len(slits) \in 1..Len(slits)
                    BY <5>1, <5>2
                <5>4. slits[Len(slits)] \in SLITS
                    BY <5>1, <5>3
                <5>5. Append(slits[Len(slits)].config, Setting(t[3], t[4])) \in Seq(SETTING)
                    BY <3>0, <5>4, AppendType DEF SLITS
                <5>6. [slits[Len(slits)] EXCEPT !.config = Append(@, Setting(t[3], t[4]))] \in SLITS
                    BY <5>4, <5>5 DEF SLITS
                <5>7. [slits EXCEPT ![Len(slits)].config = Append(@, Setting(t[3], t[4]))]
                         \in [1..Len(slits) -> SLITS]
                    BY <5>1, <5>3, <5>6
                <5>8. [slits EXCEPT ![Len(slits)].config = Append(@, Setting(t[3], t[4]))] \in Seq(SLITS)
                    BY <5>1, <5>7, SeqDef
                <5>. QED
                    BY <2>8, <4>1, <5>8 DEF SetLine
            <4>2. CASE t[2] # "slit"
                BY <1>4, <2>8, <4>2 DEF SetLine
            <4>. QED
                BY <4>1, <4>2
        <3>2. plugins' \in Seq(PLUGIN)
            <4>1. CASE t[2] \notin {"slit", "core"} /\ \E p \in DOMAIN plugins : plugins[p].name = t[2]
                <5>. DEFINE f == First(t[2])
                <5>1. Len(plugins) \in Nat /\ plugins \in [1..Len(plugins) -> PLUGIN]
                      /\ DOMAIN plugins = 1..Len(plugins)
                    BY <1>4, SeqIs
                <5>2. f \in {p \in DOMAIN plugins : plugins[p].name = t[2]}
                    <6>1. {p \in DOMAIN plugins : plugins[p].name = t[2]} \in SUBSET Nat
                        BY <5>1
                    <6>2. {p \in DOMAIN plugins : plugins[p].name = t[2]} # {}
                        BY <4>1
                    <6>. QED
                        BY <6>1, <6>2, Least DEF First
                <5>. HIDE DEF f
                <5>3. f \in 1..Len(plugins)
                    BY <5>1, <5>2
                <5>4. plugins[f] \in PLUGIN
                    BY <5>1, <5>3
                <5>5. Append(plugins[f].config, Setting(t[3], t[4])) \in Seq(SETTING)
                    BY <3>0, <5>4, AppendType DEF PLUGIN
                <5>6. [plugins[f] EXCEPT !.config = Append(@, Setting(t[3], t[4]))] \in PLUGIN
                    BY <5>4, <5>5 DEF PLUGIN
                <5>7. [plugins EXCEPT ![f].config = Append(@, Setting(t[3], t[4]))]
                         \in [1..Len(plugins) -> PLUGIN]
                    BY <5>1, <5>3, <5>6
                <5>8. [plugins EXCEPT ![f].config = Append(@, Setting(t[3], t[4]))] \in Seq(PLUGIN)
                    BY <5>1, <5>7, SeqDef
                <5>9. plugins' = [plugins EXCEPT ![f].config = Append(@, Setting(t[3], t[4]))]
                    BY <2>8, <4>1 DEF SetLine, f
                <5>. QED
                    BY <5>8, <5>9
            <4>2. CASE ~(t[2] \notin {"slit", "core"} /\ \E p \in DOMAIN plugins : plugins[p].name = t[2])
                BY <1>4, <2>8, <4>2 DEF SetLine
            <4>. QED
                BY <4>1, <4>2
        <3>3. core_config' \in Seq(SETTING)
            <4>1. Append(core_config, Setting(t[3], t[4])) \in Seq(SETTING)
                BY <1>4, <3>0, AppendType
            <4>. QED
                BY <1>4, <2>8, <4>1 DEF SetLine
        <3>. QED
            BY <1>4, <2>8, <3>1, <3>2, <3>3 DEF SetLine, Done, Types
    <2>. QED
        BY <1>8, <2>1, <2>2, <2>3, <2>4, <2>5, <2>6, <2>7, <2>8 DEF GoodLine
<1>. QED
    BY <1>1, <1>5, <1>6, <1>7, <1>8, Effects

-----------------------------------------------------------------------------
(* One more line, read as RulesView reads a file.                          *)
\* The latest of some lines.
LEMMA LatestIs ==
    ASSUME NEW n \in Nat, NEW S \in SUBSET (1..n), S # {}
    PROVE  View!Latest(S) \in S /\ \A j \in S : j <= View!Latest(S)
PROOF
<1>. DEFINE c == Cardinality(S)
            i == NthOf(S, c)
<1>1. c \in Nat /\ c # 0
    BY PlacesAre, FS_EmptySet
<1>2. c \in 1..c
    BY <1>1
<1>3. i \in S /\ Rank(S, i) = c
    BY <1>2, NthIs
<1>. HIDE DEF c, i
<1>4. ASSUME NEW j \in S PROVE j <= i
    <2>1. i \in Nat /\ j \in Nat
        BY <1>3
    <2>2. ASSUME i < j PROVE FALSE
        <3>1. Rank(S, i) < Rank(S, j)
            BY <1>3, <2>2, RankGrows
        <3>2. Rank(S, j) \in 1..c
            BY RankIn DEF c
        <3>. QED
            BY <1>1, <1>3, <3>1, <3>2
    <2>. QED
        BY <2>1, <2>2
<1>. QED
    BY <1>3, <1>4 DEF View!Latest

\* The earliest of some lines.
LEMMA EarliestIs ==
    ASSUME NEW I \in SUBSET Nat, I # {}
    PROVE  View!Earliest(I) \in I /\ \A j \in I : View!Earliest(I) <= j
PROOF
<1>1. Min(I) \in I /\ \A j \in I : Min(I) <= j
    BY Least
<1>. QED
    BY <1>1 DEF View!Earliest

\* NEW is the lines LS and T.
More(ls, t, new) ==
    /\ ls \in Seq(LINE) /\ t \in LINE /\ new \in Seq(LINE) /\ Len(ls) \in Nat
    /\ DOMAIN ls = 1..Len(ls) /\ Len(new) = Len(ls) + 1
    /\ DOMAIN new = (1..Len(ls)) \cup {Len(ls) + 1}
    /\ new[Len(ls) + 1] = t /\ \A k \in 1..Len(ls) : new[k] = ls[k]
    /\ \A k \in 1..Len(ls) : k # Len(ls) + 1 /\ k < Len(ls) + 1 /\ ~(Len(ls) + 1 <= k)

\* A line more is what Append makes.
LEMMA MoreIs ==
    ASSUME NEW ls \in Seq(LINE), NEW t \in LINE
    PROVE  More(ls, t, Append(ls, t))
PROOF
<1>1. Len(ls) \in Nat /\ DOMAIN ls = 1..Len(ls)
    BY SeqIs
<1>2. /\ Append(ls, t) \in Seq(LINE) /\ Len(Append(ls, t)) = Len(ls) + 1
      /\ DOMAIN Append(ls, t) = 1..(Len(ls) + 1)
      /\ \A i \in 1..Len(ls) : Append(ls, t)[i] = ls[i]
      /\ Append(ls, t)[Len(ls) + 1] = t
    BY AppendIs
<1>3. 1..(Len(ls) + 1) = (1..Len(ls)) \cup {Len(ls) + 1}
    BY <1>1
<1>4. \A k \in 1..Len(ls) : k # Len(ls) + 1 /\ k < Len(ls) + 1 /\ ~(Len(ls) + 1 <= k)
    BY <1>1
<1>. QED
    BY <1>1, <1>2, <1>3, <1>4 DEF More

With(S, n, more) == S \cup (IF more THEN {n} ELSE {})
\* The lines of each type grow by the new one or not at all.
LEMMA MoreLines ==
    ASSUME NEW ls, NEW t, NEW new, More(ls, t, new)
    PROVE  LET n == Len(ls) + 1
           IN /\ View!Bad(new) = With(View!Bad(ls), n, ~View!Good(t))
              /\ \A c : View!Lines(new, c) = With(View!Lines(ls, c), n, View!Is(t, c) /\ View!Good(t))
              /\ View!Heads(new) = With(View!Heads(ls), n, View!Is(t, "CONTEXTMENU"))
              /\ View!Bad(ls) \subseteq 1..Len(ls) /\ View!Heads(ls) \subseteq 1..Len(ls)
              /\ \A c : View!Lines(ls, c) \subseteq 1..Len(ls)
PROOF
<1>. DEFINE n == Len(ls) + 1
<1>1. View!Bad(new) = With(View!Bad(ls), n, ~View!Good(t))
    BY DEF More, With, View!Bad
<1>2. ASSUME NEW c
      PROVE  View!Lines(new, c) = With(View!Lines(ls, c), n, View!Is(t, c) /\ View!Good(t))
    <2>1. \A k \in 1..Len(ls) : View!Is(new[k], c) <=> View!Is(ls[k], c)
        BY DEF More
    <2>2. \A k \in 1..Len(ls) : View!Good(new[k]) <=> View!Good(ls[k])
        BY DEF More
    <2>. QED
        BY <2>1, <2>2 DEF More, With, View!Lines
<1>3. View!Heads(new) = With(View!Heads(ls), n, View!Is(t, "CONTEXTMENU"))
    BY DEF More, With, View!Heads
<1>4. View!Bad(ls) \subseteq 1..Len(ls) /\ View!Heads(ls) \subseteq 1..Len(ls)
    BY DEF More, View!Bad, View!Heads
<1>5. \A c : View!Lines(ls, c) \subseteq 1..Len(ls)
    BY DEF More, View!Lines
<1>. QED
    BY <1>1, <1>2, <1>3, <1>4, <1>5

LastHead(ls, j) == j \in View!Heads(ls) /\ \A i \in View!Heads(ls) : i <= j
\* There is a menu to put an item into.
Defining(ls) == \E j : LastHead(ls, j) /\ View!Good(ls[j])

\* A CONTEXTMENU line is the last one, good or not; any other leaves the last one as it was.
LEMMA MoreHeads ==
    ASSUME NEW ls, NEW t, NEW new, More(ls, t, new)
    PROVE  /\ View!Is(t, "CONTEXTMENU") => \A j : LastHead(new, j) <=> j = Len(ls) + 1
           /\ ~View!Is(t, "CONTEXTMENU") => \A j : LastHead(new, j) <=> LastHead(ls, j)
           /\ Defining(new) <=> IF View!Is(t, "CONTEXTMENU") THEN View!Good(t) ELSE Defining(ls)
PROOF
<1>. DEFINE n == Len(ls) + 1
<1>1. /\ View!Heads(new) = With(View!Heads(ls), n, View!Is(t, "CONTEXTMENU"))
      /\ View!Heads(ls) \subseteq 1..Len(ls)
    BY MoreLines
<1>2. /\ \A k \in 1..Len(ls) : k # n /\ k <= n /\ ~(n <= k)
      /\ n <= n /\ new[n] = t /\ \A k \in 1..Len(ls) : new[k] = ls[k]
    BY DEF More
<1>. HIDE DEF n
<1>3. ASSUME View!Is(t, "CONTEXTMENU") PROVE \A j : LastHead(new, j) <=> j = n
    <2>1. View!Heads(new) = View!Heads(ls) \cup {n}
        BY <1>1, <1>3 DEF With
    <2>. QED
        BY <1>1, <1>2, <2>1 DEF LastHead
<1>4. ASSUME ~View!Is(t, "CONTEXTMENU") PROVE \A j : LastHead(new, j) <=> LastHead(ls, j)
    <2>1. View!Heads(new) = View!Heads(ls)
        BY <1>1, <1>4 DEF With
    <2>. QED
        BY <2>1 DEF LastHead
<1>5. CASE View!Is(t, "CONTEXTMENU")
    BY <1>2, <1>3, <1>5 DEF Defining, n
<1>6. CASE ~View!Is(t, "CONTEXTMENU")
    <2>1. \A j : LastHead(ls, j) => new[j] = ls[j]
        BY <1>1, <1>2 DEF LastHead
    <2>2. Defining(new) <=> Defining(ls)
        BY <1>4, <1>6, <2>1 DEF Defining
    <2>. QED
        BY <1>4, <1>6, <2>2
<1>. QED
    BY <1>3, <1>5, <1>6 DEF n

\* The lines at which the program ends, as it meets them.
LEMMA FatalLast ==
    ASSUME NEW ls, NEW t, NEW new, More(ls, t, new)
    PROVE  /\ \A k \in 1..Len(ls) : View!Fatal(new, k) <=> View!Fatal(ls, k)
           /\ View!Fatal(new, Len(ls) + 1) <=>
                 \/ View!IsItem(t) /\ ~Defining(ls)
                 \/ View!Is(t, "SET") /\ View!Good(t) /\ t[2] = "slit" /\ View!Lines(ls, "SLIT") = {}
PROOF
<1>. DEFINE n == Len(ls) + 1
<1>1. /\ View!Heads(new) = With(View!Heads(ls), n, View!Is(t, "CONTEXTMENU"))
      /\ View!Lines(new, "SLIT") = With(View!Lines(ls, "SLIT"), n, View!Is(t, "SLIT") /\ View!Good(t))
      /\ View!Lines(new, "SET") = With(View!Lines(ls, "SET"), n, View!Is(t, "SET") /\ View!Good(t))
      /\ View!Heads(ls) \subseteq 1..Len(ls) /\ View!Lines(ls, "SLIT") \subseteq 1..Len(ls)
      /\ View!Lines(ls, "SET") \subseteq 1..Len(ls)
    BY MoreLines
<1>2. /\ Len(ls) \in Nat /\ new[n] = t /\ \A k \in 1..Len(ls) : new[k] = ls[k]
      /\ \A k \in 1..Len(ls) : k # n /\ k < n /\ n > k /\ ~(n <= k) /\ k <= n /\ ~(k > n) /\ k \in Nat
    BY DEF More
<1>3. View!Is(t, "CONTEXTMENU") => ~View!IsItem(t) /\ ~View!Is(t, "SET")
    BY TypesAre DEF View!Is, View!IsItem
<1>. HIDE DEF n
<1>4. ASSUME NEW k \in 1..Len(ls) PROVE View!Fatal(new, k) <=> View!Fatal(ls, k)
    <2>. DEFINE H == {j \in View!Heads(ls) : j <= k}
    <2>1. {j \in View!Heads(new) : j <= k} = H
        BY <1>1, <1>2 DEF With
    <2>2. (\A j \in View!Heads(new) : j > k) <=> (\A j \in View!Heads(ls) : j > k)
        BY <1>1, <1>2 DEF With
    <2>3. (\A j \in View!Lines(new, "SLIT") : j > k) <=> (\A j \in View!Lines(ls, "SLIT") : j > k)
        BY <1>1, <1>2 DEF With
    <2>4. k \in View!Lines(new, "SET") <=> k \in View!Lines(ls, "SET")
        BY <1>1, <1>2 DEF With
    <2>5. View!Head_(new, k) = View!Head_(ls, k) /\ View!Head_(ls, k) = View!Latest(H)
        BY <2>1 DEF View!Head_
    <2>6. ASSUME ~(\A j \in View!Heads(ls) : j > k)
          PROVE  new[View!Head_(ls, k)] = ls[View!Head_(ls, k)]
        <3>1. \A j \in View!Heads(ls) : j > k \/ j <= k
            BY <1>1, <1>2
        <3>2. H # {} /\ H \in SUBSET (1..Len(ls))
            BY <1>1, <2>6, <3>1
        <3>. HIDE DEF H
        <3>3. View!Latest(H) \in 1..Len(ls)
            BY <1>2, <3>2, LatestIs
        <3>. QED
            BY <1>2, <2>5, <3>3
    <2>7. new[k] = ls[k]
        BY <1>2
    <2>. QED
        BY <2>2, <2>3, <2>4, <2>5, <2>6, <2>7 DEF View!Fatal
<1>5. View!IsItem(t) => (((\A j \in View!Heads(new) : j > n) \/ ~View!Good(new[View!Head_(new, n)]))
                             <=> ~Defining(ls))
    <2>. SUFFICES ASSUME View!IsItem(t)
                  PROVE  ((\A j \in View!Heads(new) : j > n) \/ ~View!Good(new[View!Head_(new, n)]))
                             <=> ~Defining(ls)
        OBVIOUS
    <2>1. View!Heads(new) = View!Heads(ls)
        BY <1>1, <1>3 DEF With
    <2>2. {j \in View!Heads(new) : j <= n} = View!Heads(ls)
        BY <1>1, <1>2, <2>1
    <2>3. View!Head_(new, n) = View!Latest(View!Heads(ls))
        BY <2>2 DEF View!Head_
    <2>4. CASE View!Heads(ls) = {}
        BY <2>1, <2>4 DEF Defining, LastHead
    <2>5. CASE View!Heads(ls) # {}
        <3>. DEFINE h == View!Latest(View!Heads(ls))
        <3>1. h \in View!Heads(ls) /\ \A j \in View!Heads(ls) : j <= h
            BY <1>1, <1>2, <2>5, LatestIs
        <3>2. new[h] = ls[h] /\ ~(h > n)
            BY <1>1, <1>2, <3>1
        <3>3. \A j : LastHead(ls, j) => j = h
            BY <1>1, <1>2, <3>1 DEF LastHead
        <3>4. LastHead(ls, h)
            BY <3>1 DEF LastHead
        <3>5. Defining(ls) <=> View!Good(ls[h])
            BY <3>3, <3>4 DEF Defining
        <3>. QED
            BY <2>1, <2>3, <3>1, <3>2, <3>5
    <2>. QED
        BY <2>4, <2>5
<1>6. View!Is(t, "SET") => ((\A j \in View!Lines(new, "SLIT") : j > n) <=> View!Lines(ls, "SLIT") = {})
    <2>1. View!Is(t, "SET") => ~View!Is(t, "SLIT")
        BY DEF View!Is
    <2>2. View!Is(t, "SET") => View!Lines(new, "SLIT") = View!Lines(ls, "SLIT")
        BY <1>1, <2>1 DEF With
    <2>. QED
        BY <1>1, <1>2, <2>2
<1>7. n \in View!Lines(new, "SET") <=> View!Is(t, "SET") /\ View!Good(t)
    BY <1>1, <1>2 DEF With
<1>8. View!Fatal(new, n) <=>
        \/ View!IsItem(t) /\ ((\A j \in View!Heads(new) : j > n) \/ ~View!Good(new[View!Head_(new, n)]))
        \/ View!Is(t, "SET") /\ View!Good(t) /\ t[2] = "slit" /\ \A j \in View!Lines(new, "SLIT") : j > n
    BY <1>2, <1>7 DEF View!Fatal
<1>. QED
    BY <1>4, <1>5, <1>6, <1>8 DEF n

-----------------------------------------------------------------------------
(* The boxes.                                                              *)
Phases == {"parsing", "box", "running", "ended", "crashed"}
BoxInv ==
    /\ phase \in Phases
    /\ ToSet(boxes) = View!Bad(Now) /\ \A i, j \in DOMAIN boxes : i < j => boxes[i] < boxes[j]
    /\ \A k \in DOMAIN Now : View!Fatal(Now, k) <=> (phase = "crashed" /\ k = lineno)
    /\ phase \in {"parsing", "box"} =>
          /\ mdef.name # Null <=> Defining(Now)
          /\ slits = <<>> <=> View!Lines(Now, "SLIT") = {}

\* What good lines do to the menu and the slits.
GoodOf(t) ==
    /\ phase' = "parsing" /\ boxes' = boxes
    /\ View!Is(t, "CONTEXTMENU") => mdef'.name # Null
    /\ ~View!Is(t, "CONTEXTMENU") => mdef'.name = mdef.name
    /\ View!IsItem(t) => mdef.name # Null
    /\ View!Is(t, "SET") => ~(t[2] = "slit" /\ slits = <<>>)
    /\ View!Is(t, "SLIT") => slits' # <<>>
    /\ ~View!Is(t, "SLIT") => (slits' = <<>> <=> slits = <<>>)

\* A good line leaves the parser where the next line is good or fatal as RulesView has it.
LEMMA GoodLinesDo ==
    ASSUME NEW t \in LINE, GoodLine(t), Types
    PROVE  GoodOf(t)
PROOF
<1>0. \A c \in DOMAIN Arity : c \notin {"CONTEXTMENU", "SaferExec", "HOTKEY", "SLIT", "LOAD", "MATCH", "SET"}
    BY TypesAre
<1>1. mdef \in MENU /\ slits \in Seq(SLITS)
    BY DEF Types
<1>2. t # <<>> /\ View!Items = DOMAIN Arity /\ Len(t) \in Nat /\ \A i \in 1..Len(t) : t[i] # Null
    BY TypesAre, LineIs DEF GoodLine
<1>3. CASE MenuLine(t)
    <2>1. t[2] # Null
        BY <1>2, <1>3 DEF MenuLine
    <2>2. mdef'.name = t[2]
        BY <1>3 DEF MenuLine, EmptyMenu, NoDef
    <2>. QED
        BY <1>0, <1>2, <1>3, <2>1, <2>2 DEF MenuLine, Done, View!Is, View!IsItem, GoodOf
<1>4. CASE ItemLine(t)
    <2>1. mdef'.name = mdef.name
        BY <1>1, <1>4 DEF ItemLine, MENU
    <2>. QED
        BY <1>0, <1>2, <1>4, <2>1 DEF ItemLine, Done, View!Is, View!IsItem, GoodOf
<1>5. CASE SaferLine(t)
    BY <1>0, <1>2, <1>5 DEF SaferLine, Done, View!Is, View!IsItem, GoodOf
<1>6. CASE HotkeyLine(t)
    BY <1>0, <1>2, <1>6 DEF HotkeyLine, Done, View!Is, View!IsItem, GoodOf
<1>7. CASE SlitLine(t)
    <2>1. slits' # <<>>
        <3>1. NewSlit(t) \in SLITS \cup {NewSlit(t)} /\ slits \in Seq(SLITS \cup {NewSlit(t)})
            BY <1>1, SeqIs, SeqDef
        <3>2. Len(Append(slits, NewSlit(t))) = Len(slits) + 1 /\ Len(slits) \in Nat
            BY <3>1, AppendIs, SeqIs
        <3>. QED
            BY <1>7, <3>2 DEF SlitLine
    <2>. QED
        BY <1>0, <1>2, <1>7, <2>1 DEF SlitLine, Done, View!Is, View!IsItem, GoodOf
<1>8. CASE LoadLine(t)
    BY <1>0, <1>2, <1>8 DEF LoadLine, Done, View!Is, View!IsItem, GoodOf
<1>9. CASE MatchLine(t)
    BY <1>0, <1>2, <1>9 DEF MatchLine, Done, View!Is, View!IsItem, GoodOf
<1>10. CASE SetLine(t)
    <2>1. slits' = <<>> <=> slits = <<>>
        <3>1. CASE t[2] = "slit"
            <4>1. slits # <<>> /\ slits' = [slits EXCEPT ![Len(slits)].config = Append(@, Setting(t[3], t[4]))]
                BY <1>10, <3>1 DEF SetLine
            <4>2. DOMAIN slits' = DOMAIN slits /\ DOMAIN slits # {}
                <5>1. DOMAIN slits = 1..Len(slits) /\ Len(slits) \in Nat /\ Len(slits) # 0
                    BY <1>1, <4>1, SeqIs, EmptySeq
                <5>. QED
                    BY <4>1, <5>1
            <4>. QED
                BY <4>1, <4>2
        <3>2. CASE t[2] # "slit"
            BY <1>10, <3>2 DEF SetLine
        <3>. QED
            BY <3>1, <3>2
    <2>. QED
        BY <1>0, <1>2, <1>10, <2>1 DEF SetLine, Done, View!Is, View!IsItem, GoodOf
<1>. QED
    BY <1>3, <1>4, <1>5, <1>6, <1>7, <1>8, <1>9, <1>10 DEF GoodLine

\* A box for the line read last keeps the boxes in order.
LEMMA BoxMore ==
    ASSUME NEW n \in Nat, NEW B \in SUBSET (1..n), NEW s \in Seq(Nat), ToSet(s) = B,
           \A i, j \in DOMAIN s : i < j => s[i] < s[j]
    PROVE  /\ ToSet(Append(s, n + 1)) = B \cup {n + 1}
           /\ \A i, j \in DOMAIN Append(s, n + 1) : i < j => Append(s, n + 1)[i] < Append(s, n + 1)[j]
PROOF
<1>. DEFINE a == Append(s, n + 1)
            m == Len(s)
<1>1. m \in Nat /\ DOMAIN s = 1..m /\ DOMAIN a = 1..(m + 1)
      /\ (\A i \in 1..m : a[i] = s[i]) /\ a[m + 1] = n + 1
    BY SeqIs, AppendIs
<1>2. \A i \in 1..m : s[i] \in B
    BY <1>1 DEF ToSet
<1>3. 1..(m + 1) = (1..m) \cup {m + 1}
    BY <1>1
<1>. HIDE DEF a, m
<1>4. ToSet(a) = B \cup {n + 1}
    BY <1>1, <1>3 DEF ToSet
<1>5. \A i \in 1..m : a[i] \in 1..n
    BY <1>1, <1>2
<1>6. ASSUME NEW i \in 1..(m + 1), NEW j \in 1..(m + 1), i < j PROVE a[i] < a[j]
    <2>1. i \in 1..m
        BY <1>1, <1>6
    <2>2. CASE j = m + 1
        BY <1>1, <1>5, <2>1, <2>2
    <2>3. CASE j # m + 1
        <3>1. j \in 1..m
            BY <1>3, <2>3
        <3>. QED
            BY <1>1, <1>6, <2>1, <3>1
    <2>. QED
        BY <2>2, <2>3
<1>. QED
    BY <1>1, <1>4, <1>6 DEF a

\* A box comes up for a bad line only, and the program dies at a fatal one only.
LEMMA BoxRead ==
    ASSUME NEW t, Reading(t), Types, BoxInv
    PROVE  BoxInv'
PROOF
<1>. DEFINE new == Now'
            n == lineno + 1
<1>1. /\ phase = "parsing" /\ lineno \in Nat /\ lineno' = n /\ t \in LINE /\ parse_context_menu(t)
      /\ Len(Now) = lineno /\ More(Now, t, new)
    BY MoreIs DEF Reading
<1>2. /\ DOMAIN new = (1..lineno) \cup {n} /\ DOMAIN Now = 1..lineno
      /\ \A k \in 1..lineno : k # n
    BY <1>1 DEF More
<1>3. /\ View!Bad(new) = With(View!Bad(Now), n, ~View!Good(t))
      /\ View!Lines(new, "SLIT") = With(View!Lines(Now, "SLIT"), n, View!Is(t, "SLIT") /\ View!Good(t))
      /\ View!Bad(Now) \subseteq 1..lineno
    BY <1>1, MoreLines
<1>4. Defining(new) <=> IF View!Is(t, "CONTEXTMENU") THEN View!Good(t) ELSE Defining(Now)
    BY <1>1, MoreHeads
<1>5. /\ \A k \in 1..lineno : View!Fatal(new, k) <=> View!Fatal(Now, k)
      /\ View!Fatal(new, n) <=>
                 \/ View!IsItem(t) /\ ~Defining(Now)
                 \/ View!Is(t, "SET") /\ View!Good(t) /\ t[2] = "slit" /\ View!Lines(Now, "SLIT") = {}
    BY <1>1, FatalLast
<1>6. /\ ToSet(boxes) = View!Bad(Now) /\ \A i, j \in DOMAIN boxes : i < j => boxes[i] < boxes[j]
      /\ \A k \in 1..lineno : ~View!Fatal(Now, k)
      /\ mdef.name # Null <=> Defining(Now)
      /\ slits = <<>> <=> View!Lines(Now, "SLIT") = {}
    BY <1>1, <1>2 DEF BoxInv
<1>7. View!IsItem(t) => View!Good(t) /\ t # <<>> /\ t[1] \in DOMAIN Arity
    BY TypesAre DEF View!IsItem
<1>8. BoxInv' <=>
        /\ phase' \in Phases
        /\ ToSet(boxes') = View!Bad(new) /\ \A i, j \in DOMAIN boxes' : i < j => boxes'[i] < boxes'[j]
        /\ \A k \in DOMAIN new : View!Fatal(new, k) <=> (phase' = "crashed" /\ k = n)
        /\ phase' \in {"parsing", "box"} =>
              /\ mdef'.name # Null <=> Defining(new)
              /\ slits' = <<>> <=> View!Lines(new, "SLIT") = {}
    BY <1>1 DEF BoxInv
<1>9. boxes \in Seq(Nat) /\ NoDef.name = Null
    BY DEF Types, NoDef
<1>. HIDE DEF new, n
<1>10. CASE BadLine(t)
    <2>1. phase' = "box" /\ boxes' = Append(boxes, n) /\ ~View!Good(t) /\ t # <<>> /\ slits' = slits
        BY <1>1, <1>10 DEF BadLine, config_error
    <2>2. View!Bad(new) = View!Bad(Now) \cup {n} /\ View!Lines(new, "SLIT") = View!Lines(Now, "SLIT")
        BY <1>3, <2>1 DEF With
    <2>3. /\ ToSet(Append(boxes, n)) = View!Bad(Now) \cup {n}
          /\ \A i, j \in DOMAIN Append(boxes, n) : i < j => Append(boxes, n)[i] < Append(boxes, n)[j]
        BY <1>1, <1>3, <1>6, <1>9, BoxMore DEF n
    <2>4. mdef'.name # Null <=> Defining(new)
        <3>1. CASE t[1] = "CONTEXTMENU"
            BY <1>4, <1>9, <1>10, <2>1, <3>1 DEF BadLine, View!Is
        <3>2. CASE t[1] # "CONTEXTMENU"
            BY <1>4, <1>6, <1>10, <3>2 DEF BadLine, View!Is
        <3>. QED
            BY <3>1, <3>2
    <2>5. \A k \in DOMAIN new : ~View!Fatal(new, k)
        BY <1>2, <1>5, <1>6, <1>7, <2>1
    <2>. QED
        BY <1>6, <1>8, <2>1, <2>2, <2>3, <2>4, <2>5 DEF Phases
<1>11. CASE FatalLine(t)
    <2>1. phase' = "crashed" /\ boxes' = boxes /\ View!Good(t) /\ t # <<>>
        BY <1>11 DEF FatalLine, Crash
    <2>2. View!Bad(new) = View!Bad(Now)
        BY <1>3, <2>1 DEF With
    <2>3. View!Fatal(new, n)
        <3>1. CASE t[1] \in DOMAIN Arity /\ mdef.name = Null
            <4>1. View!IsItem(t)
                BY <2>1, <3>1, TypesAre DEF View!IsItem
            <4>. QED
                BY <1>5, <1>6, <3>1, <4>1
        <3>2. CASE t[1] = "SET" /\ Len(t) = 4 /\ t[2] = "slit" /\ slits = <<>>
            BY <1>5, <1>6, <2>1, <3>2 DEF View!Is
        <3>. QED
            BY <1>11, <3>1, <3>2 DEF FatalLine
    <2>. QED
        BY <1>2, <1>5, <1>6, <1>8, <2>1, <2>2, <2>3 DEF Phases
<1>12. CASE EmptyLine(t)
    <2>1. phase' = "parsing" /\ boxes' = boxes /\ t = <<>> /\ slits' = slits /\ mdef' = mdef
        BY <1>12 DEF EmptyLine, Done, config
    <2>2. View!Good(t) /\ ~View!IsItem(t) /\ \A c : ~View!Is(t, c)
        BY <2>1 DEF View!Good, View!IsItem, View!Is
    <2>3. View!Bad(new) = View!Bad(Now) /\ View!Lines(new, "SLIT") = View!Lines(Now, "SLIT")
        BY <1>3, <2>2 DEF With
    <2>. QED
        BY <1>2, <1>4, <1>5, <1>6, <1>8, <2>1, <2>2, <2>3 DEF Phases
<1>13. CASE GoodLine(t)
    <2>1. GoodOf(t)
        BY <1>1, <1>13, GoodLinesDo
    <2>2. View!Good(t)
        BY <1>13 DEF GoodLine
    <2>3. View!Bad(new) = View!Bad(Now)
        BY <1>3, <2>2 DEF With
    <2>4. slits' = <<>> <=> View!Lines(new, "SLIT") = {}
        BY <1>3, <1>6, <2>1, <2>2 DEF With, GoodOf
    <2>5. mdef'.name # Null <=> Defining(new)
        BY <1>4, <1>6, <2>1, <2>2 DEF GoodOf
    <2>6. \A k \in DOMAIN new : ~View!Fatal(new, k)
        BY <1>2, <1>5, <1>6, <2>1 DEF GoodOf
    <2>. QED
        BY <1>6, <1>8, <2>1, <2>3, <2>4, <2>5, <2>6 DEF Phases, GoodOf
<1>. QED
    BY <1>1, <1>10, <1>11, <1>12, <1>13, Effects

-----------------------------------------------------------------------------
(* The tokens.  Those that are freed, those that belong to something that   *)
(* was made, and those of the menu being defined are all different.        *)
Of(n, is) == {<<n, i>> : i \in is}
Until(n) == (1..n) \X (1..MAX_TOKENS)
Apart(O, M, F, n) ==
    /\ F \subseteq Until(n) /\ M \subseteq Until(n) /\ M \cap F = {}
    /\ \A a \in O : a \subseteq Until(n) /\ a \cap F = {} /\ a \cap M = {}
    /\ \A a, b \in O : a # b => a \cap b = {}
InUse(O, M, F) == F \cup M \cup UNION O

\* The menu is complete.
LEMMA ApartWrapped ==
    ASSUME NEW O, NEW M, NEW F, NEW n, Apart(O, M, F, n)
    PROVE  Apart(O \cup {M}, {}, F, n)
PROOF
<1>. QED
    BY DEF Apart

\* What was let go owns nothing.
LEMMA ApartFewer ==
    ASSUME NEW O, NEW M, NEW F, NEW n, Apart(O, M, F, n), NEW P, P \subseteq O \cup {{}}
    PROVE  Apart(P, M, F, n)
PROOF
<1>. QED
    BY DEF Apart

\* The tokens of a new line.
LEMMA Fresh ==
    ASSUME NEW n \in Nat, NEW is \in SUBSET (1..MAX_TOKENS)
    PROVE  /\ Until(n) \subseteq Until(n + 1) /\ Of(n + 1, is) \subseteq Until(n + 1)
           /\ \A x \in Of(n + 1, is) : x \notin Until(n)
PROOF
<1>1. (\A k \in 1..n : k \in 1..(n + 1)) /\ n + 1 \in 1..(n + 1) /\ n + 1 \notin 1..n
    OBVIOUS
<1>. QED
    BY <1>1 DEF Until, Of

\* A line frees some of its tokens and something keeps others: all stay apart.
LEMMA ApartMore ==
    ASSUME NEW O, NEW M, NEW F, NEW n \in Nat, Apart(O, M, F, n),
           NEW keeps \in SUBSET (1..MAX_TOKENS), NEW frees \in SUBSET (1..MAX_TOKENS),
           keeps \cap frees = {}
    PROVE  /\ Apart(O, M \cup Of(n + 1, keeps), F \cup Of(n + 1, frees), n + 1)
           /\ Apart(O \cup {Of(n + 1, keeps)}, M, F \cup Of(n + 1, frees), n + 1)
PROOF
<1>. DEFINE K == Of(n + 1, keeps)
            R == Of(n + 1, frees)
<1>1. /\ Until(n) \subseteq Until(n + 1) /\ K \subseteq Until(n + 1) /\ R \subseteq Until(n + 1)
      /\ \A x \in K : x \notin Until(n)
      /\ \A x \in R : x \notin Until(n)
    BY Fresh
<1>2. K \cap R = {}
    BY DEF Of
<1>. HIDE DEF K, R
<1>3. Apart(O, M \cup K, F \cup R, n + 1)
    BY <1>1, <1>2 DEF Apart
<1>4. Apart(O \cup {K}, M, F \cup R, n + 1)
    BY <1>1, <1>2 DEF Apart
<1>. QED
    BY <1>3, <1>4 DEF K, R

\* Append adds one element.
LEMMA AppendSet ==
    ASSUME NEW S, NEW s \in Seq(S), NEW e \in S
    PROVE  ToSet(Append(s, e)) = ToSet(s) \cup {e}
PROOF
<1>1. Len(s) \in Nat /\ DOMAIN s = 1..Len(s) /\ DOMAIN Append(s, e) = 1..(Len(s) + 1)
      /\ (\A i \in 1..Len(s) : Append(s, e)[i] = s[i]) /\ Append(s, e)[Len(s) + 1] = e
    BY SeqIs, AppendIs
<1>2. 1..(Len(s) + 1) = (1..Len(s)) \cup {Len(s) + 1}
    BY <1>1
<1>. QED
    BY <1>1, <1>2 DEF ToSet

HotkeyOwners == {hotkeys[k].own : k \in DOMAIN hotkeys}
MenuOwners(menus) == {Items(m) : m \in ToSet(menus)}
MatchOwners(rules) == {r.own : r \in ToSet(rules)}
Others == HotkeyOwners \cup MenuOwners(menu_defs) \cup MatchOwners(window_matches)

\* The owners the property lists are those of the proof.
LEMMA OwnersAre ==
    /\ Owners = Others \cup {Items(mdef)}
    /\ OwnedByHotkeys \cup OwnedByMenus \cup OwnedByMatches = UNION Others
PROOF
<1>1. {Items(menu_defs[i]) : i \in DOMAIN menu_defs} = MenuOwners(menu_defs)
    BY DEF MenuOwners, ToSet
<1>2. {window_matches[i].own : i \in DOMAIN window_matches} = MatchOwners(window_matches)
    BY DEF MatchOwners, ToSet
<1>. QED
    BY <1>1, <1>2 DEF Owners, Others, HotkeyOwners, OwnedByHotkeys, OwnedByMenus, OwnedByMatches

\* The tokens of the line that is parsed, by its number.
LEMMA TokensOf == \A is : Tokens(is) = Of(lineno', is)
PROOF
<1>. QED
    BY DEF Tokens, Token, Of

\* A menu owns its name and what its items own.
LEMMA ItemsAre ==
    /\ Items(NoDef) = {}
    /\ \A t : Items(EmptyMenu(t)) = Tokens({2}) /\ Items(PluginMenu(t)) = {}
    /\ \A m \in MENU : \A item \in ITEM :
          Items([m EXCEPT !.items = Append(@, item)]) = Items(m) \cup item.own
PROOF
<1>1. \A i : i \notin DOMAIN <<>>
    OBVIOUS
<1>2. Items(NoDef) = {}
    BY <1>1 DEF Items, NoDef
<1>3. ASSUME NEW t PROVE Items(EmptyMenu(t)) = Tokens({2}) /\ Items(PluginMenu(t)) = {}
    <2>1. EmptyMenu(t).items = <<>> /\ EmptyMenu(t).own = Tokens({2})
        BY DEF EmptyMenu, NoDef
    <2>2. PluginMenu(t).items = <<>> /\ PluginMenu(t).own = {}
        BY DEF PluginMenu, NoDef
    <2>. QED
        BY <1>1, <2>1, <2>2 DEF Items
<1>4. ASSUME NEW m \in MENU, NEW item \in ITEM
      PROVE  Items([m EXCEPT !.items = Append(@, item)]) = Items(m) \cup item.own
    <2>. DEFINE new == [m EXCEPT !.items = Append(@, item)]
                a == Append(m.items, item)
    <2>1. new.items = a /\ new.own = m.own /\ m.items \in Seq(ITEM)
        BY DEF MENU
    <2>2. ToSet(a) = ToSet(m.items) \cup {item}
        BY <2>1, AppendSet
    <2>3. \A s : UNION {s[i].own : i \in DOMAIN s} = UNION {x.own : x \in ToSet(s)}
        BY DEF ToSet
    <2>4. UNION {x.own : x \in ToSet(a)} = item.own \cup UNION {x.own : x \in ToSet(m.items)}
        BY <2>2
    <2>. HIDE DEF new, a
    <2>5. Items(new) = new.own \cup UNION {x.own : x \in ToSet(new.items)}
        BY <2>3 DEF Items
    <2>6. Items(m) = m.own \cup UNION {x.own : x \in ToSet(m.items)}
        BY <2>3 DEF Items
    <2>7. Items(new) = Items(m) \cup item.own
        BY <2>1, <2>4, <2>5, <2>6
    <2>. QED
        BY <2>7 DEF new
<1>. QED
    BY <1>2, <1>3, <1>4

\* What else may stay, in the lines LS.
Stays(ls, k) ==
    \/ ~View!Good(ls[k])
    \/ ls[k][1] \in {"MATCH", "HOTKEY"} /\ Len(ls[k]) > 6
    \/ /\ ls[k][1] = "HOTKEY"
       /\ \E j \in k + 1 .. Len(ls) :
             View!Good(ls[j]) /\ View!Is(ls[j], "HOTKEY") /\ KeyOf(ls[j]) = KeyOf(ls[k])
KeysAre(ls) ==
    \A key \in DOMAIN hotkeys : \E k \in 1..Len(ls) :
        /\ View!Good(ls[k]) /\ View!Is(ls[k], "HOTKEY") /\ KeyOf(ls[k]) = key
        /\ \A x \in hotkeys[key].own : x[1] = k
Held(ls, used) == \A k \in 1..Len(ls) : \A i \in DOMAIN ls[k] : <<k, i>> \in used \/ Stays(ls, k)
OwnInv ==
    /\ Apart(Others, Items(mdef), freed_tokens, lineno)
    /\ mdef.name = Null \/ phase \in {"running", "ended"} => mdef = NoDef
    /\ KeysAre(Now)
    /\ phase # "crashed" => Held(Now, InUse(Others, Items(mdef), freed_tokens))

\* The tokens the property lets stay are those of Stays.
LEMMA StaysIs ==
    ASSUME FileInv, NEW k \in 1..lineno
    PROVE  /\ Texts(k)[k] = Now[k]
           /\ MayStay(k, Now[k]) <=> Stays(Now, k)
PROOF
<1>1. lineno \in Nat /\ Len(Now) = lineno
    BY FileIs
<1>2. ASSUME NEW j \in 1..lineno PROVE Texts(j)[j] = Now[j]
    <2>1. j \in 1..j
        BY <1>1
    <2>. QED
        BY <2>1 DEF Texts, Now
<1>3. \A j \in k + 1 .. lineno : j \in 1..lineno
    BY <1>1
<1>. QED
    BY <1>1, <1>2, <1>3 DEF MayStay, Stays, KeyOf

\* A line does not undo that a token stays, and a hot key replaced lets the old ones stay.
LEMMA StaysMore ==
    ASSUME NEW ls, NEW t, NEW new, More(ls, t, new), NEW k \in 1..Len(ls)
    PROVE  /\ Stays(ls, k) => Stays(new, k)
           /\ ls[k][1] = "HOTKEY" /\ View!Good(t) /\ View!Is(t, "HOTKEY") /\ KeyOf(t) = KeyOf(ls[k]) =>
                 Stays(new, k)
PROOF
<1>1. /\ Len(ls) \in Nat /\ Len(new) = Len(ls) + 1 /\ new[Len(ls) + 1] = t
      /\ \A j \in 1..Len(ls) : new[j] = ls[j]
    BY DEF More
<1>2. (\A j \in k + 1 .. Len(ls) : j \in 1..Len(ls) /\ j \in k + 1 .. Len(new))
      /\ Len(ls) + 1 \in k + 1 .. Len(new)
    BY <1>1
<1>3. ASSUME ls[k][1] = "HOTKEY", NEW j \in k + 1 .. Len(ls),
             View!Good(ls[j]), View!Is(ls[j], "HOTKEY"), KeyOf(ls[j]) = KeyOf(ls[k])
      PROVE  Stays(new, k)
    <2>1. j \in k + 1 .. Len(new) /\ new[j] = ls[j] /\ new[k] = ls[k]
        BY <1>1, <1>2
    <2>. QED
        BY <1>3, <2>1 DEF Stays
<1>4. ASSUME ls[k][1] = "HOTKEY", View!Good(t), View!Is(t, "HOTKEY"), KeyOf(t) = KeyOf(ls[k])
      PROVE  Stays(new, k)
    BY <1>1, <1>2, <1>4 DEF Stays
<1>5. ASSUME ~View!Good(ls[k]) \/ (ls[k][1] \in {"MATCH", "HOTKEY"} /\ Len(ls[k]) > 6)
      PROVE  Stays(new, k)
    BY <1>1, <1>5 DEF Stays
<1>. QED
    BY <1>3, <1>4, <1>5 DEF Stays

\* Without a hot key or a match only menus can become owners.
LEMMA OthersKept ==
    ASSUME UNCHANGED <<hotkeys, window_matches>>
    PROVE  /\ Others' = HotkeyOwners \cup MenuOwners(menu_defs') \cup MatchOwners(window_matches)
           /\ menu_defs' = menu_defs => Others' = Others
PROOF
<1>1. HotkeyOwners' = HotkeyOwners
    BY DEF HotkeyOwners
<1>. QED
    BY <1>1 DEF Others

\* A menu more is an owner more.
LEMMA MenuOwnersMore ==
    ASSUME Types, NEW m \in MENU
    PROVE  MenuOwners(Append(menu_defs, m)) = MenuOwners(menu_defs) \cup {Items(m)}
PROOF
<1>1. ToSet(Append(menu_defs, m)) = ToSet(menu_defs) \cup {m}
    BY AppendSet DEF Types
<1>. QED
    BY <1>1 DEF MenuOwners

\* wrap_up_vec hands the menu being defined over to the list of menus.
LEMMA OwnersWrapped ==
    ASSUME Types, mdef.name = Null => mdef = NoDef, menu_defs' = wrap_up_vec,
           UNCHANGED <<hotkeys, window_matches>>,
           NEW n, Apart(Others, Items(mdef), freed_tokens, n)
    PROVE  /\ Apart(Others', {}, freed_tokens, n)
           /\ UNION Others' = Items(mdef) \cup UNION Others
PROOF
<1>1. Others' = HotkeyOwners \cup MenuOwners(menu_defs') \cup MatchOwners(window_matches)
    BY OthersKept
<1>2. CASE mdef.name = Null
    <2>1. Items(mdef) = {} /\ menu_defs' = menu_defs
        BY <1>2, ItemsAre DEF wrap_up_vec
    <2>2. Others' = Others
        BY <2>1, OthersKept
    <2>. QED
        BY <2>1, <2>2
<1>3. CASE mdef.name # Null
    <2>1. menu_defs' = Append(menu_defs, mdef) /\ mdef \in MENU
        BY <1>3 DEF wrap_up_vec, Types
    <2>2. Others' = Others \cup {Items(mdef)}
        BY <1>1, <2>1, MenuOwnersMore DEF Others
    <2>. QED
        BY <2>2, ApartWrapped
<1>. QED
    BY <1>2, <1>3

\* A line that is done with frees what it says.
LEMMA FreedMore ==
    ASSUME NEW frees, Done(frees)
    PROVE  freed_tokens' = freed_tokens \cup Of(lineno', frees)
PROOF
<1>. QED
    BY TokensOf DEF Done

\* What the line T does with tokens, when they are in order before.
InUseNow == InUse(Others, Items(mdef), freed_tokens)
Ordered(n) ==
    /\ Apart(Others, Items(mdef), freed_tokens, n)
    /\ mdef.name = Null => mdef = NoDef
OwnsAll(t) == \A i \in DOMAIN t : <<lineno', i>> \in InUseNow' \/ (t[1] \in {"MATCH", "HOTKEY"} /\ Len(t) > 6)
LosesNone == InUseNow \subseteq InUseNow'

\* Nothing is made, or something the menu keeps.
LEMMA OwnDone ==
    ASSUME lineno \in Nat, lineno' = lineno + 1, Ordered(lineno),
           NEW frees \in SUBSET (1..MAX_TOKENS), NEW keeps \in SUBSET (1..MAX_TOKENS), keeps \cap frees = {},
           freed_tokens' = freed_tokens \cup Of(lineno', frees),
           Items(mdef') = Items(mdef) \cup Of(lineno', keeps),
           Others' \subseteq Others \cup {{}}, Others \subseteq Others',
           mdef'.name = Null => mdef' = NoDef
    PROVE  /\ Ordered(lineno)' /\ LosesNone
           /\ \A i \in keeps \cup frees : <<lineno', i>> \in InUseNow'
PROOF
<1>0. Apart(Others, Items(mdef) \cup Of(lineno + 1, keeps), freed_tokens \cup Of(lineno + 1, frees),
            lineno + 1)
    BY ApartMore DEF Ordered
<1>1. Apart(Others, Items(mdef'), freed_tokens', lineno')
    BY <1>0
<1>2. Apart(Others', Items(mdef'), freed_tokens', lineno')
    BY <1>1, ApartFewer
<1>3. LosesNone
    BY DEF LosesNone, InUseNow, InUse
<1>4. \A i \in keeps \cup frees : <<lineno', i>> \in InUseNow'
    BY DEF InUseNow, InUse, Of
<1>. QED
    BY <1>2, <1>3, <1>4 DEF Ordered

\* A hot key or a match is made.
LEMMA OwnMade ==
    ASSUME lineno \in Nat, lineno' = lineno + 1, Ordered(lineno),
           NEW frees \in SUBSET (1..MAX_TOKENS), NEW keeps \in SUBSET (1..MAX_TOKENS), keeps \cap frees = {},
           freed_tokens' = freed_tokens \cup Of(lineno', frees), mdef' = mdef,
           Others' \subseteq Others \cup {Of(lineno', keeps)}, Of(lineno', keeps) \in Others'
    PROVE  /\ Ordered(lineno)'
           /\ \A i \in keeps \cup frees : <<lineno', i>> \in InUseNow'
PROOF
<1>1. Apart(Others \cup {Of(lineno', keeps)}, Items(mdef), freed_tokens', lineno')
    BY ApartMore DEF Ordered
<1>2. Apart(Others', Items(mdef), freed_tokens', lineno')
    BY <1>1, ApartFewer
<1>4. ASSUME NEW i \in keeps \cup frees PROVE <<lineno', i>> \in InUseNow'
    <2>1. CASE i \in keeps
        <3>1. <<lineno', i>> \in Of(lineno', keeps)
            BY <2>1 DEF Of
        <3>. QED
            BY <3>1 DEF InUseNow, InUse
    <2>2. CASE i \in frees
        <3>1. <<lineno', i>> \in Of(lineno', frees)
            BY <2>2 DEF Of
        <3>. QED
            BY <3>1 DEF InUseNow, InUse
    <2>. QED
        BY <2>1, <2>2
<1>. QED
    BY <1>2, <1>4 DEF Ordered

\* A menu is begun, and the one before it is complete.
LEMMA OwnMenu ==
    ASSUME lineno \in Nat, lineno' = lineno + 1, Ordered(lineno), Types, menu_defs' = wrap_up_vec,
           UNCHANGED <<hotkeys, window_matches>>,
           NEW frees \in SUBSET (1..MAX_TOKENS), NEW keeps \in SUBSET (1..MAX_TOKENS), keeps \cap frees = {},
           freed_tokens' = freed_tokens \cup Of(lineno', frees),
           Items(mdef') = Of(lineno', keeps), mdef'.name = Null => mdef' = NoDef
    PROVE  /\ Ordered(lineno)' /\ LosesNone
           /\ \A i \in keeps \cup frees : <<lineno', i>> \in InUseNow'
PROOF
<1>1. Apart(Others', {}, freed_tokens, lineno) /\ UNION Others' = Items(mdef) \cup UNION Others
    BY OwnersWrapped DEF Ordered
<1>2. Apart(Others', {} \cup Of(lineno', keeps), freed_tokens', lineno')
    BY <1>1, ApartMore
<1>3. {} \cup Of(lineno', keeps) = Items(mdef')
    OBVIOUS
<1>4. LosesNone
    BY <1>1 DEF LosesNone, InUseNow, InUse
<1>5. \A i \in keeps \cup frees : <<lineno', i>> \in InUseNow'
    BY DEF InUseNow, InUse, Of
<1>. QED
    BY <1>2, <1>3, <1>4, <1>5 DEF Ordered

Replaces(t) ==
    /\ HotkeyLine(t)
    /\ \A x \in InUseNow : \/ x \in InUseNow'
                           \/ KeyOf(t) \in DOMAIN hotkeys /\ x \in hotkeys[KeyOf(t)].own
OwnsLine(t) ==
    /\ Ordered(lineno)' /\ (LosesNone \/ Replaces(t))
    /\ View!Good(t) => OwnsAll(t) \/ phase' = "crashed"

\* Every line leaves the tokens in order, and only a hot key replaced loses some.
LEMMA OwnLine ==
    ASSUME NEW t, Reading(t), Types, Ordered(lineno)
    PROVE  OwnsLine(t)
PROOF
<1>1. /\ lineno \in Nat /\ lineno' = lineno + 1 /\ t \in LINE /\ parse_context_menu(t)
      /\ MAX_TOKENS = 10
    BY DEF Reading, MAX_TOKENS
<1>2. /\ Len(t) \in Nat /\ Len(t) <= 10 /\ DOMAIN t = 1..Len(t) /\ \A i \in 1..Len(t) : t[i] # Null
    BY <1>1, LineIs
<1>3. {} \in SUBSET (1..MAX_TOKENS) /\ Of(lineno', {}) = {}
    BY DEF Of
<1>4. mdef.name = Null => mdef = NoDef
    BY DEF Ordered
<1>5. \A c \in DOMAIN Arity : c \notin {"HOTKEY", "MATCH"}
    BY TypesAre
\* Nothing changes but some tokens are freed.
<1>6. ASSUME NEW frees \in SUBSET (1..MAX_TOKENS), freed_tokens' = freed_tokens \cup Of(lineno', frees),
             mdef' = mdef, Others' \subseteq Others \cup {{}}, Others \subseteq Others',
             View!Good(t) => DOMAIN t \subseteq frees \/ phase' = "crashed"
      PROVE  OwnsLine(t)
    <2>1. Items(mdef') = Items(mdef) \cup Of(lineno', {})
        BY <1>3, <1>6
    <2>2. /\ Ordered(lineno)' /\ LosesNone
          /\ \A i \in {} \cup frees : <<lineno', i>> \in InUseNow'
        <3>1. {} \cap frees = {} /\ (mdef'.name = Null => mdef' = NoDef)
            BY <1>4, <1>6
        <3>. QED
            BY <1>1, <1>3, <1>6, <2>1, <3>1, OwnDone
    <2>. QED
        BY <1>6, <2>2 DEF OwnsLine, OwnsAll
<1>10. CASE BadLine(t)
    <2>1. freed_tokens' = freed_tokens \cup Of(lineno', {}) /\ ~View!Good(t) /\ t # <<>>
          /\ UNCHANGED <<hotkeys, window_matches>>
        BY <1>3, <1>10 DEF BadLine, config_error
    <2>2. CASE t[1] = "CONTEXTMENU"
        <3>1. menu_defs' = wrap_up_vec /\ mdef' = NoDef
            BY <1>10, <2>2 DEF BadLine
        <3>2. Items(mdef') = Of(lineno', {})
            BY <1>3, <3>1, ItemsAre
        <3>3. Ordered(lineno)' /\ LosesNone
            BY <1>1, <1>3, <2>1, <3>1, <3>2, OwnMenu
        <3>. QED
            BY <2>1, <3>3 DEF OwnsLine
    <2>3. CASE t[1] # "CONTEXTMENU"
        <3>1. menu_defs' = menu_defs /\ mdef' = mdef
            BY <1>10, <2>3 DEF BadLine
        <3>2. Others' = Others
            BY <2>1, <3>1, OthersKept
        <3>. QED
            BY <1>3, <1>6, <2>1, <3>1, <3>2
    <2>. QED
        BY <2>2, <2>3
<1>11. CASE FatalLine(t)
    <2>1. freed_tokens' = freed_tokens \cup Of(lineno', {}) /\ phase' = "crashed" /\ mdef' = mdef
          /\ UNCHANGED <<hotkeys, window_matches, menu_defs>>
        BY <1>3, <1>11 DEF FatalLine, Crash, config
    <2>2. Others' = Others
        BY <2>1, OthersKept
    <2>. QED
        BY <1>3, <1>6, <2>1, <2>2
<1>12. CASE EmptyLine(t)
    <2>1. freed_tokens' = freed_tokens \cup Of(lineno', {}) /\ mdef' = mdef
          /\ UNCHANGED <<hotkeys, window_matches, menu_defs>>
        BY <1>12, FreedMore DEF EmptyLine, config
    <2>2. Others' = Others
        BY <2>1, OthersKept
    <2>3. DOMAIN t \subseteq {}
        BY <1>12 DEF EmptyLine
    <2>. QED
        BY <1>3, <1>6, <2>1, <2>2, <2>3
<1>13. CASE MenuLine(t)
    <2>1. freed_tokens' = freed_tokens \cup Of(lineno', {1}) /\ menu_defs' = wrap_up_vec
          /\ UNCHANGED <<hotkeys, window_matches>> /\ mdef' = EmptyMenu(t) /\ Len(t) = 2
        BY <1>13, FreedMore DEF MenuLine
    <2>2. Items(mdef') = Of(lineno', {2})
        BY <2>1, ItemsAre, TokensOf
    <2>3. t[2] # Null /\ mdef'.name = t[2]
        BY <1>2, <2>1 DEF EmptyMenu, NoDef
    <2>4. {1} \in SUBSET (1..MAX_TOKENS) /\ {2} \in SUBSET (1..MAX_TOKENS) /\ {2} \cap {1} = {}
        BY <1>1
    <2>5. /\ Ordered(lineno)' /\ LosesNone
          /\ \A i \in {2} \cup {1} : <<lineno', i>> \in InUseNow'
        BY <1>1, <2>1, <2>2, <2>3, <2>4, OwnMenu
    <2>6. \A i \in DOMAIN t : i \in {2} \cup {1}
        BY <1>2, <2>1
    <2>. QED
        BY <2>5, <2>6 DEF OwnsLine, OwnsAll
<1>14. CASE ItemLine(t)
    <2>1. freed_tokens' = freed_tokens \cup Of(lineno', {1})
          /\ UNCHANGED <<hotkeys, window_matches, menu_defs>> /\ mdef.name # Null
          /\ mdef' = [mdef EXCEPT !.items = Append(@, NewItem(t))] /\ mdef \in MENU
        BY <1>14, FreedMore DEF ItemLine, Types
    <2>2. Items(mdef') = Items(mdef) \cup Of(lineno', 2..Len(t))
        <3>1. t # <<>>
            <4>1. Len(t) \in 1..5
                BY <1>14, TypesAre DEF ItemLine
            <4>2. t # <<>> <=> 1 <= Len(t)
                BY <1>1, LineIs
            <4>. QED
                BY <4>1, <4>2
        <3>2. NewItem(t) \in ITEM
            <4>1. lineno' \in Nat
                BY <1>1
            <4>2. t[1] \in TEXT /\ Tail(t) \in Seq(TEXT)
                <5>1. t \in Seq(TEXTS)
                    BY <1>1, LineIs
                <5>2. Tail(t) \in Seq(TEXTS) /\ 1 \in 1..Len(t)
                    BY <1>1, <3>1, <5>1, HeadTailProperties, LineIs
                <5>3. Len(Tail(t)) \in Nat /\ Tail(t) \in [1..Len(Tail(t)) -> TEXTS]
                    BY <5>2, SeqIs
                <5>4. Tail(t) \in [1..Len(Tail(t)) -> TEXT]
                    BY <5>3, TextIs
                <5>5. Tail(t) \in Seq(TEXT)
                    BY <5>3, <5>4, SeqDef
                <5>6. t[1] \in TEXTS
                    BY <1>1, <5>2, LineIs
                <5>. QED
                    BY <5>5, <5>6, TextIs
            <4>3. Tokens(2..Len(t)) \in SUBSET TOKENS
                <5>1. 2..Len(t) \in SUBSET Nat
                    BY <1>2
                <5>. QED
                    BY <4>1, <5>1, TokensAre
            <4>. QED
                BY <4>2, <4>3 DEF NewItem, Built, ITEM
        <3>3. NewItem(t).own = Of(lineno', 2..Len(t))
            BY TokensOf DEF NewItem, Built
        <3>. QED
            BY <2>1, <3>2, <3>3, ItemsAre
    <2>3. mdef'.name # Null
        BY <2>1 DEF MENU
    <2>4. {1} \in SUBSET (1..MAX_TOKENS) /\ 2..Len(t) \in SUBSET (1..MAX_TOKENS) /\ (2..Len(t)) \cap {1} = {}
        BY <1>1, <1>2
    <2>5. Others' = Others
        BY <2>1, OthersKept
    <2>6. /\ Ordered(lineno)' /\ LosesNone
          /\ \A i \in (2..Len(t)) \cup {1} : <<lineno', i>> \in InUseNow'
        BY <1>1, <2>1, <2>2, <2>3, <2>4, <2>5, OwnDone
    <2>7. \A i \in DOMAIN t : i \in (2..Len(t)) \cup {1}
        BY <1>2
    <2>. QED
        BY <2>6, <2>7 DEF OwnsLine, OwnsAll
<1>15. CASE SaferLine(t)
    <2>1. freed_tokens' = freed_tokens \cup Of(lineno', {1, 2, 3}) /\ mdef' = mdef
          /\ UNCHANGED <<hotkeys, window_matches, menu_defs>> /\ Len(t) = 3
        BY <1>15, FreedMore DEF SaferLine
    <2>2. {1, 2, 3} \in SUBSET (1..MAX_TOKENS) /\ DOMAIN t \subseteq {1, 2, 3}
        BY <1>1, <1>2, <2>1
    <2>. QED
        BY <1>6, <2>1, <2>2, OthersKept
<1>16. CASE SlitLine(t)
    <2>1. freed_tokens' = freed_tokens \cup Of(lineno', DOMAIN t) /\ mdef' = mdef
          /\ UNCHANGED <<hotkeys, window_matches, menu_defs>>
        BY <1>16, FreedMore DEF SlitLine
    <2>2. DOMAIN t \in SUBSET (1..MAX_TOKENS)
        BY <1>1, <1>2
    <2>. QED
        BY <1>6, <2>1, <2>2, OthersKept
<1>17. CASE SetLine(t)
    <2>1. freed_tokens' = freed_tokens \cup Of(lineno', 1..4) /\ mdef' = mdef
          /\ UNCHANGED <<hotkeys, window_matches, menu_defs>> /\ Len(t) = 4
        BY <1>17, FreedMore DEF SetLine
    <2>2. 1..4 \in SUBSET (1..MAX_TOKENS) /\ DOMAIN t \subseteq 1..4
        BY <1>1, <1>2, <2>1
    <2>. QED
        BY <1>6, <2>1, <2>2, OthersKept
<1>18. CASE LoadLine(t)
    <2>1. freed_tokens' = freed_tokens \cup Of(lineno', {1, 2}) /\ mdef' = mdef
          /\ UNCHANGED <<hotkeys, window_matches>> /\ Len(t) = 2
        BY <1>18, FreedMore DEF LoadLine
    <2>2. {1, 2} \in SUBSET (1..MAX_TOKENS) /\ DOMAIN t \subseteq {1, 2}
        BY <1>1, <1>2, <2>1
    <2>3. Others' \subseteq Others \cup {{}} /\ Others \subseteq Others'
        <3>1. CASE menu_defs' = menu_defs
            BY <2>1, <3>1, OthersKept
        <3>2. CASE menu_defs' # menu_defs
            <4>1. menu_defs' = Append(menu_defs, PluginMenu(t)) /\ t[2] \in DOMAIN Plugins
                BY <1>18, <3>2 DEF LoadLine
            <4>2. PluginMenu(t) \in MENU
                <5>1. lineno' \in Nat
                    BY <1>1
                <5>. QED
                    BY <1>1, <1>18, <4>1, <5>1, NewTypes
            <4>3. MenuOwners(menu_defs') = MenuOwners(menu_defs) \cup {{}}
                BY <4>1, <4>2, MenuOwnersMore, ItemsAre
            <4>. QED
                BY <2>1, <4>3, OthersKept DEF Others
        <3>. QED
            BY <3>1, <3>2
    <2>. QED
        BY <1>6, <2>1, <2>2, <2>3
<1>19. CASE MatchLine(t)
    <2>. DEFINE keeps == {2, 3, 5, 6} \cap DOMAIN t
    <2>1. freed_tokens' = freed_tokens \cup Of(lineno', {1, 4}) /\ mdef' = mdef
          /\ UNCHANGED <<hotkeys, menu_defs>> /\ Len(t) >= 5 /\ t[1] = "MATCH"
          /\ window_matches' = Append(window_matches, NewMatch(t))
        BY <1>19, FreedMore DEF MatchLine
    <2>2. keeps \in SUBSET (1..MAX_TOKENS) /\ {1, 4} \in SUBSET (1..MAX_TOKENS) /\ keeps \cap {1, 4} = {}
        BY <1>1, <1>2
    <2>3. NewMatch(t) \in RULE /\ NewMatch(t).own = Of(lineno', keeps)
        <3>1. lineno' \in Nat
            BY <1>1
        <3>2. NewMatch(t) \in RULE
            BY <1>1, <1>19, <3>1, NewTypes
        <3>. QED
            BY <3>2, TokensOf DEF NewMatch
    <2>4. MatchOwners(window_matches') = MatchOwners(window_matches) \cup {Of(lineno', keeps)}
        <3>1. ToSet(window_matches') = ToSet(window_matches) \cup {NewMatch(t)}
            BY <2>1, <2>3, AppendSet DEF Types
        <3>. QED
            BY <2>3, <3>1 DEF MatchOwners
    <2>5. Others' = Others \cup {Of(lineno', keeps)}
        <3>1. HotkeyOwners' = HotkeyOwners /\ MenuOwners(menu_defs)' = MenuOwners(menu_defs)
            BY <2>1 DEF HotkeyOwners
        <3>. QED
            BY <2>4, <3>1 DEF Others
    <2>6. \A i \in DOMAIN t : i \in keeps \cup {1, 4} \/ Len(t) > 6
        BY <1>2
    <2>. HIDE DEF keeps
    <2>7. Ordered(lineno)' /\ \A i \in keeps \cup {1, 4} : <<lineno', i>> \in InUseNow'
        BY <1>1, <2>1, <2>2, <2>5, OwnMade
    <2>8. LosesNone
        BY <2>1, <2>5 DEF LosesNone, InUseNow, InUse
    <2>. QED
        BY <2>1, <2>6, <2>7, <2>8 DEF OwnsLine, OwnsAll
<1>20. CASE HotkeyLine(t)
    <2>. DEFINE keeps == HotkeyKeeps(t)
    <2>1. freed_tokens' = freed_tokens \cup Of(lineno', {2, 3, 4}) /\ mdef' = mdef
          /\ UNCHANGED <<window_matches, menu_defs>> /\ Len(t) >= 5 /\ t[1] = "HOTKEY"
          /\ hotkeys' = [k \in DOMAIN hotkeys \cup {KeyOf(t)} |->
                            IF k = KeyOf(t) THEN NewHotkey(t) ELSE hotkeys[k]]
        BY <1>20, FreedMore DEF HotkeyLine
    <2>2. /\ keeps \in SUBSET (1..MAX_TOKENS) /\ {2, 3, 4} \in SUBSET (1..MAX_TOKENS)
          /\ keeps \cap {2, 3, 4} = {}
        BY <1>1, <1>2 DEF HotkeyKeeps
    <2>3. NewHotkey(t).own = Of(lineno', keeps)
        BY TokensOf DEF NewHotkey, Built
    <2>4. \A i \in DOMAIN t : i \in keeps \cup {2, 3, 4} \/ Len(t) > 6
        BY <1>2 DEF HotkeyKeeps
    <2>. HIDE DEF keeps
    <2>5. HotkeyOwners' \subseteq HotkeyOwners \cup {Of(lineno', keeps)} /\ Of(lineno', keeps) \in HotkeyOwners'
        BY <2>1, <2>3 DEF HotkeyOwners
    <2>6. MenuOwners(menu_defs)' = MenuOwners(menu_defs) /\ MatchOwners(window_matches)' = MatchOwners(window_matches)
        BY <2>1
    <2>7. Others' \subseteq Others \cup {Of(lineno', keeps)} /\ Of(lineno', keeps) \in Others'
        BY <2>5, <2>6 DEF Others
    <2>8. Ordered(lineno)' /\ \A i \in keeps \cup {2, 3, 4} : <<lineno', i>> \in InUseNow'
        BY <1>1, <2>1, <2>2, <2>7, OwnMade
    <2>9. ASSUME NEW x \in InUseNow, x \notin InUseNow'
          PROVE  KeyOf(t) \in DOMAIN hotkeys /\ x \in hotkeys[KeyOf(t)].own
        <3>1. x \in UNION Others /\ x \notin UNION Others'
            BY <2>1, <2>9 DEF InUseNow, InUse
        <3>2. x \in UNION HotkeyOwners /\ x \notin UNION HotkeyOwners'
            BY <2>6, <3>1 DEF Others
        <3>3. PICK k \in DOMAIN hotkeys : x \in hotkeys[k].own
            BY <3>2 DEF HotkeyOwners
        <3>4. k # KeyOf(t) => hotkeys'[k].own \in HotkeyOwners' /\ hotkeys'[k] = hotkeys[k]
            BY <2>1 DEF HotkeyOwners
        <3>. QED
            BY <3>2, <3>3, <3>4
    <2>10. Replaces(t)
        BY <1>20, <2>9 DEF Replaces
    <2>. QED
        BY <2>1, <2>4, <2>8, <2>10 DEF OwnsLine, OwnsAll
<1>. QED
    BY <1>1, <1>10, <1>11, <1>12, <1>13, <1>14, <1>15, <1>16, <1>17, <1>18, <1>19, <1>20, Effects DEF GoodLine

\* The tokens stay in order, whatever is read.
LEMMA OwnRead ==
    ASSUME NEW t, FileInv, FileInv', Reading(t), Types, OwnInv
    PROVE  OwnInv'
PROOF
<1>. DEFINE new == Now'
            n == lineno + 1
<1>1. /\ phase = "parsing" /\ lineno \in Nat /\ lineno' = n /\ t \in LINE /\ parse_context_menu(t)
      /\ Len(Now) = lineno /\ More(Now, t, new)
    BY MoreIs DEF Reading
<1>2. /\ Len(new) = n /\ DOMAIN Now = 1..lineno /\ new[n] = t /\ \A k \in 1..lineno : new[k] = Now[k]
      /\ 1..n = (1..lineno) \cup {n} /\ \A k \in 1..lineno : k \in 1..n
    <2>1. 1..n = (1..lineno) \cup {n}
        BY <1>1
    <2>. QED
        BY <1>1, <2>1 DEF More
<1>3. Ordered(lineno) /\ KeysAre(Now) /\ Held(Now, InUseNow)
    BY <1>1 DEF OwnInv, Ordered, InUseNow
<1>4. OwnsLine(t)
    BY <1>3, OwnLine
<1>5. \A k \in 1..lineno :
        /\ Stays(Now, k) => Stays(new, k)
        /\ Now[k][1] = "HOTKEY" /\ View!Good(t) /\ View!Is(t, "HOTKEY") /\ KeyOf(t) = KeyOf(Now[k]) =>
              Stays(new, k)
    BY <1>1, StaysMore
<1>. HIDE DEF new, n
<1>6. KeysAre(Now)'
    <2>1. \A key \in DOMAIN hotkeys : \E k \in 1..Len(new) :
            /\ View!Good(new[k]) /\ View!Is(new[k], "HOTKEY") /\ KeyOf(new[k]) = key
            /\ \A x \in hotkeys[key].own : x[1] = k
        BY <1>1, <1>2, <1>3 DEF KeysAre
    <2>2. CASE HotkeyLine(t)
        <3>1. /\ hotkeys' = [k \in DOMAIN hotkeys \cup {KeyOf(t)} |->
                                IF k = KeyOf(t) THEN NewHotkey(t) ELSE hotkeys[k]]
              /\ t[1] = "HOTKEY" /\ Len(t) >= 5 /\ t[4] \in {"Func", "Execute"}
            BY <2>2 DEF HotkeyLine
        <3>2. t # <<>>
            <4>1. Len(t) \in Nat /\ (t # <<>> <=> 1 <= Len(t))
                BY <1>1, LineIs
            <4>. QED
                BY <3>1, <4>1
        <3>3. View!Good(t) /\ View!Is(t, "HOTKEY")
            BY <1>1, <3>1, <3>2, GoodLines DEF View!Is
        <3>4. \A x \in NewHotkey(t).own : x[1] = n
            BY <1>1, TokensOf DEF NewHotkey, Built, Of
        <3>5. ASSUME NEW key \in DOMAIN hotkeys'
              PROVE  \E k \in 1..Len(new) :
                        /\ View!Good(new[k]) /\ View!Is(new[k], "HOTKEY") /\ KeyOf(new[k]) = key
                        /\ \A x \in hotkeys'[key].own : x[1] = k
            <4>1. CASE key = KeyOf(t)
                <5>1. hotkeys'[key] = NewHotkey(t) /\ n \in 1..Len(new) /\ new[n] = t
                    BY <1>2, <3>1, <4>1
                <5>. QED
                    BY <3>3, <3>4, <4>1, <5>1
            <4>2. CASE key # KeyOf(t)
                <5>1. hotkeys'[key] = hotkeys[key] /\ key \in DOMAIN hotkeys
                    BY <3>1, <4>2
                <5>. QED
                    BY <2>1, <5>1
            <4>. QED
                BY <4>1, <4>2
        <3>. QED
            BY <3>5 DEF KeysAre, new
    <2>3. CASE ~HotkeyLine(t)
        <3>1. hotkeys' = hotkeys
            BY <1>1, <2>3, Effects DEF BadLine, FatalLine, EmptyLine, GoodLine, MenuLine, ItemLine,
                SaferLine, SlitLine, LoadLine, MatchLine, SetLine, config
        <3>. QED
            BY <2>1, <3>1 DEF KeysAre, new
    <2>. QED
        BY <2>2, <2>3
<1>7. ASSUME phase' # "crashed" PROVE Held(new, InUseNow')
    <2>1. ASSUME NEW i \in DOMAIN t PROVE <<n, i>> \in InUseNow' \/ Stays(new, n)
        <3>1. CASE View!Good(t)
            <4>1. <<lineno', i>> \in InUseNow' \/ (t[1] \in {"MATCH", "HOTKEY"} /\ Len(t) > 6)
                BY <1>4, <1>7, <2>1, <3>1 DEF OwnsLine, OwnsAll
            <4>. QED
                BY <1>1, <1>2, <4>1 DEF Stays
        <3>2. CASE ~View!Good(t)
            BY <1>2, <3>2 DEF Stays
        <3>. QED
            BY <3>1, <3>2
    <2>2. ASSUME NEW k \in 1..lineno, NEW i \in DOMAIN Now[k]
          PROVE  <<k, i>> \in InUseNow' \/ Stays(new, k)
        <3>1. <<k, i>> \in InUseNow \/ Stays(Now, k)
            BY <1>1, <1>3, <2>2 DEF Held
        <3>2. CASE Stays(Now, k)
            BY <1>5, <2>2, <3>2
        <3>3. CASE <<k, i>> \in InUseNow /\ <<k, i>> \notin InUseNow'
            <4>1. HotkeyLine(t) /\ KeyOf(t) \in DOMAIN hotkeys /\ <<k, i>> \in hotkeys[KeyOf(t)].own
                BY <1>4, <3>3 DEF OwnsLine, LosesNone, Replaces
            <4>2. PICK j \in 1..Len(Now) :
                    /\ View!Good(Now[j]) /\ View!Is(Now[j], "HOTKEY") /\ KeyOf(Now[j]) = KeyOf(t)
                    /\ \A x \in hotkeys[KeyOf(t)].own : x[1] = j
                BY <1>3, <4>1 DEF KeysAre
            <4>3. j = k
                <5>1. (<<k, i>>)[1] = j
                    BY <4>1, <4>2
                <5>. QED
                    BY <5>1
            <4>4. View!Good(t) /\ View!Is(t, "HOTKEY")
                <5>1. t[1] = "HOTKEY" /\ Len(t) >= 5 /\ t[4] \in {"Func", "Execute"}
                    BY <4>1 DEF HotkeyLine
                <5>2. Len(t) \in Nat /\ (t # <<>> <=> 1 <= Len(t))
                    BY <1>1, LineIs
                <5>3. t # <<>>
                    BY <5>1, <5>2
                <5>. QED
                    BY <1>1, <5>1, <5>3, GoodLines DEF View!Is
            <4>. QED
                BY <1>5, <2>2, <4>2, <4>3, <4>4 DEF View!Is
        <3>. QED
            BY <3>1, <3>2, <3>3
    <2>3. ASSUME NEW k \in 1..Len(new), NEW i \in DOMAIN new[k]
          PROVE  <<k, i>> \in InUseNow' \/ Stays(new, k)
        <3>1. CASE k = n
            BY <1>2, <2>1, <2>3, <3>1
        <3>2. CASE k \in 1..lineno
            <4>1. new[k] = Now[k]
                BY <1>2, <3>2
            <4>. QED
                BY <2>2, <2>3, <3>2, <4>1
        <3>. QED
            BY <1>2, <3>1, <3>2
    <2>. QED
        BY <2>3 DEF Held
<1>8. mdef'.name = Null \/ phase' \in {"running", "ended"} => mdef' = NoDef
    <2>1. phase' \notin {"running", "ended"}
        BY <1>1, Effects, GoodLinesDo DEF BadLine, config_error, FatalLine, Crash, EmptyLine, Done, GoodOf
    <2>. QED
        BY <1>4, <2>1 DEF OwnsLine, Ordered
<1>9. Apart(Others, Items(mdef), freed_tokens, lineno)'
    BY <1>4 DEF OwnsLine, Ordered
<1>. QED
    BY <1>6, <1>7, <1>8, <1>9 DEF OwnInv, InUseNow, new

-----------------------------------------------------------------------------
(* Look-ups.  F tells what the entries at I of a list are, and G what the   *)
(* lines at V say: the first ones agree, or all of them.                   *)
FirstAgree(I, f, V, g) ==
    /\ I = {} <=> V = {}
    /\ I # {} => f[Min(I)] = g[Min(V)]
AllAgree(I, f, V, g) ==
    /\ Cardinality(I) = Cardinality(V)
    /\ \A c \in 1..Cardinality(I) : f[NthOf(I, c)] = g[NthOf(V, c)]
\* The entries and the lines grow by one each, or the lines by one that is not about them.
Grow(m, I, f, I2, f2, n, V, g, V2, g2) ==
    /\ m \in Nat /\ I \subseteq 1..m /\ \A i \in 1..m : f2[i] = f[i]
    /\ n \in Nat /\ V \subseteq 1..n /\ \A k \in 1..n : g2[k] = g[k]
    /\ \/ I2 = I /\ V2 = V
       \/ I2 = I \cup {m + 1} /\ V2 = V \cup {n + 1} /\ f2[m + 1] = g2[n + 1]

\* The least of one.
LEMMA LeastOne == ASSUME NEW n \in Nat PROVE Min({n}) = n
PROOF
<1>1. Min({n}) \in {n}
    BY Least
<1>. QED
    BY <1>1

\* First entries and first lines agree as the lines grow.
LEMMA FirstMore ==
    ASSUME NEW m, NEW I, NEW f, NEW I2, NEW f2, NEW n, NEW V, NEW g, NEW V2, NEW g2,
           Grow(m, I, f, I2, f2, n, V, g, V2, g2), FirstAgree(I, f, V, g)
    PROVE  FirstAgree(I2, f2, V2, g2)
PROOF
<1>1. m \in Nat /\ n \in Nat /\ I \in SUBSET (1..m) /\ V \in SUBSET (1..n)
      /\ (\A i \in 1..m : f2[i] = f[i]) /\ \A k \in 1..n : g2[k] = g[k]
    BY DEF Grow
<1>2. I # {} => Min(I) \in 1..m
    <2>1. I \in SUBSET Nat
        BY <1>1
    <2>2. I # {} => Min(I) \in I
        BY <2>1, Least
    <2>. QED
        BY <1>1, <2>2
<1>3. V # {} => Min(V) \in 1..n
    <2>1. V \in SUBSET Nat
        BY <1>1
    <2>2. V # {} => Min(V) \in V
        BY <2>1, Least
    <2>. QED
        BY <1>1, <2>2
<1>4. CASE I2 = I /\ V2 = V
    BY <1>1, <1>2, <1>3, <1>4 DEF FirstAgree
<1>5. CASE I2 = I \cup {m + 1} /\ V2 = V \cup {n + 1} /\ f2[m + 1] = g2[n + 1]
    <2>1. CASE I = {}
        <3>1. I2 = {m + 1} /\ V2 = {n + 1}
            BY <1>5, <2>1 DEF FirstAgree
        <3>2. Min(I2) = m + 1 /\ Min(V2) = n + 1
            <4>1. m + 1 \in Nat /\ n + 1 \in Nat
                BY <1>1
            <4>2. Min({m + 1}) = m + 1 /\ Min({n + 1}) = n + 1
                BY <4>1, LeastOne
            <4>. QED
                BY <3>1, <4>2
        <3>. QED
            BY <1>5, <3>1, <3>2 DEF FirstAgree
    <2>2. CASE I # {}
        <3>1. V # {} /\ f[Min(I)] = g[Min(V)]
            BY <2>2 DEF FirstAgree
        <3>2. Min(I2) = Min(I) /\ Min(V2) = Min(V)
            BY <1>1, <1>5, <2>2, <3>1, LeastStays
        <3>. QED
            BY <1>1, <1>2, <1>3, <1>5, <2>2, <3>1, <3>2 DEF FirstAgree
    <2>. QED
        BY <2>1, <2>2
<1>. QED
    BY <1>4, <1>5 DEF Grow

\* All entries and all lines agree as the lines grow.
LEMMA AllMore ==
    ASSUME NEW m, NEW I, NEW f, NEW I2, NEW f2, NEW n, NEW V, NEW g, NEW V2, NEW g2,
           Grow(m, I, f, I2, f2, n, V, g, V2, g2), AllAgree(I, f, V, g)
    PROVE  AllAgree(I2, f2, V2, g2)
PROOF
<1>1. m \in Nat /\ n \in Nat /\ I \in SUBSET (1..m) /\ V \in SUBSET (1..n)
      /\ (\A i \in 1..m : f2[i] = f[i]) /\ \A k \in 1..n : g2[k] = g[k]
    BY DEF Grow
<1>. DEFINE c == Cardinality(I)
<1>2. c \in Nat /\ Cardinality(V) = c
      /\ Cardinality(I \cup {m + 1}) = c + 1 /\ Cardinality(V \cup {n + 1}) = c + 1
    <2>1. c \in Nat /\ Cardinality(I \cup {m + 1}) = c + 1
        BY <1>1, PlacesAre
    <2>2. Cardinality(V \cup {n + 1}) = Cardinality(V) + 1
        BY <1>1, PlacesAre
    <2>3. Cardinality(V) = c
        BY DEF AllAgree
    <2>. QED
        BY <2>1, <2>2, <2>3
<1>3. \A i \in 1..c : NthOf(I, i) \in I /\ NthOf(V, i) \in V /\ f[NthOf(I, i)] = g[NthOf(V, i)]
    BY <1>1, <1>2, NthIs DEF AllAgree
<1>4. /\ \A i \in 1..c : NthOf(I \cup {m + 1}, i) = NthOf(I, i) /\ NthOf(V \cup {n + 1}, i) = NthOf(V, i)
      /\ NthOf(I \cup {m + 1}, c + 1) = m + 1 /\ NthOf(V \cup {n + 1}, c + 1) = n + 1
    <2>1. /\ \A i \in 1..Cardinality(I) : NthOf(I \cup {m + 1}, i) = NthOf(I, i)
          /\ NthOf(I \cup {m + 1}, Cardinality(I) + 1) = m + 1
        BY <1>1, NthNew
    <2>2. /\ \A i \in 1..Cardinality(V) : NthOf(V \cup {n + 1}, i) = NthOf(V, i)
          /\ NthOf(V \cup {n + 1}, Cardinality(V) + 1) = n + 1
        BY <1>1, NthNew
    <2>. QED
        BY <1>2, <2>1, <2>2
<1>. HIDE DEF c
<1>5. \A i \in 1..c : f2[NthOf(I, i)] = g2[NthOf(V, i)]
    BY <1>1, <1>3
<1>6. CASE I2 = I /\ V2 = V
    BY <1>2, <1>5, <1>6 DEF AllAgree, c
<1>7. CASE I2 = I \cup {m + 1} /\ V2 = V \cup {n + 1} /\ f2[m + 1] = g2[n + 1]
    <2>1. \A i \in 1..(c + 1) : i \in 1..c \/ i = c + 1
        BY <1>2
    <2>2. \A i \in 1..(c + 1) : f2[NthOf(I2, i)] = g2[NthOf(V2, i)]
        BY <1>4, <1>5, <1>7, <2>1
    <2>. QED
        BY <1>2, <1>7, <2>2 DEF AllAgree
<1>. QED
    BY <1>6, <1>7 DEF Grow

\* RulesView counts as Rules does.
LEMMA ViewsAre ==
    /\ \A S : View!Cardinality(S) = Cardinality(S)
    /\ \A S, n : View!NthOf(S, n) = NthOf(S, n)
PROOF
<1>1. \A S : View!Cardinality(S) = Cardinality(S)
    BY DEF Cardinality, View!Cardinality
<1>2. \A S, i : View!Rank(S, i) = Rank(S, i)
    BY <1>1 DEF View!Rank, Rank
<1>. QED
    BY <1>1, <1>2 DEF View!NthOf, NthOf

\* The earliest line is the least of them.
LEMMA EarliestIsMin ==
    ASSUME NEW I \in SUBSET Nat, I # {}
    PROVE  View!Earliest(I) = Min(I)
PROOF
<1>. QED
    BY EarliestIs, LeastIs

\* A line more is the latest.
LEMMA LatestMore ==
    ASSUME NEW n \in Nat, NEW S \in SUBSET (1..n)
    PROVE  View!Latest(S \cup {n + 1}) = n + 1
PROOF
<1>. DEFINE T == S \cup {n + 1}
<1>1. n + 1 \in Nat /\ T \in SUBSET (1..(n + 1)) /\ n + 1 \in T /\ \A k \in 1..n : k < n + 1
    OBVIOUS
<1>. HIDE DEF T
<1>2. View!Latest(T) \in T /\ n + 1 <= View!Latest(T)
    BY <1>1, LatestIs
<1>3. View!Latest(T) \in 1..(n + 1)
    BY <1>1, <1>2
<1>4. View!Latest(T) = n + 1
    BY <1>1, <1>2, <1>3
<1>. QED
    BY <1>4 DEF T

-----------------------------------------------------------------------------
(* What the line T changes of the configuration, when the program goes on.  *)
IsGood(t, c) == View!Is(t, c) /\ View!Good(t)
Changes(t) ==
    /\ IF IsGood(t, "SaferExec") THEN SaferLine(t) ELSE safer_matches' = safer_matches
    /\ IF IsGood(t, "MATCH") THEN MatchLine(t) ELSE window_matches' = window_matches
    /\ IF IsGood(t, "HOTKEY") THEN HotkeyLine(t) ELSE hotkeys' = hotkeys
    /\ IF IsGood(t, "SET") THEN SetLine(t)
       ELSE /\ core_config' = core_config
            /\ IF IsGood(t, "SLIT") THEN SlitLine(t) ELSE slits' = slits
            /\ IF IsGood(t, "LOAD") THEN LoadLine(t) ELSE plugins' = plugins
    /\ IF View!Is(t, "CONTEXTMENU")
       THEN menu_defs' = wrap_up_vec /\ mdef' = IF View!Good(t) THEN EmptyMenu(t) ELSE NoDef
       ELSE /\ IF IsGood(t, "LOAD") THEN LoadLine(t) ELSE menu_defs' = menu_defs
            /\ IF View!IsItem(t) THEN ItemLine(t) ELSE mdef' = mdef

\* What each part of the configuration becomes at a line.
LEMMA ChangesAre ==
    ASSUME NEW t \in LINE, parse_context_menu(t), phase' # "crashed"
    PROVE  Changes(t)
PROOF
<1>0. \A c \in DOMAIN Arity : c \notin {"CONTEXTMENU", "SaferExec", "HOTKEY", "SLIT", "LOAD", "MATCH", "SET"}
    BY TypesAre
<1>1. View!IsItem(t) <=> t # <<>> /\ t[1] \in DOMAIN Arity /\ View!Good(t)
    BY TypesAre DEF View!IsItem
<1>2. \A c : View!Is(t, c) <=> t # <<>> /\ t[1] = c
    BY DEF View!Is
<1>3. CASE BadLine(t)
    BY <1>1, <1>2, <1>3 DEF BadLine, Changes, IsGood
<1>4. CASE EmptyLine(t)
    BY <1>1, <1>2, <1>4 DEF EmptyLine, config, Changes, IsGood
<1>5. CASE GoodLine(t)
    <2>0. t # <<>> /\ View!Good(t)
        BY <1>5 DEF GoodLine
    <2>1. CASE MenuLine(t)
        BY <1>0, <1>1, <1>2, <2>0, <2>1 DEF MenuLine, Changes, IsGood
    <2>2. CASE ItemLine(t)
        <3>1. t[1] \in DOMAIN Arity
            BY <2>2 DEF ItemLine
        <3>2. /\ \A c \in {"CONTEXTMENU", "SaferExec", "HOTKEY", "SLIT", "LOAD", "MATCH", "SET"} : ~View!Is(t, c)
              /\ View!IsItem(t)
            BY <1>0, <1>1, <1>2, <2>0, <3>1
        <3>3. UNCHANGED <<menu_defs, safer_matches, window_matches, hotkeys, slits, plugins, core_config>>
            BY <2>2 DEF ItemLine
        <3>. QED
            BY <2>2, <3>2, <3>3 DEF Changes, IsGood
    <2>3. CASE SaferLine(t)
        BY <1>0, <1>1, <1>2, <2>0, <2>3 DEF SaferLine, Changes, IsGood
    <2>4. CASE HotkeyLine(t)
        <3>1. t[1] = "HOTKEY" /\ UNCHANGED <<menu_defs, mdef, safer_matches, window_matches, slits, plugins, core_config>>
            BY <2>4 DEF HotkeyLine
        <3>. QED
            BY <1>0, <1>1, <1>2, <2>0, <2>4, <3>1 DEF Changes, IsGood
    <2>5. CASE SlitLine(t)
        BY <1>0, <1>1, <1>2, <2>0, <2>5 DEF SlitLine, Changes, IsGood
    <2>6. CASE LoadLine(t)
        <3>1. t[1] = "LOAD" /\ UNCHANGED <<mdef, safer_matches, window_matches, hotkeys, slits, core_config>>
            BY <2>6 DEF LoadLine
        <3>. QED
            BY <1>0, <1>1, <1>2, <2>0, <2>6, <3>1 DEF Changes, IsGood
    <2>7. CASE MatchLine(t)
        BY <1>0, <1>1, <1>2, <2>0, <2>7 DEF MatchLine, Changes, IsGood
    <2>8. CASE SetLine(t)
        <3>1. t[1] = "SET" /\ UNCHANGED <<menu_defs, mdef, safer_matches, window_matches, hotkeys>>
            BY <2>8 DEF SetLine
        <3>. QED
            BY <1>0, <1>1, <1>2, <2>0, <2>8, <3>1 DEF Changes, IsGood
    <2>. QED
        BY <1>5, <2>1, <2>2, <2>3, <2>4, <2>5, <2>6, <2>7, <2>8 DEF GoodLine
<1>. QED
    BY <1>3, <1>4, <1>5, Effects DEF FatalLine, Crash

-----------------------------------------------------------------------------
(* Programs.                                                               *)
SafersFor(c) == {i \in DOMAIN safer_matches : c \in Patterns[safer_matches[i].re]}
SaferLevels == [i \in DOMAIN safer_matches |-> safer_matches[i].level]
SaferLines(ls, c) == {k \in View!Lines(ls, "SaferExec") : c \in Patterns[ls[k][3]]}
LinesLevels(ls) == [k \in DOMAIN ls |-> Level(ls[k][2])]
ProgramInv == \A c : FirstAgree(SafersFor(c), SaferLevels, SaferLines(Now, c), LinesLevels(Now))

\* SaferExec: the first pattern that matches a program stays the one of the lines.
LEMMA ProgramRead ==
    ASSUME NEW t, Reading(t), Types, ProgramInv, phase' # "crashed"
    PROVE  ProgramInv'
PROOF
<1>. DEFINE new == Now'
            n == lineno
            m == Len(safer_matches)
<1>1. /\ n \in Nat /\ t \in LINE /\ Len(Now) = n /\ More(Now, t, new) /\ Changes(t)
    BY MoreIs, ChangesAre DEF Reading
<1>2. /\ DOMAIN Now = 1..n /\ DOMAIN new = (1..n) \cup {n + 1} /\ new[n + 1] = t
      /\ \A k \in 1..n : new[k] = Now[k]
    BY <1>1 DEF More
<1>3. /\ View!Lines(new, "SaferExec") = With(View!Lines(Now, "SaferExec"), n + 1, IsGood(t, "SaferExec"))
      /\ View!Lines(Now, "SaferExec") \subseteq 1..n
    BY <1>1, MoreLines DEF IsGood
<1>4. m \in Nat /\ DOMAIN safer_matches = 1..m
    BY SeqIs DEF Types
<1>5. \A c : SafersFor(c) \subseteq 1..m /\ SaferLines(Now, c) \subseteq 1..n
    BY <1>3, <1>4 DEF SafersFor, SaferLines
<1>6. \A k \in 1..n : LinesLevels(new)[k] = LinesLevels(Now)[k]
    BY <1>2 DEF LinesLevels
<1>7. \A c : SaferLines(new, c) = With(SaferLines(Now, c), n + 1, IsGood(t, "SaferExec") /\ c \in Patterns[t[3]])
    BY <1>2, <1>3 DEF SaferLines, With
<1>. HIDE DEF new, m, n
<1>8. ASSUME NEW c
      PROVE  Grow(m, SafersFor(c), SaferLevels, SafersFor(c)', SaferLevels',
                  n, SaferLines(Now, c), LinesLevels(Now), SaferLines(new, c), LinesLevels(new))
    <2>1. CASE IsGood(t, "SaferExec")
        <3>1. SaferLine(t) /\ safer_matches' = Append(safer_matches, NewSafer(t))
            BY <1>1, <2>1 DEF Changes, SaferLine
        <3>2. NewSafer(t) \in [level : TEXT, re : DOMAIN Patterns]
            <4>1. lineno' \in Nat
                BY DEF Reading
            <4>. QED
                BY <1>1, <3>1, <4>1, NewTypes
        <3>3. /\ DOMAIN safer_matches' = 1..(m + 1) /\ \A i \in 1..m : safer_matches'[i] = safer_matches[i]
              /\ safer_matches'[m + 1] = NewSafer(t)
            BY <3>1, <3>2, AppendIs DEF Types, m
        <3>4. /\ NewSafer(t).re = t[3] /\ NewSafer(t).level = Level(t[2])
              /\ 1..(m + 1) = (1..m) \cup {m + 1}
            BY <1>4 DEF NewSafer
        <3>5. SafersFor(c)' = With(SafersFor(c), m + 1, c \in Patterns[t[3]])
            BY <1>4, <3>3, <3>4 DEF SafersFor, With
        <3>6. /\ \A i \in 1..m : SaferLevels'[i] = SaferLevels[i]
              /\ SaferLevels'[m + 1] = Level(t[2]) /\ LinesLevels(new)[n + 1] = Level(t[2])
            BY <1>2, <1>4, <3>3, <3>4 DEF SaferLevels, LinesLevels
        <3>. QED
            BY <1>1, <1>4, <1>5, <1>6, <1>7, <2>1, <3>5, <3>6 DEF Grow, With
    <2>2. CASE ~IsGood(t, "SaferExec")
        <3>1. safer_matches' = safer_matches
            BY <1>1, <2>2 DEF Changes
        <3>2. SafersFor(c)' = SafersFor(c) /\ SaferLevels' = SaferLevels
            BY <3>1 DEF SafersFor, SaferLevels
        <3>. QED
            BY <1>1, <1>4, <1>5, <1>6, <1>7, <2>2, <3>2 DEF Grow, With
    <2>. QED
        BY <2>1, <2>2
<1>9. ASSUME NEW c PROVE FirstAgree(SafersFor(c)', SaferLevels', SaferLines(new, c), LinesLevels(new))
    BY <1>8, FirstMore DEF ProgramInv
<1>. QED
    BY <1>9 DEF ProgramInv, new

\* core_execute runs a program at the level the lines say.
LEMMA ProgramsRun ==
    ASSUME ProgramInv, Types, Now \in Seq(LINE)
    PROVE  \A c : core_execute(c) = View!Program(Now, c)
PROOF
<1>1. SUFFICES ASSUME NEW c PROVE core_execute(c) = View!Program(Now, c)
    OBVIOUS
<1>2. FirstAgree(SafersFor(c), SaferLevels, SaferLines(Now, c), LinesLevels(Now))
    BY DEF ProgramInv
<1>3. /\ DOMAIN safer_matches = 1..Len(safer_matches) /\ DOMAIN Now = 1..Len(Now)
      /\ Len(safer_matches) \in Nat /\ Len(Now) \in Nat
    BY SeqIs DEF Types
<1>4. SafersFor(c) \in SUBSET Nat /\ SaferLines(Now, c) \in SUBSET Nat
      /\ SafersFor(c) \subseteq DOMAIN safer_matches /\ SaferLines(Now, c) \subseteq DOMAIN Now
    BY <1>3 DEF SafersFor, SaferLines, View!Lines
<1>5. CASE SafersFor(c) = {}
    BY <1>2, <1>5 DEF FirstAgree, SafersFor, SaferLines, core_execute, View!Program
<1>6. CASE SafersFor(c) # {}
    <2>1. SaferLines(Now, c) # {} /\ SaferLevels[Min(SafersFor(c))] = LinesLevels(Now)[Min(SaferLines(Now, c))]
        BY <1>2, <1>6 DEF FirstAgree
    <2>2. Min(SafersFor(c)) \in DOMAIN safer_matches /\ Min(SaferLines(Now, c)) \in DOMAIN Now
        BY <1>4, <1>6, <2>1, Least
    <2>3. View!Earliest(SaferLines(Now, c)) = Min(SaferLines(Now, c))
        BY <1>4, <2>1, EarliestIsMin
    <2>4. safer_matches[Min(SafersFor(c))].level = Level(Now[Min(SaferLines(Now, c))][2])
        BY <2>1, <2>2 DEF SaferLevels, LinesLevels
    <2>5. core_execute(c) = <<safer_matches[Min(SafersFor(c))].level>>
        BY <1>6 DEF core_execute, SafersFor
    <2>6. View!Program(Now, c) = <<Level(Now[View!Earliest(SaferLines(Now, c))][2])>>
        BY <2>1 DEF View!Program, SaferLines
    <2>. QED
        BY <2>3, <2>4, <2>5, <2>6
<1>. QED
    BY <1>5, <1>6

-----------------------------------------------------------------------------
(* Windows.                                                                *)
MatchesFor(w) == {i \in DOMAIN window_matches : Applies(window_matches[i], w)}
MatchFuncs == [i \in DOMAIN window_matches |-> <<window_matches[i].func, window_matches[i].arg>>]
MatchLines(ls, w) ==
    {k \in View!Lines(ls, "MATCH") : /\ ls[k][2] = "CREATE"
                                     /\ ls[k][3] \in DOMAIN NewWindows[w]
                                     /\ NewWindows[w][ls[k][3]] \in Patterns[ls[k][4]]}
FuncOf(t) == <<t[5], IF Len(t) = 5 THEN Null ELSE t[6]>>
LinesFuncs(ls) == [k \in DOMAIN ls |-> FuncOf(ls[k])]
WindowInv ==
    \A w \in DOMAIN NewWindows : AllAgree(MatchesFor(w), MatchFuncs, MatchLines(Now, w), LinesFuncs(Now))
MatchesOf(t, w) == /\ t[2] = "CREATE" /\ t[3] \in DOMAIN NewWindows[w]
                   /\ NewWindows[w][t[3]] \in Patterns[t[4]]

\* MATCH: the patterns that match a window stay those of the lines, in their order.
LEMMA WindowRead ==
    ASSUME NEW t, Reading(t), Types, WindowInv, phase' # "crashed"
    PROVE  WindowInv'
PROOF
<1>. DEFINE new == Now'
            n == lineno
            m == Len(window_matches)
<1>1. /\ n \in Nat /\ t \in LINE /\ Len(Now) = n /\ More(Now, t, new) /\ Changes(t)
    BY MoreIs, ChangesAre DEF Reading
<1>2. /\ DOMAIN Now = 1..n /\ DOMAIN new = (1..n) \cup {n + 1} /\ new[n + 1] = t
      /\ \A k \in 1..n : new[k] = Now[k]
    BY <1>1 DEF More
<1>3. /\ View!Lines(new, "MATCH") = With(View!Lines(Now, "MATCH"), n + 1, IsGood(t, "MATCH"))
      /\ View!Lines(Now, "MATCH") \subseteq 1..n
    BY <1>1, MoreLines DEF IsGood
<1>4. m \in Nat /\ DOMAIN window_matches = 1..m
    BY SeqIs DEF Types
<1>5. \A w : MatchesFor(w) \subseteq 1..m /\ MatchLines(Now, w) \subseteq 1..n
    BY <1>3, <1>4 DEF MatchesFor, MatchLines
<1>6. (\A k \in 1..n : LinesFuncs(new)[k] = LinesFuncs(Now)[k]) /\ LinesFuncs(new)[n + 1] = FuncOf(t)
    BY <1>2 DEF LinesFuncs
<1>7. \A w : MatchLines(new, w) = With(MatchLines(Now, w), n + 1, IsGood(t, "MATCH") /\ MatchesOf(t, w))
    BY <1>2, <1>3 DEF MatchLines, MatchesOf, With
<1>. HIDE DEF new, m, n
<1>8. ASSUME NEW w \in DOMAIN NewWindows
      PROVE  Grow(m, MatchesFor(w), MatchFuncs, MatchesFor(w)', MatchFuncs',
                  n, MatchLines(Now, w), LinesFuncs(Now), MatchLines(new, w), LinesFuncs(new))
    <2>1. CASE IsGood(t, "MATCH")
        <3>1. MatchLine(t) /\ window_matches' = Append(window_matches, NewMatch(t)) /\ Len(t) >= 5
            BY <1>1, <2>1 DEF Changes, MatchLine
        <3>2. NewMatch(t) \in RULE
            <4>1. lineno' \in Nat
                BY DEF Reading
            <4>. QED
                BY <1>1, <3>1, <4>1, NewTypes
        <3>3. /\ DOMAIN window_matches' = 1..(m + 1) /\ \A i \in 1..m : window_matches'[i] = window_matches[i]
              /\ window_matches'[m + 1] = NewMatch(t)
            BY <3>1, <3>2, AppendIs DEF Types, m
        <3>4. 1..(m + 1) = (1..m) \cup {m + 1}
            BY <1>4
        <3>5. Applies(NewMatch(t), w) <=> MatchesOf(t, w)
            BY RulesAssumption DEF Applies, MatchesOf, NewMatch
        <3>6. <<NewMatch(t).func, NewMatch(t).arg>> = FuncOf(t)
            <4>1. At(t, 6) = IF 6 <= Len(t) THEN t[6] ELSE Null
                BY <1>1, AtType
            <4>2. Len(t) \in Nat
                BY <1>1, LineIs
            <4>3. (6 <= Len(t)) <=> (Len(t) # 5)
                <5>1. \A x \in Nat : x >= 5 => ((6 <= x) <=> (x # 5))
                    OBVIOUS
                <5>. QED
                    BY <3>1, <4>2, <5>1
            <4>. QED
                BY <4>1, <4>3 DEF NewMatch, FuncOf
        <3>7. MatchesFor(w)' = With(MatchesFor(w), m + 1, MatchesOf(t, w))
            BY <1>4, <3>3, <3>4, <3>5 DEF MatchesFor, With
        <3>8. (\A i \in 1..m : MatchFuncs'[i] = MatchFuncs[i]) /\ MatchFuncs'[m + 1] = FuncOf(t)
            BY <1>4, <3>3, <3>4, <3>6 DEF MatchFuncs
        <3>. QED
            BY <1>1, <1>4, <1>5, <1>6, <1>7, <2>1, <3>7, <3>8 DEF Grow, With
    <2>2. CASE ~IsGood(t, "MATCH")
        <3>1. window_matches' = window_matches
            BY <1>1, <2>2 DEF Changes
        <3>2. MatchesFor(w)' = MatchesFor(w) /\ MatchFuncs' = MatchFuncs
            BY <3>1 DEF MatchesFor, MatchFuncs
        <3>. QED
            BY <1>1, <1>4, <1>5, <1>6, <1>7, <2>2, <3>2 DEF Grow, With
    <2>. QED
        BY <2>1, <2>2
<1>9. ASSUME NEW w \in DOMAIN NewWindows
      PROVE  AllAgree(MatchesFor(w)', MatchFuncs', MatchLines(new, w), LinesFuncs(new))
    BY <1>8, AllMore DEF WindowInv
<1>. QED
    BY <1>9 DEF WindowInv, new

\* apply_window_match calls the functions the lines say, in their order.
LEMMA WindowsMatch ==
    ASSUME WindowInv, Types, Now \in Seq(LINE), NEW w \in DOMAIN NewWindows
    PROVE  apply_window_match(w) = View!Window(Now, w)
PROOF
<1>. DEFINE I == MatchesFor(w)
            V == MatchLines(Now, w)
<1>1. Cardinality(I) = Cardinality(V)
      /\ \A c \in 1..Cardinality(I) : MatchFuncs[NthOf(I, c)] = LinesFuncs(Now)[NthOf(V, c)]
    BY DEF WindowInv, AllAgree
<1>2. /\ DOMAIN window_matches = 1..Len(window_matches) /\ DOMAIN Now = 1..Len(Now)
      /\ Len(window_matches) \in Nat /\ Len(Now) \in Nat
    BY SeqIs DEF Types
<1>3. I \in SUBSET (1..Len(window_matches)) /\ V \in SUBSET (1..Len(Now))
    BY <1>2 DEF MatchesFor, MatchLines, View!Lines
<1>4. \A c \in 1..Cardinality(I) : NthOf(I, c) \in DOMAIN window_matches /\ NthOf(V, c) \in DOMAIN Now
    BY <1>1, <1>2, <1>3, NthIs
<1>5. apply_window_match(w) =
        [c \in 1..Cardinality(I) |-> <<window_matches[NthOf(I, c)].func, window_matches[NthOf(I, c)].arg>>]
    BY DEF apply_window_match, MatchesFor
<1>6. View!Window(Now, w) = [c \in 1..Cardinality(V) |-> FuncOf(Now[NthOf(V, c)])]
    BY ViewsAre DEF View!Window, MatchLines, FuncOf
<1>. HIDE DEF I, V
<1>7. \A c \in 1..Cardinality(I) :
        <<window_matches[NthOf(I, c)].func, window_matches[NthOf(I, c)].arg>> = FuncOf(Now[NthOf(V, c)])
    BY <1>1, <1>4 DEF MatchFuncs, LinesFuncs
<1>. QED
    BY <1>1, <1>5, <1>6, <1>7

-----------------------------------------------------------------------------
(* Hot keys.                                                               *)
KeyLines(ls, key) == {k \in View!Lines(ls, "HOTKEY") : KeyOf(ls[k]) = key}
ActionOf(t) == <<t[4], t[5], IF Len(t) = 5 THEN Null ELSE t[6]>>
Pressed(h) == <<h.kind, h.args[1], h.args[2]>>
HotkeyInv ==
    \A key \in DOMAIN hotkeys :
        /\ key = <<key[1], key[2]>> /\ KeyLines(Now, key) # {}
        /\ Pressed(hotkeys[key]) = ActionOf(Now[View!Latest(KeyLines(Now, key))])

\* HOTKEY: the last line for a key is the one that is registered.
LEMMA HotkeyRead ==
    ASSUME NEW t, Reading(t), HotkeyInv, phase' # "crashed"
    PROVE  HotkeyInv'
PROOF
<1>. DEFINE new == Now'
            n == lineno
<1>1. /\ n \in Nat /\ t \in LINE /\ Len(Now) = n /\ More(Now, t, new) /\ Changes(t)
    BY MoreIs, ChangesAre DEF Reading
<1>2. /\ DOMAIN Now = 1..n /\ DOMAIN new = (1..n) \cup {n + 1} /\ new[n + 1] = t
      /\ \A k \in 1..n : new[k] = Now[k]
    BY <1>1 DEF More
<1>3. /\ View!Lines(new, "HOTKEY") = With(View!Lines(Now, "HOTKEY"), n + 1, IsGood(t, "HOTKEY"))
      /\ View!Lines(Now, "HOTKEY") \subseteq 1..n
    BY <1>1, MoreLines DEF IsGood
<1>4. \A key : KeyLines(new, key) = With(KeyLines(Now, key), n + 1, IsGood(t, "HOTKEY") /\ KeyOf(t) = key)
    BY <1>2, <1>3 DEF KeyLines, With
<1>5. \A key : KeyLines(Now, key) \in SUBSET (1..n)
    BY <1>3 DEF KeyLines
<1>. HIDE DEF new, n
<1>6. ASSUME NEW key \in DOMAIN hotkeys, ~(IsGood(t, "HOTKEY") /\ KeyOf(t) = key)
      PROVE  /\ key = <<key[1], key[2]>> /\ KeyLines(new, key) # {}
             /\ Pressed(hotkeys[key]) = ActionOf(new[View!Latest(KeyLines(new, key))])
    <2>1. KeyLines(new, key) = KeyLines(Now, key)
        BY <1>4, <1>6 DEF With
    <2>2. /\ key = <<key[1], key[2]>> /\ KeyLines(Now, key) # {}
          /\ Pressed(hotkeys[key]) = ActionOf(Now[View!Latest(KeyLines(Now, key))])
        BY DEF HotkeyInv
    <2>3. View!Latest(KeyLines(Now, key)) \in 1..n
        BY <1>1, <1>5, <2>2, LatestIs
    <2>. QED
        BY <1>2, <2>1, <2>2, <2>3
<1>7. CASE IsGood(t, "HOTKEY")
    <2>1. /\ hotkeys' = [k \in DOMAIN hotkeys \cup {KeyOf(t)} |->
                            IF k = KeyOf(t) THEN NewHotkey(t) ELSE hotkeys[k]]
          /\ Len(t) >= 5
        BY <1>1, <1>7 DEF Changes, HotkeyLine
    <2>2. Pressed(NewHotkey(t)) = ActionOf(t)
        <3>1. At(t, 6) = IF 6 <= Len(t) THEN t[6] ELSE Null
            BY <1>1, AtType
        <3>2. Len(t) \in Nat
            BY <1>1, LineIs
        <3>3. (6 <= Len(t)) <=> (Len(t) # 5)
            <4>1. \A x \in Nat : x >= 5 => ((6 <= x) <=> (x # 5))
                OBVIOUS
            <4>. QED
                BY <2>1, <3>2, <4>1
        <3>4. HotkeyArgs(t)[1] = t[5] /\ HotkeyArgs(t)[2] = At(t, 6)
            BY DEF HotkeyArgs
        <3>. QED
            BY <3>1, <3>3, <3>4 DEF Pressed, NewHotkey, Built, ActionOf
    <2>3. KeyLines(new, KeyOf(t)) = KeyLines(Now, KeyOf(t)) \cup {n + 1}
        BY <1>4, <1>7 DEF With
    <2>4. View!Latest(KeyLines(new, KeyOf(t))) = n + 1
        BY <1>1, <1>5, <2>3, LatestMore
    <2>5. KeyOf(t) = <<KeyOf(t)[1], KeyOf(t)[2]>>
        BY DEF KeyOf
    <2>6. ASSUME NEW key \in DOMAIN hotkeys'
          PROVE  /\ key = <<key[1], key[2]>> /\ KeyLines(new, key) # {}
                 /\ Pressed(hotkeys'[key]) = ActionOf(new[View!Latest(KeyLines(new, key))])
        <3>1. CASE key = KeyOf(t)
            <4>1. hotkeys'[key] = NewHotkey(t)
                BY <2>1, <3>1
            <4>. QED
                BY <1>2, <2>2, <2>3, <2>4, <2>5, <3>1, <4>1
        <3>2. CASE key # KeyOf(t)
            <4>1. key \in DOMAIN hotkeys /\ hotkeys'[key] = hotkeys[key]
                BY <2>1, <3>2
            <4>. QED
                BY <1>6, <3>2, <4>1
        <3>. QED
            BY <3>1, <3>2
    <2>. QED
        BY <2>6 DEF HotkeyInv, new
<1>8. CASE ~IsGood(t, "HOTKEY")
    <2>1. hotkeys' = hotkeys
        BY <1>1, <1>8 DEF Changes
    <2>. QED
        BY <1>6, <1>8, <2>1 DEF HotkeyInv, new
<1>. QED
    BY <1>7, <1>8

\* handle_hotkey does what the lines say.
LEMMA HotkeysPressed ==
    ASSUME HotkeyInv, NEW key \in DOMAIN hotkeys
    PROVE  Pressed(hotkeys[key]) = View!Hotkey(Now, key[1], key[2])
PROOF
<1>. DEFINE lines == {k \in View!Lines(Now, "HOTKEY") :
                        resolve_hotkey_modifier(Now[k][2]) = key[1] /\ resolve_hotkey_name(Now[k][3]) = key[2]}
<1>1. /\ key = <<key[1], key[2]>> /\ KeyLines(Now, key) # {}
      /\ Pressed(hotkeys[key]) = ActionOf(Now[View!Latest(KeyLines(Now, key))])
    BY DEF HotkeyInv
<1>2. \A k : KeyOf(Now[k]) = key <=>
        resolve_hotkey_modifier(Now[k][2]) = key[1] /\ resolve_hotkey_name(Now[k][3]) = key[2]
    BY <1>1 DEF KeyOf
<1>3. lines = KeyLines(Now, key)
    BY <1>2 DEF KeyLines
<1>4. View!Hotkey(Now, key[1], key[2]) = IF lines = {} THEN <<"none">> ELSE ActionOf(Now[View!Latest(lines)])
    BY DEF View!Hotkey, ActionOf
<1>. HIDE DEF lines
<1>. QED
    BY <1>1, <1>3, <1>4

-----------------------------------------------------------------------------
(* Settings.                                                               *)
SetsIn(settings, s) == {i \in DOMAIN settings : settings[i].name = s}
SetValues(settings) == [i \in DOMAIN settings |-> settings[i].value]
LoadsOf(ls, of) == {k \in View!Loads(ls) : ls[k][2] = of}
SetLines(ls, of, s) == {k \in View!Lines(ls, "SET") : /\ ls[k][2] = of /\ ls[k][3] = s
                                                      /\ of # "core" => \E j \in LoadsOf(ls, of) : j < k}
LineValues(ls) == [k \in DOMAIN ls |-> ls[k][4]]
SettingsAgree(of, settings, ls) ==
    \A s : FirstAgree(SetsIn(settings, s), SetValues(settings), SetLines(ls, of, s), LineValues(ls))
SetsFor(ls, t, of) == IsGood(t, "SET") /\ t[2] = of /\ (of # "core" => LoadsOf(ls, of) # {})

\* The LOAD lines of a plugin grow by the new one or not at all.
LEMMA LoadsMore ==
    ASSUME NEW ls, NEW t, NEW new, More(ls, t, new)
    PROVE  LET n == Len(ls) + 1 IN
           /\ View!Loads(new) = With(View!Loads(ls), n, IsGood(t, "LOAD") /\ t[2] \in DOMAIN Plugins)
           /\ \A of : LoadsOf(new, of) = With(LoadsOf(ls, of), n,
                                              IsGood(t, "LOAD") /\ t[2] \in DOMAIN Plugins /\ t[2] = of)
           /\ View!Loads(ls) \subseteq 1..Len(ls) /\ \A of : LoadsOf(ls, of) \subseteq 1..Len(ls)
PROOF
<1>. DEFINE n == Len(ls) + 1
<1>1. /\ View!Lines(new, "LOAD") = With(View!Lines(ls, "LOAD"), n, IsGood(t, "LOAD"))
      /\ View!Lines(ls, "LOAD") \subseteq 1..Len(ls)
    BY MoreLines DEF IsGood
<1>2. new[n] = t /\ \A k \in 1..Len(ls) : new[k] = ls[k]
    BY DEF More
<1>. HIDE DEF n
<1>3. View!Loads(new) = With(View!Loads(ls), n, IsGood(t, "LOAD") /\ t[2] \in DOMAIN Plugins)
    BY <1>1, <1>2 DEF View!Loads, With
<1>4. View!Loads(ls) \subseteq 1..Len(ls)
    BY <1>1 DEF View!Loads
<1>5. \A of : LoadsOf(new, of) = With(LoadsOf(ls, of), n,
                                      IsGood(t, "LOAD") /\ t[2] \in DOMAIN Plugins /\ t[2] = of)
    BY <1>2, <1>3, <1>4 DEF LoadsOf, With
<1>6. \A of : LoadsOf(ls, of) \subseteq 1..Len(ls)
    BY <1>4 DEF LoadsOf
<1>. QED
    BY <1>3, <1>4, <1>5, <1>6 DEF n

\* The SET lines of a plugin count from its first LOAD line on.
LEMMA SetLinesMore ==
    ASSUME NEW ls, NEW t, NEW new, More(ls, t, new), NEW of, NEW s
    PROVE  /\ SetLines(new, of, s) = With(SetLines(ls, of, s), Len(ls) + 1, SetsFor(ls, t, of) /\ t[3] = s)
           /\ SetLines(ls, of, s) \subseteq 1..Len(ls)
PROOF
<1>. DEFINE n == Len(ls) + 1
<1>1. /\ View!Lines(new, "SET") = With(View!Lines(ls, "SET"), n, IsGood(t, "SET"))
      /\ View!Lines(ls, "SET") \subseteq 1..Len(ls)
    BY MoreLines DEF IsGood
<1>2. /\ LoadsOf(new, of) = LoadsOf(ls, of) \/ LoadsOf(new, of) = LoadsOf(ls, of) \cup {n}
      /\ LoadsOf(ls, of) \subseteq 1..Len(ls)
    <2>1. /\ LoadsOf(new, of) = With(LoadsOf(ls, of), Len(ls) + 1,
                                     IsGood(t, "LOAD") /\ t[2] \in DOMAIN Plugins /\ t[2] = of)
          /\ LoadsOf(ls, of) \subseteq 1..Len(ls)
        BY LoadsMore
    <2>. QED
        BY <2>1 DEF With
<1>3. /\ Len(ls) \in Nat /\ new[n] = t /\ ~(n < n)
      /\ \A k \in 1..Len(ls) : new[k] = ls[k] /\ ~(n < k) /\ k < n /\ k # n
    <2>1. Len(ls) \in Nat /\ new[n] = t /\ \A k \in 1..Len(ls) : new[k] = ls[k]
        BY DEF More
    <2>2. ~(n < n) /\ \A k \in 1..Len(ls) : ~(n < k) /\ k < n /\ k # n
        BY <2>1
    <2>. QED
        BY <2>1, <2>2
<1>. HIDE DEF n
<1>4. \A k \in 1..Len(ls) : (\E j \in LoadsOf(new, of) : j < k) <=> (\E j \in LoadsOf(ls, of) : j < k)
    BY <1>2, <1>3
<1>5. (\E j \in LoadsOf(new, of) : j < n) <=> LoadsOf(ls, of) # {}
    BY <1>2, <1>3
<1>6. SetLines(new, of, s) = With(SetLines(ls, of, s), n, SetsFor(ls, t, of) /\ t[3] = s)
    BY <1>1, <1>3, <1>4, <1>5 DEF SetLines, With, SetsFor
<1>. QED
    BY <1>1, <1>6 DEF SetLines, n

\* A SET line for a list of settings.
LEMMA SettingsMore ==
    ASSUME NEW ls, NEW t, NEW new, More(ls, t, new), NEW of, NEW settings \in Seq(SETTING),
           SettingsAgree(of, settings, ls), t[3] \in TEXT, t[4] \in TEXT, SetsFor(ls, t, of)
    PROVE  SettingsAgree(of, Append(settings, Setting(t[3], t[4])), new)
PROOF
<1>. DEFINE n == Len(ls)
            m == Len(settings)
            settings2 == Append(settings, Setting(t[3], t[4]))
<1>1. /\ n \in Nat /\ DOMAIN ls = 1..n /\ DOMAIN new = (1..n) \cup {n + 1} /\ new[n + 1] = t
      /\ \A k \in 1..n : new[k] = ls[k]
    BY DEF More
<1>2. m \in Nat /\ DOMAIN settings = 1..m
    BY SeqIs
<1>3. (\A k \in 1..n : LineValues(new)[k] = LineValues(ls)[k]) /\ LineValues(new)[n + 1] = t[4]
    BY <1>1 DEF LineValues
<1>4. \A s : SetsIn(settings, s) \subseteq 1..m
    BY <1>2 DEF SetsIn
<1>5. \A s : /\ SetLines(new, of, s) = With(SetLines(ls, of, s), n + 1, SetsFor(ls, t, of) /\ t[3] = s)
             /\ SetLines(ls, of, s) \subseteq 1..n
    BY SetLinesMore
<1>0. settings2 = Append(settings, Setting(t[3], t[4]))
    OBVIOUS
<1>. HIDE DEF n, m, settings2
<1>6. ASSUME NEW s
      PROVE  Grow(m, SetsIn(settings, s), SetValues(settings), SetsIn(settings2, s), SetValues(settings2),
                  n, SetLines(ls, of, s), LineValues(ls), SetLines(new, of, s), LineValues(new))
    <2>. DEFINE e == Setting(t[3], t[4])
    <2>1. e \in SETTING /\ e.name = t[3] /\ e.value = t[4]
        BY SettingType DEF Setting
    <2>2. /\ DOMAIN settings2 = 1..(m + 1) /\ (\A i \in 1..m : settings2[i] = settings[i])
          /\ settings2[m + 1] = e
        BY <1>0, <2>1, AppendIs DEF m
    <2>3. 1..(m + 1) = (1..m) \cup {m + 1}
        BY <1>2
    <2>. HIDE DEF e
    <2>4. SetsIn(settings2, s) = With(SetsIn(settings, s), m + 1, t[3] = s)
        BY <1>2, <2>1, <2>2, <2>3 DEF SetsIn, With
    <2>5. (\A i \in 1..m : SetValues(settings2)[i] = SetValues(settings)[i])
          /\ SetValues(settings2)[m + 1] = t[4]
        BY <1>2, <2>1, <2>2, <2>3 DEF SetValues
    <2>6. SetLines(new, of, s) = With(SetLines(ls, of, s), n + 1, t[3] = s)
          /\ SetLines(ls, of, s) \subseteq 1..n /\ SetsIn(settings, s) \subseteq 1..m
        BY <1>4, <1>5
    <2>7. CASE t[3] = s
        <3>1. /\ SetsIn(settings2, s) = SetsIn(settings, s) \cup {m + 1}
              /\ SetLines(new, of, s) = SetLines(ls, of, s) \cup {n + 1}
            BY <2>4, <2>6, <2>7 DEF With
        <3>2. SetValues(settings2)[m + 1] = LineValues(new)[n + 1]
            BY <1>3, <2>5
        <3>. QED
            BY <1>1, <1>2, <1>3, <2>5, <2>6, <3>1, <3>2 DEF Grow
    <2>8. CASE t[3] # s
        <3>1. SetsIn(settings2, s) = SetsIn(settings, s) /\ SetLines(new, of, s) = SetLines(ls, of, s)
            BY <2>4, <2>6, <2>8 DEF With
        <3>. QED
            BY <1>1, <1>2, <1>3, <2>5, <2>6, <3>1 DEF Grow
    <2>. QED
        BY <2>7, <2>8
<1>7. ASSUME NEW s
      PROVE  FirstAgree(SetsIn(settings2, s), SetValues(settings2), SetLines(new, of, s), LineValues(new))
    BY <1>6, FirstMore DEF SettingsAgree
<1>. QED
    BY <1>7 DEF SettingsAgree, settings2

\* Without a line for it there is nothing.
LEMMA SettingsNone ==
    ASSUME NEW ls, NEW t, NEW new, More(ls, t, new), NEW of, of # "core", LoadsOf(ls, of) = {}
    PROVE  SettingsAgree(of, <<>>, new)
PROOF
<1>1. \A s : SetsIn(<<>>, s) = {}
    BY DEF SetsIn
<1>2. \A s : SetLines(ls, of, s) = {}
    BY DEF SetLines
<1>3. ~SetsFor(ls, t, of)
    BY DEF SetsFor
<1>4. \A s : SetLines(new, of, s) = {}
    BY <1>2, <1>3, SetLinesMore DEF With
<1>. QED
    BY <1>1, <1>4 DEF SettingsAgree, FirstAgree

\* core_get_plugin_string answers the first SET line, or what the registry has.
LEMMA SettingsFound ==
    ASSUME NEW of, NEW settings \in Seq(SETTING), SettingsAgree(of, settings, Now), Now \in Seq(LINE), NEW s
    PROVE  core_get_plugin_string(of, settings, s) = View!Setting(Now, of, s)
PROOF
<1>. DEFINE I == SetsIn(settings, s)
            V == SetLines(Now, of, s)
<1>1. FirstAgree(I, SetValues(settings), V, LineValues(Now))
    BY DEF SettingsAgree
<1>2. /\ DOMAIN settings = 1..Len(settings) /\ DOMAIN Now = 1..Len(Now)
      /\ Len(settings) \in Nat /\ Len(Now) \in Nat
    BY SeqIs
<1>3. I \in SUBSET Nat /\ V \in SUBSET Nat /\ I \subseteq DOMAIN settings /\ V \subseteq DOMAIN Now
    BY <1>2 DEF SetsIn, SetLines, View!Lines
<1>4. core_get_plugin_string(of, settings, s) =
        IF I # {} THEN settings[Min(I)].value ELSE View!Stored(of, s)
    BY DEF core_get_plugin_string, FirstSet, SetsIn, View!Stored
<1>5. View!Setting(Now, of, s) = IF V # {} THEN Now[View!Earliest(V)][4] ELSE View!Stored(of, s)
    BY DEF View!Setting, SetLines, LoadsOf
<1>. HIDE DEF I, V
<1>6. CASE I = {}
    BY <1>1, <1>4, <1>5, <1>6 DEF FirstAgree
<1>7. CASE I # {}
    <2>1. V # {} /\ SetValues(settings)[Min(I)] = LineValues(Now)[Min(V)]
        BY <1>1, <1>7 DEF FirstAgree
    <2>2. Min(I) \in DOMAIN settings /\ Min(V) \in DOMAIN Now
        BY <1>3, <1>7, <2>1, Least
    <2>3. View!Earliest(V) = Min(V)
        BY <1>3, <2>1, EarliestIsMin
    <2>. QED
        BY <1>4, <1>5, <1>7, <2>1, <2>2, <2>3 DEF SetValues, LineValues
<1>. QED
    BY <1>6, <1>7

\* Nothing more.
LEMMA WithNone == \A S, n, more : ~more => With(S, n, more) = S
PROOF
<1>. QED
    BY DEF With

\* A line that is not for a list of settings.
LEMMA SettingsStay ==
    ASSUME NEW ls, NEW t, NEW new, More(ls, t, new), NEW of, NEW settings \in Seq(SETTING),
           SettingsAgree(of, settings, ls), ~SetsFor(ls, t, of)
    PROVE  SettingsAgree(of, settings, new)
PROOF
<1>. DEFINE n == Len(ls)
            m == Len(settings)
<1>1. /\ n \in Nat /\ DOMAIN ls = 1..n /\ DOMAIN new = (1..n) \cup {n + 1}
      /\ \A k \in 1..n : new[k] = ls[k]
    BY DEF More
<1>2. m \in Nat /\ DOMAIN settings = 1..m
    BY SeqIs
<1>3. \A k \in 1..n : LineValues(new)[k] = LineValues(ls)[k]
    BY <1>1 DEF LineValues
<1>4. \A s : SetsIn(settings, s) \subseteq 1..m
    BY <1>2 DEF SetsIn
<1>5. \A s : SetLines(new, of, s) = SetLines(ls, of, s) /\ SetLines(ls, of, s) \subseteq 1..n
    <2>1. ASSUME NEW s PROVE SetLines(new, of, s) = SetLines(ls, of, s) /\ SetLines(ls, of, s) \subseteq 1..n
        <3>1. /\ SetLines(new, of, s) = With(SetLines(ls, of, s), Len(ls) + 1, SetsFor(ls, t, of) /\ t[3] = s)
              /\ SetLines(ls, of, s) \subseteq 1..Len(ls)
            BY SetLinesMore
        <3>. QED
            BY <3>1, WithNone
    <2>. QED
        BY <2>1
<1>. HIDE DEF n, m
<1>6. ASSUME NEW s
      PROVE  Grow(m, SetsIn(settings, s), SetValues(settings), SetsIn(settings, s), SetValues(settings),
                  n, SetLines(ls, of, s), LineValues(ls), SetLines(new, of, s), LineValues(new))
    BY <1>1, <1>2, <1>3, <1>4, <1>5 DEF Grow
<1>7. ASSUME NEW s
      PROVE  FirstAgree(SetsIn(settings, s), SetValues(settings), SetLines(new, of, s), LineValues(new))
    BY <1>6, FirstMore DEF SettingsAgree
<1>. QED
    BY <1>7 DEF SettingsAgree

CoreInv == SettingsAgree("core", core_config, Now)
Named(x) == {p \in DOMAIN plugins : plugins[p].name = x}
PluginInv ==
    /\ \A x : Named(x) = {} <=> LoadsOf(Now, x) = {}
    /\ \A p \in DOMAIN plugins :
          /\ p = First(plugins[p].name) => SettingsAgree(plugins[p].name, plugins[p].config, Now)
          /\ plugins[p].early = [s \in Plugins[plugins[p].name].early |-> View!Stored(plugins[p].name, s)]

\* The texts of a SET line.
LEMMA LineTexts ==
    ASSUME NEW t \in LINE, Len(t) = 4
    PROVE  t[3] \in TEXT /\ t[4] \in TEXT
PROOF
<1>1. \A i \in 1..Len(t) : t[i] \in TEXTS
    BY LineIs
<1>2. 3 \in 1..Len(t) /\ 4 \in 1..Len(t)
    OBVIOUS
<1>. QED
    BY <1>1, <1>2, TextIs

\* The settings of the core stay those of the lines.
LEMMA CoreRead ==
    ASSUME NEW t, Reading(t), Types, CoreInv, phase' # "crashed"
    PROVE  CoreInv'
PROOF
<1>. DEFINE of == "core"
<1>1. t \in LINE /\ More(Now, t, Now') /\ Changes(t) /\ core_config \in Seq(SETTING)
    BY MoreIs, ChangesAre DEF Reading, Types
<1>2. SetsFor(Now, t, of) <=> IsGood(t, "SET") /\ t[2] = "core"
    BY DEF SetsFor
<1>3. core_config' = IF SetsFor(Now, t, of) THEN Append(core_config, Setting(t[3], t[4])) ELSE core_config
    BY <1>1, <1>2 DEF Changes, SetLine
<1>4. SettingsAgree(of, core_config, Now)
    BY DEF CoreInv
<1>5. SettingsAgree(of, core_config', Now') => CoreInv'
    BY DEF CoreInv
<1>6. IsGood(t, "SET") => t[3] \in TEXT /\ t[4] \in TEXT
    <2>1. IsGood(t, "SET") => Len(t) = 4
        BY <1>1 DEF Changes, SetLine
    <2>. QED
        BY <1>1, <2>1, LineTexts
<1>. HIDE DEF of
<1>7. CASE SetsFor(Now, t, of)
    <2>1. t[3] \in TEXT /\ t[4] \in TEXT
        BY <1>2, <1>6, <1>7
    <2>2. core_config' = Append(core_config, Setting(t[3], t[4]))
        BY <1>3, <1>7
    <2>3. SettingsAgree(of, Append(core_config, Setting(t[3], t[4])), Now')
        BY <1>1, <1>4, <1>7, <2>1, SettingsMore
    <2>. QED
        BY <1>5, <2>2, <2>3
<1>8. CASE ~SetsFor(Now, t, of)
    BY <1>1, <1>3, <1>4, <1>5, <1>8, SettingsStay
<1>. QED
    BY <1>7, <1>8

\* find_plugin finds the plugin that was loaded first.
LEMMA FirstIs ==
    ASSUME Types, NEW x
    PROVE  /\ First(x) = Min(Named(x)) /\ Len(plugins) \in Nat /\ DOMAIN plugins = 1..Len(plugins)
           /\ Named(x) \in SUBSET (1..Len(plugins))
           /\ Named(x) # {} => First(x) \in Named(x)
PROOF
<1>1. Len(plugins) \in Nat /\ DOMAIN plugins = 1..Len(plugins)
    BY SeqIs DEF Types
<1>2. Named(x) \in SUBSET (1..Len(plugins)) /\ Named(x) \in SUBSET Nat
    BY <1>1 DEF Named
<1>3. First(x) = Min(Named(x))
    BY DEF First, Named
<1>. QED
    BY <1>1, <1>2, <1>3, Least

\* A line that loads nothing.
LEMMA PluginSet ==
    ASSUME NEW t, Reading(t), Types, PluginInv, phase' # "crashed",
           ~(IsGood(t, "LOAD") /\ t[2] \in DOMAIN Plugins)
    PROVE  PluginInv'
PROOF
<1>1. t \in LINE /\ More(Now, t, Now') /\ Changes(t) /\ plugins \in Seq(PLUGIN)
    BY MoreIs, ChangesAre DEF Reading, Types
<1>2. Len(plugins) \in Nat /\ DOMAIN plugins = 1..Len(plugins)
    BY SeqIs DEF Types
<1>3. \A x : LoadsOf(Now', x) = LoadsOf(Now, x)
    <2>1. \A x : LoadsOf(Now', x) = With(LoadsOf(Now, x), Len(Now) + 1,
                                         IsGood(t, "LOAD") /\ t[2] \in DOMAIN Plugins /\ t[2] = x)
        BY <1>1, LoadsMore
    <2>. QED
        BY <2>1, WithNone
<1>4. \A p \in DOMAIN plugins : plugins[p] \in PLUGIN /\ plugins[p].name \in DOMAIN Plugins
                                /\ plugins[p].config \in Seq(SETTING) /\ plugins[p].name \notin {"core", "slit"}
    <2>1. plugins \in [1..Len(plugins) -> PLUGIN]
        BY <1>1, SeqIs
    <2>. QED
        BY <1>2, <2>1, RulesAssumption DEF PLUGIN
<1>5. \A x : Named(x) = {} <=> LoadsOf(Now, x) = {}
    BY DEF PluginInv
<1>. DEFINE Keeps(q) ==
        /\ DOMAIN q = DOMAIN plugins
        /\ \A p \in DOMAIN plugins :
              /\ q[p].name = plugins[p].name /\ q[p].early = plugins[p].early
              /\ p = First(plugins[p].name) => SettingsAgree(plugins[p].name, q[p].config, Now')
<1>6. ASSUME Keeps(plugins') PROVE PluginInv'
    <2>1. \A x : Named(x)' = Named(x)
        BY <1>6 DEF Named
    <2>4. \A p \in DOMAIN plugins :
            plugins[p].early = [s \in Plugins[plugins[p].name].early |-> View!Stored(plugins[p].name, s)]
        BY DEF PluginInv
    <2>5. ASSUME NEW p \in DOMAIN plugins'
          PROVE  /\ p = First(plugins[p].name)' => SettingsAgree(plugins'[p].name, plugins'[p].config, Now')
                 /\ plugins'[p].early = [s \in Plugins[plugins'[p].name].early |-> View!Stored(plugins'[p].name, s)]
        <3>1. /\ p \in DOMAIN plugins /\ plugins'[p].name = plugins[p].name /\ plugins'[p].early = plugins[p].early
              /\ p = First(plugins[p].name) => SettingsAgree(plugins[p].name, plugins'[p].config, Now')
            BY <1>6, <2>5
        <3>2. First(plugins[p].name)' = Min({q \in DOMAIN plugins' : plugins'[q].name = plugins'[p].name})
            BY DEF First
        <3>3. First(plugins[p].name) = Min({q \in DOMAIN plugins : plugins[q].name = plugins[p].name})
            BY DEF First
        <3>4. {q \in DOMAIN plugins' : plugins'[q].name = plugins'[p].name}
                = {q \in DOMAIN plugins : plugins[q].name = plugins[p].name}
            BY <1>6, <3>1
        <3>. QED
            BY <2>4, <3>1, <3>2, <3>3, <3>4
    <2>6. \A x : Named(x)' = {} <=> LoadsOf(Now', x) = {}
        BY <1>3, <1>5, <2>1
    <2>. QED
        BY <2>5, <2>6 DEF PluginInv
<1>7. \A p \in DOMAIN plugins : p = First(plugins[p].name) =>
        SettingsAgree(plugins[p].name, plugins[p].config, Now)
    BY DEF PluginInv
<1>8. ASSUME NEW p \in DOMAIN plugins, p = First(plugins[p].name), ~SetsFor(Now, t, plugins[p].name)
      PROVE  SettingsAgree(plugins[p].name, plugins[p].config, Now')
    BY <1>1, <1>4, <1>7, <1>8, SettingsStay
<1>9. CASE ~IsGood(t, "SET")
    <2>1. plugins' = plugins
        BY <1>1, <1>9 DEF Changes, LoadLine, IsGood
    <2>2. \A x : ~SetsFor(Now, t, x)
        BY <1>9 DEF SetsFor
    <2>3. Keeps(plugins')
        BY <1>8, <2>1, <2>2
    <2>. QED
        BY <1>6, <2>3
<1>10. CASE IsGood(t, "SET")
    <2>1. /\ Len(t) = 4
          /\ plugins' = IF t[2] \notin {"slit", "core"} /\ \E p \in DOMAIN plugins : plugins[p].name = t[2]
                        THEN [plugins EXCEPT ![First(t[2])].config = Append(@, Setting(t[3], t[4]))]
                        ELSE plugins
        BY <1>1, <1>10 DEF Changes, SetLine
    <2>2. t[3] \in TEXT /\ t[4] \in TEXT
        BY <1>1, <2>1, LineTexts
    <2>3. CASE t[2] \notin {"slit", "core"} /\ \E p \in DOMAIN plugins : plugins[p].name = t[2]
        <3>1. plugins' = [plugins EXCEPT ![First(t[2])].config = Append(@, Setting(t[3], t[4]))]
            BY <2>1, <2>3
        <3>2. Named(t[2]) # {}
            BY <2>3 DEF Named
        <3>3. First(t[2]) \in DOMAIN plugins /\ plugins[First(t[2])].name = t[2]
            BY <3>2, FirstIs DEF Named
        <3>4. \A x : SetsFor(Now, t, x) <=> x = t[2]
            BY <1>5, <1>10, <2>3, <3>2 DEF SetsFor
        <3>5. ASSUME NEW p \in DOMAIN plugins
              PROVE  /\ plugins'[p].name = plugins[p].name /\ plugins'[p].early = plugins[p].early
                     /\ p = First(plugins[p].name) => SettingsAgree(plugins[p].name, plugins'[p].config, Now')
            <4>1. CASE p = First(t[2])
                <5>1. /\ plugins'[p].name = plugins[p].name /\ plugins'[p].early = plugins[p].early
                      /\ plugins'[p].config = Append(plugins[p].config, Setting(t[3], t[4]))
                    BY <1>4, <3>1, <3>3, <4>1 DEF PLUGIN
                <5>2. SettingsAgree(plugins[p].name, plugins[p].config, Now)
                    BY <1>7, <3>3, <4>1
                <5>3. SetsFor(Now, t, plugins[p].name)
                    BY <3>3, <3>4, <4>1
                <5>4. SettingsAgree(plugins[p].name, plugins'[p].config, Now')
                    <6>1. SettingsAgree(plugins[p].name, Append(plugins[p].config, Setting(t[3], t[4])), Now')
                        BY <1>1, <1>4, <2>2, <5>2, <5>3, SettingsMore
                    <6>. QED
                        BY <5>1, <6>1
                <5>. QED
                    BY <5>1, <5>4
            <4>2. CASE p # First(t[2])
                <5>1. plugins'[p] = plugins[p]
                    BY <3>1, <4>2
                <5>2. p = First(plugins[p].name) => ~SetsFor(Now, t, plugins[p].name)
                    BY <3>4, <4>2
                <5>. QED
                    BY <1>8, <5>1, <5>2
            <4>. QED
                BY <4>1, <4>2
        <3>6. DOMAIN plugins' = DOMAIN plugins
            BY <3>1
        <3>. QED
            BY <1>6, <3>5, <3>6
    <2>4. CASE ~(t[2] \notin {"slit", "core"} /\ \E p \in DOMAIN plugins : plugins[p].name = t[2])
        <3>1. plugins' = plugins
            BY <2>1, <2>4
        <3>2. \A p \in DOMAIN plugins : ~SetsFor(Now, t, plugins[p].name)
            BY <1>4, <2>4 DEF SetsFor
        <3>3. Keeps(plugins')
            BY <1>8, <3>1, <3>2
        <3>. QED
            BY <1>6, <3>3
    <2>. QED
        BY <2>3, <2>4
<1>. QED
    BY <1>9, <1>10

\* A plugin is loaded: it has no settings, but those of one loaded before it.
LEMMA PluginLoad ==
    ASSUME NEW t, Reading(t), Types, PluginInv, phase' # "crashed",
           IsGood(t, "LOAD"), t[2] \in DOMAIN Plugins
    PROVE  PluginInv'
PROOF
<1>. DEFINE m == Len(plugins)
<1>1. /\ t \in LINE /\ More(Now, t, Now') /\ plugins \in Seq(PLUGIN)
      /\ plugins' = Append(plugins, NewPlugin(t)) /\ NewPlugin(t) \in PLUGIN
    <2>1. t \in LINE /\ More(Now, t, Now') /\ Changes(t) /\ plugins \in Seq(PLUGIN) /\ lineno' \in Nat
        BY MoreIs, ChangesAre DEF Reading, Types
    <2>2. ~IsGood(t, "SET")
        BY DEF IsGood, View!Is
    <2>3. LoadLine(t)
        BY <2>1, <2>2 DEF Changes
    <2>4. NewPlugin(t) \in PLUGIN
        BY <2>1, <2>3, NewTypes
    <2>. QED
        BY <2>1, <2>3, <2>4 DEF LoadLine
<1>2. m \in Nat /\ DOMAIN plugins = 1..m
    BY <1>1, SeqIs
<1>3. /\ DOMAIN plugins' = 1..(m + 1) /\ (\A p \in 1..m : plugins'[p] = plugins[p])
      /\ plugins'[m + 1] = NewPlugin(t)
    BY <1>1, AppendIs
<1>4. 1..(m + 1) = (1..m) \cup {m + 1} /\ (\A p \in 1..m : p # m + 1) /\ m + 1 \in Nat
    BY <1>2
<1>. HIDE DEF m
<1>5. \A x : LoadsOf(Now', x) = With(LoadsOf(Now, x), Len(Now) + 1, t[2] = x)
    <2>1. \A x : LoadsOf(Now', x) = With(LoadsOf(Now, x), Len(Now) + 1,
                                         IsGood(t, "LOAD") /\ t[2] \in DOMAIN Plugins /\ t[2] = x)
        BY <1>1, LoadsMore
    <2>. QED
        BY <2>1 DEF With
<1>6. \A x : Named(x)' = With(Named(x), m + 1, t[2] = x) /\ Named(x) \in SUBSET (1..m)
    <2>1. NewPlugin(t).name = t[2]
        BY DEF NewPlugin
    <2>. QED
        BY <1>2, <1>3, <1>4, <2>1 DEF Named, With
<1>7. \A x : Named(x) = {} <=> LoadsOf(Now, x) = {}
    BY DEF PluginInv
<1>8. \A x : Named(x)' = {} <=> LoadsOf(Now', x) = {}
    BY <1>5, <1>6, <1>7 DEF With
<1>9. \A x : ~SetsFor(Now, t, x)
    BY DEF SetsFor, IsGood, View!Is
<1>10. \A p \in 1..m : plugins[p] \in PLUGIN /\ plugins[p].config \in Seq(SETTING)
    <2>1. plugins \in [1..m -> PLUGIN]
        BY <1>1, SeqIs DEF m
    <2>. QED
        BY <2>1 DEF PLUGIN
<1>11. ASSUME NEW p \in DOMAIN plugins'
       PROVE  /\ p = First(plugins[p].name)' => SettingsAgree(plugins'[p].name, plugins'[p].config, Now')
              /\ plugins'[p].early = [s \in Plugins[plugins'[p].name].early |-> View!Stored(plugins'[p].name, s)]
    <2>. DEFINE x == plugins'[p].name
    <2>0. First(plugins[p].name)' = Min({q \in DOMAIN plugins' : plugins'[q].name = x})
        BY DEF First
    <2>1. {q \in DOMAIN plugins' : plugins'[q].name = x} = With(Named(x), m + 1, t[2] = x)
        <3>1. NewPlugin(t).name = t[2]
            BY DEF NewPlugin
        <3>. QED
            BY <1>2, <1>3, <1>4, <3>1 DEF Named, With
    <2>2. CASE p \in 1..m
        <3>1. p \in Named(x) /\ plugins'[p] = plugins[p] /\ p \in DOMAIN plugins
            BY <1>2, <1>3, <2>2 DEF Named
        <3>2. Min(With(Named(x), m + 1, t[2] = x)) = Min(Named(x))
            <4>1. Named(x) # {} /\ Named(x) \in SUBSET (1..m) /\ m \in Nat
                BY <1>2, <1>6, <3>1
            <4>. HIDE DEF x
            <4>2. Min(Named(x) \cup {m + 1}) = Min(Named(x))
                BY <4>1, LeastStays
            <4>. QED
                BY <4>2 DEF With
        <3>3. First(plugins[p].name) = Min(Named(x))
            BY <3>1 DEF First, Named
        <3>4. p = First(plugins[p].name) => SettingsAgree(plugins[p].name, plugins[p].config, Now)
            BY <3>1 DEF PluginInv
        <3>5. p = First(plugins[p].name) => SettingsAgree(plugins[p].name, plugins[p].config, Now')
            BY <1>1, <1>9, <1>10, <2>2, <3>4, SettingsStay
        <3>6. plugins[p].early = [s \in Plugins[plugins[p].name].early |-> View!Stored(plugins[p].name, s)]
            BY <3>1 DEF PluginInv
        <3>. QED
            BY <2>0, <2>1, <3>1, <3>2, <3>3, <3>5, <3>6
    <2>3. CASE p = m + 1
        <3>1. plugins'[p] = NewPlugin(t) /\ x = t[2] /\ plugins'[p].config = <<>>
            BY <1>3, <2>3 DEF NewPlugin
        <3>2. plugins'[p].early = [s \in Plugins[x].early |-> View!Stored(x, s)]
            <4>1. \A s : core_get_plugin_string(t[2], <<>>, s) = View!Stored(t[2], s)
                BY StoredIs
            <4>2. plugins'[p].early = [s \in Plugins[t[2]].early |-> core_get_plugin_string(t[2], <<>>, s)]
                BY <3>1 DEF NewPlugin
            <4>. QED
                BY <3>1, <4>1, <4>2
        <3>3. ASSUME p = First(plugins[p].name)' PROVE SettingsAgree(x, <<>>, Now')
            <4>. HIDE DEF x
            <4>1. p = Min(Named(x) \cup {m + 1})
                BY <2>0, <2>1, <3>1, <3>3 DEF With
            <4>2. Named(x) = {}
                <5>1. Named(x) \in SUBSET (1..m) /\ m \in Nat
                    BY <1>2, <1>6
                <5>2. Named(x) # {} => Min(Named(x) \cup {m + 1}) = Min(Named(x))
                    BY <5>1, LeastStays
                <5>3. Named(x) \in SUBSET Nat
                    BY <5>1
                <5>4. Named(x) # {} => Min(Named(x)) \in Named(x)
                    BY <5>3, Least
                <5>. QED
                    BY <1>4, <2>3, <4>1, <5>1, <5>2, <5>4
            <4>3. x # "core"
                BY <3>1, RulesAssumption
            <4>4. LoadsOf(Now, x) = {}
                BY <1>7, <4>2
            <4>. QED
                BY <1>1, <4>3, <4>4, SettingsNone
        <3>. QED
            BY <3>1, <3>2, <3>3
    <2>. QED
        BY <1>3, <1>4, <2>2, <2>3
<1>. QED
    BY <1>8, <1>11 DEF PluginInv

\* The settings of the plugins stay those of the lines.
LEMMA PluginRead ==
    ASSUME NEW t, Reading(t), Types, PluginInv, phase' # "crashed"
    PROVE  PluginInv'
PROOF
<1>. QED
    BY PluginSet, PluginLoad

-----------------------------------------------------------------------------
(* Slits.                                                                  *)
SlitInv ==
    \A p \in DOMAIN plugins :
        plugins[p].slit \in View!SlitsOf(Now, plugins[p].name) /\ plugins[p].slit <= Len(slits)
LiveSlits == Len(slits) = Cardinality(View!Lines(Now, "SLIT"))

\* The slits a plugin may be in only become more.
LEMMA SlitsOfMore ==
    ASSUME NEW ls, NEW t, NEW new, More(ls, t, new), NEW of
    PROVE  /\ View!SlitsOf(ls, of) \subseteq View!SlitsOf(new, of)
           /\ IsGood(t, "LOAD") /\ t[2] \in DOMAIN Plugins /\ t[2] = of =>
                 Cardinality(View!Lines(ls, "SLIT")) \in View!SlitsOf(new, of)
PROOF
<1>. DEFINE n == Len(ls) + 1
            Before(l, k) == {j \in View!Lines(l, "SLIT") : j < k}
<1>1. /\ View!Lines(new, "SLIT") = With(View!Lines(ls, "SLIT"), n, IsGood(t, "SLIT"))
      /\ View!Lines(ls, "SLIT") \subseteq 1..Len(ls)
    BY MoreLines DEF IsGood
<1>2. /\ LoadsOf(new, of) = With(LoadsOf(ls, of), n,
                                 IsGood(t, "LOAD") /\ t[2] \in DOMAIN Plugins /\ t[2] = of)
      /\ LoadsOf(ls, of) \subseteq 1..Len(ls)
    BY LoadsMore
<1>3. ~(n < n) /\ \A k \in 1..Len(ls) : ~(n < k) /\ k < n
    <2>1. Len(ls) \in Nat
        BY DEF More
    <2>. QED
        BY <2>1
<1>4. \A l : View!SlitsOf(l, of) = {Cardinality(Before(l, k)) : k \in LoadsOf(l, of)}
    BY ViewsAre DEF View!SlitsOf, LoadsOf
<1>. HIDE DEF n
<1>5. \A k \in 1..Len(ls) : Before(new, k) = Before(ls, k)
    BY <1>1, <1>3 DEF With
<1>6. Before(new, n) = View!Lines(ls, "SLIT")
    BY <1>1, <1>3 DEF With
<1>. HIDE DEF Before
<1>7. View!SlitsOf(ls, of) \subseteq View!SlitsOf(new, of)
    BY <1>2, <1>4, <1>5 DEF With
<1>8. ASSUME IsGood(t, "LOAD"), t[2] \in DOMAIN Plugins, t[2] = of
      PROVE  Cardinality(View!Lines(ls, "SLIT")) \in View!SlitsOf(new, of)
    <2>1. n \in LoadsOf(new, of)
        BY <1>2, <1>8 DEF With
    <2>. QED
        BY <1>4, <1>6, <2>1
<1>. QED
    BY <1>7, <1>8

\* Lists with the same places are equally long.
LEMMA SameLength ==
    ASSUME NEW S, NEW T, NEW r \in Seq(S), NEW s \in Seq(T), DOMAIN r = DOMAIN s
    PROVE  Len(r) = Len(s)
PROOF
<1>1. Len(r) \in Nat /\ Len(s) \in Nat /\ 1..Len(r) = 1..Len(s)
    BY SeqIs
<1>2. ASSUME NEW a \in Nat, NEW b \in Nat, 1..a = 1..b PROVE a <= b
    <2>1. a # 0 => a \in 1..a
        OBVIOUS
    <2>2. a # 0 => a \in 1..b
        BY <1>2, <2>1
    <2>. QED
        BY <2>2
<1>3. Len(r) <= Len(s) /\ Len(s) <= Len(r)
    BY <1>1, <1>2
<1>. QED
    BY <1>1, <1>3

\* The program dies at a fatal line only.
LEMMA CrashedIs ==
    ASSUME NEW t \in LINE, parse_context_menu(t), Types, phase' = "crashed"
    PROVE  FatalLine(t)
PROOF
<1>1. ~BadLine(t) /\ ~EmptyLine(t)
    BY DEF BadLine, config_error, EmptyLine, Done
<1>2. ~GoodLine(t)
    BY GoodLinesDo DEF GoodOf
<1>. QED
    BY <1>1, <1>2, Effects

\* What a line does to the lists of slits and plugins.
SlitChange(t) ==
    /\ Len(slits') = IF IsGood(t, "SLIT") THEN Len(slits) + 1 ELSE Len(slits)
    /\ IF IsGood(t, "LOAD") /\ t[2] \in DOMAIN Plugins THEN plugins' = Append(plugins, NewPlugin(t))
       ELSE /\ DOMAIN plugins' = DOMAIN plugins
            /\ \A p \in DOMAIN plugins : plugins'[p].name = plugins[p].name /\ plugins'[p].slit = plugins[p].slit

\* SLIT makes a slit; LOAD puts a plugin into the last one; SET moves nothing.
LEMMA SlitChanges ==
    ASSUME NEW t \in LINE, Changes(t), Types, Types'
    PROVE  SlitChange(t)
PROOF
<1>1. slits \in Seq(SLITS) /\ slits' \in Seq(SLITS) /\ plugins \in Seq(PLUGIN)
    BY DEF Types
<1>2. Len(slits) \in Nat /\ Len(plugins) \in Nat /\ DOMAIN plugins = 1..Len(plugins)
      /\ \A p \in DOMAIN plugins : plugins[p] \in PLUGIN
    <2>1. Len(plugins) \in Nat /\ DOMAIN plugins = 1..Len(plugins) /\ plugins \in [1..Len(plugins) -> PLUGIN]
        BY <1>1, SeqIs
    <2>. QED
        BY <1>1, <2>1, SeqIs
<1>3. CASE IsGood(t, "SET")
    <2>1. SetLine(t) /\ ~IsGood(t, "SLIT") /\ ~IsGood(t, "LOAD")
        BY <1>3 DEF Changes, IsGood, View!Is
    <2>2. DOMAIN slits' = DOMAIN slits
        BY <2>1 DEF SetLine
    <2>3. Len(slits') = Len(slits)
        BY <1>1, <2>2, SameLength
    <2>4. DOMAIN plugins' = DOMAIN plugins
        BY <2>1 DEF SetLine
    <2>5. ASSUME NEW p \in DOMAIN plugins
          PROVE  plugins'[p].name = plugins[p].name /\ plugins'[p].slit = plugins[p].slit
        <3>1. plugins' = plugins \/ plugins' = [plugins EXCEPT ![First(t[2])].config = Append(@, Setting(t[3], t[4]))]
            BY <2>1 DEF SetLine
        <3>2. plugins[p] \in PLUGIN
            BY <1>2
        <3>. QED
            BY <3>1, <3>2 DEF PLUGIN
    <2>. QED
        BY <2>1, <2>3, <2>4, <2>5 DEF SlitChange
<1>4. CASE ~IsGood(t, "SET")
    <2>1. IF IsGood(t, "SLIT") THEN SlitLine(t) ELSE slits' = slits
        BY <1>4 DEF Changes
    <2>2. IF IsGood(t, "LOAD") THEN LoadLine(t) ELSE plugins' = plugins
        BY <1>4 DEF Changes
    <2>3. Len(slits') = IF IsGood(t, "SLIT") THEN Len(slits) + 1 ELSE Len(slits)
        <3>1. CASE IsGood(t, "SLIT")
            <4>1. slits' = Append(slits, NewSlit(t))
                BY <2>1, <3>1 DEF SlitLine
            <4>2. Len(Append(slits, NewSlit(t))) = Len(slits) + 1
                <5>1. NewSlit(t) \in SLITS \cup {NewSlit(t)} /\ slits \in Seq(SLITS \cup {NewSlit(t)})
                    BY <1>1, SeqIs, SeqDef
                <5>. QED
                    BY <5>1, AppendIs
            <4>. QED
                BY <3>1, <4>1, <4>2
        <3>2. CASE ~IsGood(t, "SLIT")
            BY <2>1, <3>2
        <3>. QED
            BY <3>1, <3>2
    <2>4. IF IsGood(t, "LOAD") /\ t[2] \in DOMAIN Plugins THEN plugins' = Append(plugins, NewPlugin(t))
          ELSE plugins' = plugins
        BY <2>2 DEF LoadLine
    <2>. QED
        BY <2>3, <2>4 DEF SlitChange
<1>. QED
    BY <1>3, <1>4

\* A plugin is in the last slit before its LOAD line.
LEMMA SlitRead ==
    ASSUME NEW t, Reading(t), Types, Types', SlitInv, LiveSlits
    PROVE  SlitInv' /\ (phase' # "crashed" => LiveSlits')
PROOF
<1>. DEFINE m == Len(plugins)
<1>1. t \in LINE /\ parse_context_menu(t) /\ More(Now, t, Now') /\ Now \in Seq(LINE)
    BY MoreIs DEF Reading
<1>2. /\ \A of : View!SlitsOf(Now, of) \subseteq View!SlitsOf(Now', of)
      /\ \A of : IsGood(t, "LOAD") /\ t[2] \in DOMAIN Plugins /\ t[2] = of =>
             Cardinality(View!Lines(Now, "SLIT")) \in View!SlitsOf(Now', of)
    BY <1>1, SlitsOfMore
<1>3. \A p \in DOMAIN plugins :
        /\ plugins[p] \in PLUGIN /\ plugins[p].slit \in Nat
        /\ plugins[p].slit \in View!SlitsOf(Now', plugins[p].name) /\ plugins[p].slit <= Len(slits)
    <2>1. plugins \in Seq(PLUGIN)
        BY DEF Types
    <2>2. DOMAIN plugins = 1..Len(plugins) /\ plugins \in [1..Len(plugins) -> PLUGIN]
        BY <2>1, SeqIs
    <2>. QED
        BY <1>2, <2>2 DEF SlitInv, PLUGIN
<1>4. Len(slits) \in Nat /\ plugins \in Seq(PLUGIN)
    BY SeqIs DEF Types
<1>5. CASE phase' = "crashed"
    <2>1. slits' = slits /\ plugins' = plugins
        BY <1>1, <1>5, CrashedIs DEF FatalLine, config
    <2>. QED
        BY <1>3, <1>5, <2>1 DEF SlitInv
<1>6. CASE phase' # "crashed"
    <2>1. SlitChange(t) /\ Changes(t)
        BY <1>1, <1>6, ChangesAre, SlitChanges
    <2>2. LiveSlits'
        <3>1. /\ View!Lines(Now', "SLIT") = With(View!Lines(Now, "SLIT"), Len(Now) + 1, IsGood(t, "SLIT"))
              /\ View!Lines(Now, "SLIT") \in SUBSET (1..Len(Now)) /\ Len(Now) \in Nat
            BY <1>1, MoreLines, SeqIs DEF IsGood
        <3>2. Cardinality(View!Lines(Now, "SLIT") \cup {Len(Now) + 1}) = Cardinality(View!Lines(Now, "SLIT")) + 1
            BY <3>1, PlacesAre
        <3>3. Len(slits') = Cardinality(View!Lines(Now', "SLIT"))
            <4>1. CASE IsGood(t, "SLIT")
                <5>1. View!Lines(Now', "SLIT") = View!Lines(Now, "SLIT") \cup {Len(Now) + 1}
                    BY <3>1, <4>1 DEF With
                <5>. QED
                    BY <2>1, <3>2, <4>1, <5>1 DEF SlitChange, LiveSlits
            <4>2. CASE ~IsGood(t, "SLIT")
                <5>1. View!Lines(Now', "SLIT") = View!Lines(Now, "SLIT")
                    BY <3>1, <4>2, WithNone
                <5>. QED
                    BY <2>1, <4>2, <5>1 DEF SlitChange, LiveSlits
            <4>. QED
                BY <4>1, <4>2
        <3>. QED
            BY <3>3 DEF LiveSlits
    <2>3. Len(slits) <= Len(slits') /\ Len(slits') \in Nat
        BY <1>4, <2>1 DEF SlitChange
    <2>4. CASE IsGood(t, "LOAD") /\ t[2] \in DOMAIN Plugins
        <3>1. plugins' = Append(plugins, NewPlugin(t)) /\ NewPlugin(t).slit = Len(slits) /\ NewPlugin(t).name = t[2]
            BY <2>1, <2>4 DEF SlitChange, NewPlugin
        <3>2. NewPlugin(t) \in PLUGIN
            <4>1. LoadLine(t)
                <5>1. ~IsGood(t, "SET")
                    BY <2>4 DEF IsGood, View!Is
                <5>. QED
                    BY <2>1, <2>4, <5>1 DEF Changes
            <4>2. lineno' \in Nat
                BY DEF Reading
            <4>. QED
                BY <1>1, <2>4, <4>1, <4>2, NewTypes
        <3>3. /\ DOMAIN plugins' = 1..(m + 1) /\ (\A p \in 1..m : plugins'[p] = plugins[p])
              /\ plugins'[m + 1] = NewPlugin(t) /\ DOMAIN plugins = 1..m /\ m \in Nat
            BY <1>4, <3>1, <3>2, AppendIs, SeqIs
        <3>4. 1..(m + 1) = (1..m) \cup {m + 1}
            BY <3>3
        <3>. HIDE DEF m
        <3>5. NewPlugin(t).slit \in View!SlitsOf(Now', NewPlugin(t).name)
            BY <1>2, <2>4, <3>1 DEF LiveSlits
        <3>6. ASSUME NEW p \in DOMAIN plugins'
              PROVE  plugins'[p].slit \in View!SlitsOf(Now', plugins'[p].name) /\ plugins'[p].slit <= Len(slits')
            <4>1. CASE p \in 1..m
                BY <1>3, <1>4, <2>3, <3>3, <4>1
            <4>2. CASE p = m + 1
                BY <1>4, <2>3, <3>1, <3>3, <3>5, <4>2
            <4>. QED
                BY <3>3, <3>4, <4>1, <4>2
        <3>. QED
            BY <2>2, <3>6 DEF SlitInv
    <2>5. CASE ~(IsGood(t, "LOAD") /\ t[2] \in DOMAIN Plugins)
        <3>1. DOMAIN plugins' = DOMAIN plugins
              /\ \A p \in DOMAIN plugins : plugins'[p].name = plugins[p].name /\ plugins'[p].slit = plugins[p].slit
            BY <2>1, <2>5 DEF SlitChange
        <3>2. ASSUME NEW p \in DOMAIN plugins
              PROVE  plugins'[p].slit \in View!SlitsOf(Now', plugins'[p].name) /\ plugins'[p].slit <= Len(slits')
            BY <1>3, <1>4, <2>3, <3>1
        <3>. QED
            BY <2>2, <3>1, <3>2 DEF SlitInv
    <2>. QED
        BY <2>4, <2>5
<1>. QED
    BY <1>5, <1>6

-----------------------------------------------------------------------------
(* Menus.  A menu is complete at a line: a plugin's where it is loaded, any *)
(* other at the next CONTEXTMENU line.  The end of the file counts as one.  *)
END == <<"CONTEXTMENU">>
Precedes(ls, h, c) == h \in View!Heads(ls) /\ h < c /\ \A i \in View!Heads(ls) : i < c => i <= h
ItemsOf(ls, h, c) == {j \in DOMAIN ls : j > h /\ j < c /\ View!IsItem(ls[j])}
MenuOf(ls, h, c) == [n \in 1..Cardinality(ItemsOf(ls, h, c)) |-> ls[NthOf(ItemsOf(ls, h, c), n)]]
Registers(t, name) == IsGood(t, "LOAD") /\ t[2] \in DOMAIN Plugins /\ Plugins[t[2]].menu = name
Begins(t, name) == View!Good(t) /\ t[2] = name
Ends(ls, c, name) ==
    \/ Registers(ls[c], name)
    \/ View!Is(ls[c], "CONTEXTMENU") /\ \E h : Precedes(ls, h, c) /\ Begins(ls[h], name)
Ended(ls, name) == {c \in DOMAIN ls : Ends(ls, c, name)}
EndedAt(ls) == [c \in DOMAIN ls |-> IF View!Is(ls[c], "LOAD") THEN <<"plugin">>
                                    ELSE MenuOf(ls, CHOOSE h : Precedes(ls, h, c), c)]

\* The CONTEXTMENU lines, and the last of them before a line.
LEMMA HeadsAre ==
    ASSUME NEW ls \in Seq(LINE)
    PROVE  /\ Len(ls) \in Nat /\ DOMAIN ls = 1..Len(ls) /\ View!Heads(ls) \subseteq 1..Len(ls)
           /\ \A k \in View!Heads(ls) : k \in Nat /\ ~View!Is(ls[k], "LOAD")
           /\ \A h, i, c : Precedes(ls, h, c) /\ Precedes(ls, i, c) => h = i
           /\ \A h, c : Precedes(ls, h, c) => (CHOOSE x : Precedes(ls, x, c)) = h
PROOF
<1>1. Len(ls) \in Nat /\ DOMAIN ls = 1..Len(ls)
    BY SeqIs
<1>2. View!Heads(ls) \subseteq 1..Len(ls)
    BY <1>1 DEF View!Heads
<1>3. \A k \in View!Heads(ls) : k \in Nat /\ ~View!Is(ls[k], "LOAD")
    BY <1>1 DEF View!Heads, View!Is
<1>4. \A h, i, c : Precedes(ls, h, c) /\ Precedes(ls, i, c) => h = i
    BY <1>3 DEF Precedes
<1>5. ASSUME NEW h, NEW c, Precedes(ls, h, c) PROVE (CHOOSE x : Precedes(ls, x, c)) = h
    <2>1. Precedes(ls, CHOOSE x : Precedes(ls, x, c), c)
        BY <1>5
    <2>. QED
        BY <1>4, <1>5, <2>1
<1>. QED
    BY <1>1, <1>2, <1>3, <1>4, <1>5

\* A menu is complete at the next CONTEXTMENU line, or not yet.
LEMMA CompleteIs ==
    ASSUME NEW ls \in Seq(LINE), NEW k \in View!Heads(ls)
    PROVE  /\ View!Complete(ls, k) \in 1..(Len(ls) + 1) /\ Precedes(ls, k, View!Complete(ls, k))
           /\ View!Complete(ls, k) \in View!Heads(ls) \/ View!Complete(ls, k) = Len(ls) + 1
PROOF
<1>. DEFINE next == {j \in View!Heads(ls) : j > k}
<1>1. Len(ls) \in Nat /\ View!Heads(ls) \subseteq 1..Len(ls) /\ ~View!Is(ls[k], "LOAD") /\ k \in 1..Len(ls)
      /\ \A j \in View!Heads(ls) : j \in Nat
    BY HeadsAre
<1>2. View!Complete(ls, k) = IF next = {} THEN Len(ls) + 1 ELSE View!Earliest(next)
    BY <1>1 DEF View!Complete
<1>3. CASE next = {}
    <2>1. View!Complete(ls, k) = Len(ls) + 1
        BY <1>2, <1>3
    <2>2. \A j \in View!Heads(ls) : j <= k
        BY <1>1, <1>3
    <2>. QED
        BY <1>1, <2>1, <2>2 DEF Precedes
<1>4. CASE next # {}
    <2>1. next \in SUBSET Nat
        BY <1>1
    <2>2. View!Earliest(next) \in next /\ \A j \in next : View!Earliest(next) <= j
        BY <1>4, <2>1, EarliestIs
    <2>. DEFINE c == View!Earliest(next)
    <2>3. c \in View!Heads(ls) /\ c > k /\ \A j \in View!Heads(ls) : j > k => c <= j
        BY <2>2
    <2>. HIDE DEF c
    <2>4. c \in 1..Len(ls) /\ k < c
        BY <1>1, <2>3
    <2>5. \A j \in View!Heads(ls) : j < c => j <= k
        BY <1>1, <2>3, <2>4
    <2>6. View!Complete(ls, k) = c
        BY <1>2, <1>4 DEF c
    <2>. QED
        BY <1>1, <2>3, <2>4, <2>5, <2>6 DEF Precedes
<1>. QED
    BY <1>3, <1>4

\* The line at which a menu is complete.
LEMMA CompleteAt ==
    ASSUME NEW ls \in Seq(LINE), NEW k, NEW c, Precedes(ls, k, c), c \in View!Heads(ls) \/ c = Len(ls) + 1
    PROVE  View!Complete(ls, k) = c
PROOF
<1>. DEFINE d == View!Complete(ls, k)
<1>1. Len(ls) \in Nat /\ View!Heads(ls) \subseteq 1..Len(ls) /\ k \in View!Heads(ls) /\ k \in 1..Len(ls)
      /\ \A j \in View!Heads(ls) : j \in 1..Len(ls)
    BY HeadsAre DEF Precedes
<1>2. d \in 1..(Len(ls) + 1) /\ Precedes(ls, k, d) /\ (d \in View!Heads(ls) \/ d = Len(ls) + 1)
    BY <1>1, CompleteIs
<1>. HIDE DEF d
<1>3. c \in 1..(Len(ls) + 1)
    BY <1>1
<1>4. ~(c < d)
    BY <1>1, <1>2, <1>3 DEF Precedes
<1>5. ~(d < c)
    BY <1>1, <1>2, <1>3 DEF Precedes
<1>6. d = c
    BY <1>2, <1>3, <1>4, <1>5
<1>. QED
    BY <1>6 DEF d

\* The definitions of a menu, and what each shows.
Definitions(ls, name, ended) ==
    {k \in DOMAIN ls : View!Defines(ls, k, name) /\ (ended \/ View!Complete(ls, k) <= Len(ls))}
ShownAt(ls, k) == IF View!Is(ls[k], "LOAD") THEN <<"plugin">> ELSE MenuOf(ls, k, View!Complete(ls, k))
Looked(ls, name) ==
    IF Ended(ls, name) = {} THEN <<"none">> ELSE EndedAt(ls)[Min(Ended(ls, name))]

\* A menu is defined by a good CONTEXTMENU line, or registered by a plugin.
LEMMA DefinesIs ==
    ASSUME NEW ls \in Seq(LINE), NEW name, NEW k
    PROVE  View!Defines(ls, k, name) <=>
               \/ k \in View!Heads(ls) /\ Begins(ls[k], name)
               \/ k \in DOMAIN ls /\ Registers(ls[k], name)
PROOF
<1>. QED
    BY DEF View!Defines, View!Lines, View!Heads, Begins, Registers, IsGood

\* Menus are complete one at a time, if they are.
LEMMA DefinitionsAre ==
    ASSUME NEW ls \in Seq(LINE), NEW name
    PROVE  /\ \A k \in Definitions(ls, name, TRUE) : View!Complete(ls, k) \in 1..(Len(ls) + 1)
           /\ \A j, k \in Definitions(ls, name, TRUE) :
                 View!Complete(ls, j) = View!Complete(ls, k) => j = k
           /\ Definitions(ls, name, FALSE) \subseteq Definitions(ls, name, TRUE)
           /\ \A k \in Definitions(ls, name, FALSE) : View!Complete(ls, k) <= Len(ls)
PROOF
<1>. DEFINE C(k) == View!Complete(ls, k)
            D == Definitions(ls, name, TRUE)
<1>0. Len(ls) \in Nat /\ DOMAIN ls = 1..Len(ls) /\ View!Heads(ls) \subseteq 1..Len(ls)
    BY HeadsAre
<1>1. \A k \in D : \/ k \in View!Heads(ls)
                   \/ k \in 1..Len(ls) /\ View!Is(ls[k], "LOAD")
    BY <1>0, DefinesIs DEF Definitions, Registers, IsGood
<1>2. \A k : View!Is(ls[k], "LOAD") => C(k) = k
    BY DEF View!Complete
<1>3. \A k \in View!Heads(ls) : /\ C(k) \in 1..(Len(ls) + 1) /\ Precedes(ls, k, C(k))
                                /\ C(k) \in View!Heads(ls) \/ C(k) = Len(ls) + 1
                                /\ ~View!Is(ls[k], "LOAD")
    BY CompleteIs, HeadsAre
<1>. HIDE DEF C, D
<1>4. \A k \in D : C(k) \in 1..(Len(ls) + 1)
    <2>1. ASSUME NEW k \in 1..Len(ls) PROVE k \in 1..(Len(ls) + 1)
        BY <1>0
    <2>. QED
        BY <1>1, <1>2, <1>3, <2>1
<1>5. ASSUME NEW j \in D, NEW k \in D, C(j) = C(k) PROVE j = k
    <2>1. CASE j \in View!Heads(ls) /\ k \in View!Heads(ls)
        BY <1>3, <1>5, <2>1, HeadsAre
    <2>2. CASE View!Is(ls[j], "LOAD") /\ View!Is(ls[k], "LOAD")
        BY <1>2, <1>5, <2>2
    <2>3. ASSUME NEW x \in View!Heads(ls), NEW y \in 1..Len(ls), View!Is(ls[y], "LOAD"), C(x) = C(y)
          PROVE  FALSE
        <3>1. C(x) = y /\ y # Len(ls) + 1
            BY <1>0, <1>2, <2>3
        <3>2. y \in View!Heads(ls)
            BY <1>3, <3>1
        <3>. QED
            BY <1>3, <2>3, <3>2
    <2>. QED
        BY <1>1, <1>5, <2>1, <2>2, <2>3
<1>6. Definitions(ls, name, FALSE) \subseteq D /\ \A k \in Definitions(ls, name, FALSE) : C(k) <= Len(ls)
    BY DEF Definitions, C, D
<1>. QED
    BY <1>4, <1>5, <1>6 DEF C, D

\* The menu of a name is the one that was complete first.
LEMMA MenuAsDefined ==
    ASSUME NEW ls \in Seq(LINE), NEW name, NEW ended \in BOOLEAN
    PROVE  /\ Definitions(ls, name, ended) = {} => View!Menu(ls, name, ended) = <<"none">>
           /\ \A k \in Definitions(ls, name, ended) :
                 (\A j \in Definitions(ls, name, ended) : View!Complete(ls, k) <= View!Complete(ls, j)) =>
                     View!Menu(ls, name, ended) = ShownAt(ls, k)
PROOF
<1>. DEFINE D == Definitions(ls, name, ended)
            C(k) == View!Complete(ls, k)
            def == CHOOSE k \in D : \A j \in D : C(k) <= C(j)
<1>1. /\ \A k \in D : C(k) \in Nat
      /\ \A j, k \in D : C(j) = C(k) => j = k
    <2>1. D \subseteq Definitions(ls, name, TRUE)
        BY DEF Definitions
    <2>2. \A k \in Definitions(ls, name, TRUE) : C(k) \in 1..(Len(ls) + 1)
        BY DefinitionsAre
    <2>3. \A j, k \in Definitions(ls, name, TRUE) : C(j) = C(k) => j = k
        BY DefinitionsAre
    <2>4. Len(ls) \in Nat
        BY SeqIs
    <2>. HIDE DEF D, C
    <2>5. \A k \in D : C(k) \in 1..(Len(ls) + 1)
        BY <2>1, <2>2
    <2>6. \A k \in D : C(k) \in Nat
        BY <2>4, <2>5
    <2>7. \A j, k \in D : C(j) = C(k) => j = k
        <3>1. ASSUME NEW j \in D, NEW k \in D, C(j) = C(k) PROVE j = k
            <4>1. j \in Definitions(ls, name, TRUE) /\ k \in Definitions(ls, name, TRUE)
                BY <2>1
            <4>. QED
                BY <2>3, <3>1, <4>1
        <3>. QED
            BY <3>1
    <2>. QED
        BY <2>6, <2>7
<1>2. View!Menu(ls, name, ended) =
          IF D = {} THEN <<"none">> ELSE ShownAt(ls, def)
    BY ViewsAre DEF View!Menu, Definitions, ShownAt, MenuOf, ItemsOf
<1>. HIDE DEF D, C
<1>3. ASSUME NEW k \in D, \A j \in D : C(k) <= C(j)
      PROVE  def = k
    <2>1. def \in D /\ \A j \in D : C(def) <= C(j)
        BY <1>3
    <2>2. C(def) <= C(k) /\ C(k) <= C(def)
        BY <1>3, <2>1
    <2>. HIDE DEF def
    <2>3. C(def) = C(k)
        BY <1>1, <1>3, <2>1, <2>2
    <2>. QED
        BY <1>1, <1>3, <2>1, <2>3
<1>. HIDE DEF def
<1>4. ASSUME NEW k \in D, \A j \in D : C(k) <= C(j)
      PROVE  View!Menu(ls, name, ended) = ShownAt(ls, k)
    BY <1>2, <1>3, <1>4
<1>. QED
    BY <1>2, <1>4 DEF D, C

\* A line more does not change a menu before it.
LEMMA MenuStays ==
    ASSUME NEW ls, NEW t, NEW new, More(ls, t, new), NEW c \in Nat, c <= Len(ls) + 1, NEW h
    PROVE  ItemsOf(new, h, c) = ItemsOf(ls, h, c) /\ MenuOf(new, h, c) = MenuOf(ls, h, c)
PROOF
<1>. DEFINE I == ItemsOf(ls, h, c)
<1>1. /\ Len(ls) \in Nat /\ DOMAIN ls = 1..Len(ls) /\ DOMAIN new = (1..Len(ls)) \cup {Len(ls) + 1}
      /\ \A k \in 1..Len(ls) : new[k] = ls[k]
    BY DEF More
<1>2. ~(Len(ls) + 1 < c)
    BY <1>1
<1>3. ItemsOf(new, h, c) = I
    BY <1>1, <1>2 DEF ItemsOf
<1>4. I \in SUBSET (1..Len(ls))
    BY <1>1 DEF ItemsOf
<1>. HIDE DEF I
<1>5. \A i \in 1..Cardinality(I) : NthOf(I, i) \in 1..Len(ls)
    BY <1>1, <1>4, NthIs
<1>6. \A i \in 1..Cardinality(I) : new[NthOf(I, i)] = ls[NthOf(I, i)]
    BY <1>1, <1>5
<1>7. MenuOf(new, h, c) = [n \in 1..Cardinality(I) |-> new[NthOf(I, n)]]
    BY <1>3 DEF MenuOf
<1>8. MenuOf(ls, h, c) = [n \in 1..Cardinality(I) |-> ls[NthOf(I, n)]]
    BY DEF MenuOf, I
<1>9. MenuOf(new, h, c) = MenuOf(ls, h, c)
    BY <1>6, <1>7, <1>8
<1>. QED
    BY <1>3, <1>9 DEF I

\* The line that stands for the end of the file.
LEMMA EndIs ==
    /\ END \in LINE /\ END # <<>> /\ END[1] = "CONTEXTMENU" /\ View!Is(END, "CONTEXTMENU")
    /\ ~View!Good(END) /\ ~View!IsItem(END)
PROOF
<1>1. END \in Seq(TEXTS) /\ Len(END) = 1 /\ END[1] = "CONTEXTMENU" /\ END # <<>>
    BY DEF END, TEXTS
<1>2. END \in LINE
    BY <1>1 DEF LINE, MAX_TOKENS, Null
<1>3. View!Good(END) <=> Len(END) = 2
    BY <1>1, <1>2, GoodLines
<1>. QED
    BY <1>1, <1>2, <1>3 DEF View!Is, View!IsItem

\* The lines at which menus of a name are complete.
LEMMA EndedIs ==
    ASSUME NEW ls \in Seq(LINE), NEW name
    PROVE  /\ Ended(ls, name) \subseteq 1..Len(ls)
           /\ \A k \in Definitions(ls, name, FALSE) :
                 /\ View!Complete(ls, k) \in Ended(ls, name)
                 /\ EndedAt(ls)[View!Complete(ls, k)] = ShownAt(ls, k)
           /\ \A c \in Ended(ls, name) :
                 \E k \in Definitions(ls, name, FALSE) : View!Complete(ls, k) = c
PROOF
<1>. DEFINE C(k) == View!Complete(ls, k)
            D == Definitions(ls, name, FALSE)
<1>0. Len(ls) \in Nat /\ DOMAIN ls = 1..Len(ls) /\ View!Heads(ls) \subseteq 1..Len(ls)
      /\ (\A k \in View!Heads(ls) : ~View!Is(ls[k], "LOAD") /\ View!Is(ls[k], "CONTEXTMENU"))
      /\ \A h, c : Precedes(ls, h, c) => (CHOOSE x : Precedes(ls, x, c)) = h
    BY HeadsAre DEF View!Heads
<1>1. Ended(ls, name) \subseteq 1..Len(ls)
    BY <1>0 DEF Ended
<1>2. \A k : View!Is(ls[k], "LOAD") => C(k) = k
    BY DEF View!Complete
<1>3. \A k \in View!Heads(ls) : /\ C(k) \in 1..(Len(ls) + 1) /\ Precedes(ls, k, C(k))
                                /\ C(k) \in View!Heads(ls) \/ C(k) = Len(ls) + 1
    BY CompleteIs
<1>4. \A k \in D : k \in DOMAIN ls /\ C(k) <= Len(ls)
    BY DEF Definitions
<1>4a. \A k \in D : \/ k \in View!Heads(ls) /\ Begins(ls[k], name)
                    \/ k \in DOMAIN ls /\ Registers(ls[k], name)
    BY DefinesIs DEF Definitions
<1>4b. \A k \in DOMAIN ls :
           C(k) <= Len(ls) /\ ((k \in View!Heads(ls) /\ Begins(ls[k], name)) \/ Registers(ls[k], name))
               => k \in D
    <2>1. ASSUME NEW k \in DOMAIN ls, C(k) <= Len(ls),
                 (k \in View!Heads(ls) /\ Begins(ls[k], name)) \/ Registers(ls[k], name)
          PROVE  k \in D
        <3>1. View!Defines(ls, k, name)
            BY <2>1, DefinesIs
        <3>. QED
            BY <2>1, <3>1 DEF Definitions
    <2>. QED
        BY <2>1
<1>. HIDE DEF C, D
<1>5. ASSUME NEW k \in D PROVE C(k) \in Ended(ls, name) /\ EndedAt(ls)[C(k)] = ShownAt(ls, k)
    <2>1. CASE k \in View!Heads(ls) /\ Begins(ls[k], name)
        <3>1. C(k) \in View!Heads(ls) /\ Precedes(ls, k, C(k))
            BY <1>0, <1>3, <1>4, <2>1
        <3>2. C(k) \in DOMAIN ls /\ ~View!Is(ls[C(k)], "LOAD") /\ ~View!Is(ls[k], "LOAD")
            BY <1>0, <2>1, <3>1
        <3>3. EndedAt(ls)[C(k)] = MenuOf(ls, k, C(k))
            BY <1>0, <3>1, <3>2 DEF EndedAt
        <3>4. Ends(ls, C(k), name)
            BY <1>0, <2>1, <3>1 DEF Ends
        <3>5. ShownAt(ls, k) = MenuOf(ls, k, C(k))
            BY <3>2 DEF ShownAt, C
        <3>. QED
            BY <3>2, <3>3, <3>4, <3>5 DEF Ended
    <2>2. CASE Registers(ls[k], name)
        <3>1. View!Is(ls[k], "LOAD") /\ C(k) = k /\ k \in DOMAIN ls
            BY <1>2, <1>4, <2>2 DEF Registers, IsGood
        <3>. QED
            BY <2>2, <3>1 DEF Ended, EndedAt, Ends, ShownAt
    <2>. QED
        BY <1>4a, <2>1, <2>2
<1>6. ASSUME NEW c \in Ended(ls, name) PROVE \E k \in D : C(k) = c
    <2>0. c \in DOMAIN ls /\ c \in 1..Len(ls) /\ c <= Len(ls)
        BY <1>0, <1>1
    <2>1. CASE Registers(ls[c], name)
        <3>1. C(c) = c
            BY <1>2, <2>1 DEF Registers, IsGood
        <3>. QED
            BY <1>4b, <2>0, <2>1, <3>1
    <2>2. CASE View!Is(ls[c], "CONTEXTMENU") /\ \E h : Precedes(ls, h, c) /\ Begins(ls[h], name)
        <3>1. PICK h : Precedes(ls, h, c) /\ Begins(ls[h], name)
            BY <2>2
        <3>2. c \in View!Heads(ls) /\ h \in View!Heads(ls) /\ h \in DOMAIN ls
            BY <1>0, <2>0, <2>2, <3>1 DEF Precedes, View!Heads
        <3>3. C(h) = c
            BY <3>1, <3>2, CompleteAt DEF C
        <3>. QED
            BY <1>4b, <2>0, <3>1, <3>2, <3>3
    <2>. QED
        BY <2>1, <2>2 DEF Ended, Ends
<1>. QED
    BY <1>1, <1>5, <1>6 DEF C, D

\* While the file is read, and after its end.
LEMMA MenuLooked ==
    ASSUME NEW ls \in Seq(LINE), NEW name
    PROVE  View!Menu(ls, name, FALSE) = Looked(ls, name)
PROOF
<1>. DEFINE E == Ended(ls, name)
            D == Definitions(ls, name, FALSE)
<1>1. /\ E \in SUBSET Nat
      /\ \A k \in D : View!Complete(ls, k) \in E /\ EndedAt(ls)[View!Complete(ls, k)] = ShownAt(ls, k)
      /\ \A c \in E : \E k \in D : View!Complete(ls, k) = c
    <2>1. Ended(ls, name) \subseteq 1..Len(ls) /\ Len(ls) \in Nat
        BY EndedIs, SeqIs
    <2>2. E \in SUBSET Nat
        BY <2>1
    <2>. QED
        BY <2>2, EndedIs
<1>2. CASE E = {}
    <2>1. D = {}
        BY <1>1, <1>2
    <2>2. View!Menu(ls, name, FALSE) = <<"none">>
        BY <2>1, MenuAsDefined
    <2>. QED
        BY <1>2, <2>2 DEF Looked
<1>3. CASE E # {}
    <2>1. Min(E) \in E /\ \A c \in E : Min(E) <= c
        BY <1>1, <1>3, Least
    <2>2. PICK k \in D : View!Complete(ls, k) = Min(E)
        BY <1>1, <2>1
    <2>3. \A j \in D : View!Complete(ls, k) <= View!Complete(ls, j)
        BY <1>1, <2>1, <2>2
    <2>4. View!Menu(ls, name, FALSE) = ShownAt(ls, k)
        BY <2>3, MenuAsDefined
    <2>. QED
        BY <1>1, <1>3, <2>2, <2>4 DEF Looked
<1>. QED
    BY <1>2, <1>3

\* The end of the file changes no menu.
LEMMA CompleteAtEnd ==
    ASSUME NEW ls \in Seq(LINE), NEW new, More(ls, END, new), NEW k \in DOMAIN ls,
           View!Is(ls[k], "LOAD") \/ k \in View!Heads(ls)
    PROVE  View!Complete(new, k) = View!Complete(ls, k) /\ ShownAt(new, k) = ShownAt(ls, k)
PROOF
<1>1. /\ Len(ls) \in Nat /\ DOMAIN ls = 1..Len(ls) /\ k \in 1..Len(ls) /\ new[k] = ls[k]
      /\ View!Heads(ls) \subseteq 1..Len(ls) /\ new \in Seq(LINE) /\ Len(new) = Len(ls) + 1
    BY HeadsAre DEF More
<1>2. View!Heads(new) = View!Heads(ls) \cup {Len(ls) + 1}
    BY EndIs, MoreLines DEF With
<1>3. CASE View!Is(ls[k], "LOAD")
    BY <1>1, <1>3 DEF View!Complete, ShownAt
<1>4. CASE k \in View!Heads(ls)
    <2>. DEFINE c == View!Complete(ls, k)
    <2>1. /\ c \in 1..(Len(ls) + 1) /\ Precedes(ls, k, c) /\ (c \in View!Heads(ls) \/ c = Len(ls) + 1)
          /\ ~View!Is(ls[k], "LOAD")
        BY <1>4, CompleteIs, HeadsAre
    <2>. HIDE DEF c
    <2>2. c \in View!Heads(new) /\ c \in Nat /\ c <= Len(ls) + 1
        BY <1>1, <1>2, <2>1
    <2>3. Precedes(new, k, c)
        <3>1. ~(Len(ls) + 1 < c)
            BY <1>1, <2>2
        <3>. QED
            BY <1>2, <2>1, <3>1 DEF Precedes
    <2>4. View!Complete(new, k) = c
        BY <1>1, <2>2, <2>3, CompleteAt
    <2>5. MenuOf(new, k, c) = MenuOf(ls, k, c)
        BY <2>2, MenuStays
    <2>6. ShownAt(new, k) = MenuOf(new, k, c) /\ ShownAt(ls, k) = MenuOf(ls, k, c)
        BY <1>1, <2>1, <2>4 DEF ShownAt, c
    <2>. QED
        BY <2>4, <2>5, <2>6 DEF c
<1>. QED
    BY <1>3, <1>4

\* At the end of the file the last menu is complete, as at a CONTEXTMENU line.
LEMMA MenuAtEnd ==
    ASSUME NEW ls \in Seq(LINE), NEW name
    PROVE  View!Menu(ls, name, TRUE) = Looked(Append(ls, END), name)
PROOF
<1>. DEFINE new == Append(ls, END)
            D == Definitions(ls, name, TRUE)
            C(k) == View!Complete(ls, k)
<1>1. More(ls, END, new) /\ new \in Seq(LINE) /\ Len(new) = Len(ls) + 1 /\ Len(ls) \in Nat
    BY EndIs, MoreIs DEF More
<1>. HIDE DEF new
<1>2. /\ View!Heads(new) = View!Heads(ls) \cup {Len(ls) + 1} /\ View!Heads(ls) \subseteq 1..Len(ls)
      /\ DOMAIN ls = 1..Len(ls) /\ DOMAIN new = (1..Len(ls)) \cup {Len(ls) + 1} /\ new[Len(ls) + 1] = END
      /\ \A k \in 1..Len(ls) : new[k] = ls[k] /\ k # Len(ls) + 1
    <2>1. View!Heads(new) = View!Heads(ls) \cup {Len(ls) + 1}
        BY <1>1, EndIs, MoreLines DEF With
    <2>. QED
        BY <1>1, <2>1, HeadsAre DEF More
<1>3. ~Begins(END, name) /\ ~Registers(END, name)
    BY EndIs DEF Begins, Registers, IsGood
<1>4. \A k : View!Defines(new, k, name) <=> View!Defines(ls, k, name)
    <2>1. ASSUME NEW k
          PROVE (k \in View!Heads(new) /\ Begins(new[k], name)) <=> (k \in View!Heads(ls) /\ Begins(ls[k], name))
        BY <1>2, <1>3
    <2>2. ASSUME NEW k
          PROVE (k \in DOMAIN new /\ Registers(new[k], name)) <=> (k \in DOMAIN ls /\ Registers(ls[k], name))
        BY <1>2, <1>3
    <2>. QED
        BY <1>1, <2>1, <2>2, DefinesIs
<1>5. \A k : View!Defines(ls, k, name) =>
                 k \in DOMAIN ls /\ (View!Is(ls[k], "LOAD") \/ k \in View!Heads(ls))
    BY <1>2, DefinesIs DEF Registers, IsGood
<1>6. \A k \in D : View!Complete(new, k) = C(k) /\ ShownAt(new, k) = ShownAt(ls, k)
    BY <1>1, <1>5, CompleteAtEnd DEF Definitions
<1>7. Definitions(new, name, FALSE) = D
    <2>1. \A k \in D : View!Complete(new, k) <= Len(new)
        <3>1. \A k \in D : C(k) \in 1..(Len(ls) + 1)
            BY DefinitionsAre
        <3>. HIDE DEF C, D
        <3>. QED
            BY <1>1, <1>6, <3>1
    <2>2. D = {k \in DOMAIN ls : View!Defines(ls, k, name)}
        BY DEF Definitions
    <2>3. Definitions(new, name, FALSE) = {k \in DOMAIN new : View!Defines(new, k, name) /\ View!Complete(new, k) <= Len(new)}
        BY DEF Definitions
    <2>. HIDE DEF D
    <2>. QED
        BY <1>2, <1>4, <1>5, <2>1, <2>2, <2>3
<1>8. View!Menu(new, name, FALSE) = Looked(new, name)
    BY <1>1, MenuLooked
<1>9. View!Menu(ls, name, TRUE) = View!Menu(new, name, FALSE)
    <2>1. CASE D = {}
        BY <1>1, <1>7, <2>1, MenuAsDefined
    <2>2. CASE D # {}
        <3>. DEFINE M == {C(k) : k \in D}
        <3>1. M \in SUBSET Nat /\ M # {}
            <4>1. \A k \in D : C(k) \in 1..(Len(ls) + 1)
                BY DefinitionsAre
            <4>. HIDE DEF C, D
            <4>. QED
                BY <2>2, <4>1
        <3>2. Min(M) \in M /\ \A c \in M : Min(M) <= c
            BY <3>1, Least
        <3>3. PICK k \in D : \A j \in D : C(k) <= C(j)
            BY <3>2
        <3>4. View!Menu(ls, name, TRUE) = ShownAt(ls, k)
            BY <3>3, MenuAsDefined
        <3>5. \A j \in D : View!Complete(new, k) <= View!Complete(new, j)
            BY <1>6, <3>3
        <3>6. View!Menu(new, name, FALSE) = ShownAt(new, k)
            BY <1>1, <1>7, <3>5, MenuAsDefined
        <3>. QED
            BY <1>6, <3>4, <3>6
    <2>. QED
        BY <2>1, <2>2
<1>. QED
    BY <1>8, <1>9 DEF new

\* One more line.
LEMMA EndedMore ==
    ASSUME NEW ls, NEW t, NEW new, More(ls, t, new), NEW name
    PROVE  /\ Ended(new, name) = With(Ended(ls, name), Len(ls) + 1, Ends(new, Len(ls) + 1, name))
           /\ Ended(ls, name) \subseteq 1..Len(ls)
           /\ \A c \in 1..Len(ls) : EndedAt(new)[c] = EndedAt(ls)[c]
           /\ Ends(new, Len(ls) + 1, name) <=>
                 \/ Registers(t, name)
                 \/ View!Is(t, "CONTEXTMENU") /\ \E h : LastHead(ls, h) /\ Begins(ls[h], name)
           /\ View!Is(t, "LOAD") => EndedAt(new)[Len(ls) + 1] = <<"plugin">>
           /\ \A h : View!Is(t, "CONTEXTMENU") /\ LastHead(ls, h) =>
                         EndedAt(new)[Len(ls) + 1] = MenuOf(ls, h, Len(ls) + 1)
PROOF
<1>. DEFINE n == Len(ls) + 1
<1>1. /\ Len(ls) \in Nat /\ n \in Nat /\ DOMAIN ls = 1..Len(ls) /\ DOMAIN new = (1..Len(ls)) \cup {n}
      /\ new[n] = t /\ ls \in Seq(LINE) /\ new \in Seq(LINE) /\ n <= n /\ ~(n < n)
      /\ \A k \in 1..Len(ls) : new[k] = ls[k] /\ k # n /\ k < n /\ k <= n /\ ~(n < k) /\ k \in Nat
    BY DEF More
<1>2. /\ View!Heads(new) = With(View!Heads(ls), n, View!Is(t, "CONTEXTMENU"))
      /\ View!Heads(ls) \subseteq 1..Len(ls)
    BY MoreLines
<1>. HIDE DEF n
<1>3. \A c, h : c \in 1..Len(ls) \/ c = n => (Precedes(new, h, c) <=> Precedes(ls, h, c))
    BY <1>1, <1>2 DEF Precedes, With
<1>4. \A h : Precedes(ls, h, n) <=> LastHead(ls, h)
    BY <1>1, <1>2 DEF Precedes, LastHead
<1>5. \A h : h \in View!Heads(ls) => new[h] = ls[h]
    BY <1>1, <1>2
<1>6. \A c, h : Precedes(ls, h, c) => h \in View!Heads(ls)
    BY DEF Precedes
<1>7. ASSUME NEW c \in 1..Len(ls) PROVE Ends(new, c, name) <=> Ends(ls, c, name)
    <2>1. \A h : (Precedes(new, h, c) /\ Begins(new[h], name)) <=> (Precedes(ls, h, c) /\ Begins(ls[h], name))
        BY <1>3, <1>5, <1>6
    <2>2. new[c] = ls[c]
        BY <1>1
    <2>. QED
        BY <2>1, <2>2 DEF Ends
<1>8. Ends(new, n, name) <=>
          \/ Registers(t, name)
          \/ View!Is(t, "CONTEXTMENU") /\ \E h : LastHead(ls, h) /\ Begins(ls[h], name)
    <2>1. \A h : (Precedes(new, h, n) /\ Begins(new[h], name)) <=> (LastHead(ls, h) /\ Begins(ls[h], name))
        BY <1>3, <1>4, <1>5, <1>6
    <2>. QED
        BY <1>1, <2>1 DEF Ends
<1>9. Ended(new, name) = With(Ended(ls, name), n, Ends(new, n, name))
    BY <1>1, <1>7 DEF Ended, With
<1>10. ASSUME NEW c \in 1..Len(ls) PROVE EndedAt(new)[c] = EndedAt(ls)[c]
    <2>1. CASE View!Is(ls[c], "LOAD")
        BY <1>1, <2>1 DEF EndedAt
    <2>2. CASE ~View!Is(ls[c], "LOAD")
        <3>. DEFINE h == CHOOSE x : Precedes(ls, x, c)
        <3>1. (CHOOSE x : Precedes(new, x, c)) = h
            <4>1. \A x : Precedes(new, x, c) <=> Precedes(ls, x, c)
                BY <1>3
            <4>. QED
                BY <4>1
        <3>2. c \in Nat /\ c <= Len(ls) + 1
            BY <1>1
        <3>3. MenuOf(new, h, c) = MenuOf(ls, h, c)
            BY <3>2, MenuStays
        <3>4. EndedAt(new)[c] = MenuOf(new, h, c)
            BY <1>1, <2>2, <3>1 DEF EndedAt
        <3>5. EndedAt(ls)[c] = MenuOf(ls, h, c)
            BY <1>1, <2>2 DEF EndedAt
        <3>. QED
            BY <3>3, <3>4, <3>5
    <2>. QED
        BY <2>1, <2>2
<1>11. View!Is(t, "LOAD") => EndedAt(new)[n] = <<"plugin">>
    BY <1>1 DEF EndedAt
<1>12. ASSUME NEW h, View!Is(t, "CONTEXTMENU"), LastHead(ls, h) PROVE EndedAt(new)[n] = MenuOf(ls, h, n)
    <2>1. Precedes(new, h, n)
        BY <1>3, <1>4, <1>12
    <2>2. (CHOOSE x : Precedes(new, x, n)) = h
        BY <1>1, <2>1, HeadsAre
    <2>3. ~View!Is(t, "LOAD")
        BY <1>12 DEF View!Is
    <2>4. EndedAt(new)[n] = MenuOf(new, h, n)
        BY <1>1, <2>2, <2>3 DEF EndedAt
    <2>5. MenuOf(new, h, n) = MenuOf(ls, h, n)
        BY <1>1, MenuStays DEF n
    <2>. QED
        BY <2>4, <2>5
<1>13. Ended(ls, name) \subseteq 1..Len(ls)
    BY <1>1 DEF Ended
<1>. QED
    BY <1>8, <1>9, <1>10, <1>11, <1>12, <1>13 DEF n

\* An item comes last in the menu that is being defined.
LEMMA MenuGrows ==
    ASSUME NEW ls, NEW t, NEW new, More(ls, t, new), NEW h, LastHead(ls, h)
    PROVE  /\ View!IsItem(t) => MenuOf(new, h, Len(new) + 1) = Append(MenuOf(ls, h, Len(ls) + 1), t)
           /\ ~View!IsItem(t) => MenuOf(new, h, Len(new) + 1) = MenuOf(ls, h, Len(ls) + 1)
           /\ MenuOf(ls, h, Len(ls) + 1) \in Seq(LINE)
PROOF
<1>. DEFINE n == Len(ls) + 1
            I == ItemsOf(ls, h, n)
            c == Cardinality(I)
<1>1. /\ Len(ls) \in Nat /\ n \in Nat /\ DOMAIN ls = 1..Len(ls) /\ DOMAIN new = (1..Len(ls)) \cup {n}
      /\ new[n] = t /\ ls \in Seq(LINE) /\ new \in Seq(LINE) /\ t \in LINE /\ Len(new) = n
      /\ \A k \in 1..Len(ls) : new[k] = ls[k] /\ k < n
    BY DEF More
<1>2. h \in 1..Len(ls)
    BY <1>1 DEF LastHead, View!Heads
<1>3. \A k \in 1..Len(ls) : k < n + 1 /\ n > h /\ n < n + 1
    BY <1>1, <1>2
<1>4. I \in SUBSET (1..Len(ls))
    BY <1>1 DEF ItemsOf
<1>5. ItemsOf(new, h, n + 1) = With(I, n, View!IsItem(t))
    <2>1. n > h /\ n < n + 1
        BY <1>1, <1>2
    <2>. HIDE DEF n
    <2>. QED
        BY <1>1, <1>3, <2>1 DEF ItemsOf, With
<1>. HIDE DEF I
<1>6. c \in Nat /\ \A i \in 1..c : NthOf(I, i) \in 1..Len(ls)
    BY <1>1, <1>4, PlacesAre, NthIs
<1>. HIDE DEF c
<1>7. MenuOf(ls, h, n) = [i \in 1..c |-> ls[NthOf(I, i)]]
    BY DEF MenuOf, I, c
<1>8. \A i \in 1..c : ls[NthOf(I, i)] \in LINE /\ new[NthOf(I, i)] = ls[NthOf(I, i)]
    BY <1>1, <1>6, SeqIs
<1>9. MenuOf(ls, h, n) \in Seq(LINE) /\ Len(MenuOf(ls, h, n)) = c
    <2>1. MenuOf(ls, h, n) \in [1..c -> LINE]
        BY <1>7, <1>8
    <2>. QED
        BY <1>6, <2>1, SeqDef, LenProperties
<1>10. ASSUME ~View!IsItem(t) PROVE MenuOf(new, h, n + 1) = MenuOf(ls, h, n)
    <2>1. ItemsOf(new, h, n + 1) = I
        BY <1>5, <1>10 DEF With
    <2>2. MenuOf(new, h, n + 1) = [i \in 1..c |-> new[NthOf(I, i)]]
        BY <2>1 DEF MenuOf, c
    <2>. QED
        BY <1>7, <1>8, <2>2
<1>11. ASSUME View!IsItem(t) PROVE MenuOf(new, h, n + 1) = Append(MenuOf(ls, h, n), t)
    <2>. DEFINE J == I \cup {n}
                a == Append(MenuOf(ls, h, n), t)
    <2>1. ItemsOf(new, h, n + 1) = J
        BY <1>5, <1>11 DEF With
    <2>2. Cardinality(J) = c + 1 /\ (\A i \in 1..c : NthOf(J, i) = NthOf(I, i)) /\ NthOf(J, c + 1) = n
        BY <1>1, <1>4, PlacesAre, NthNew DEF c
    <2>. HIDE DEF J
    <2>3. MenuOf(new, h, n + 1) = [i \in 1..(c + 1) |-> new[NthOf(J, i)]]
        BY <2>1, <2>2 DEF MenuOf
    <2>4. /\ a \in Seq(LINE) /\ Len(a) = c + 1 /\ a[c + 1] = t
          /\ \A i \in 1..c : a[i] = MenuOf(ls, h, n)[i]
        BY <1>1, <1>9, AppendIs
    <2>. HIDE DEF a
    <2>5. a = [i \in 1..(c + 1) |-> a[i]]
        BY <2>4, SeqIs
    <2>6. ASSUME NEW i \in 1..(c + 1) PROVE a[i] = new[NthOf(J, i)]
        <3>1. i \in 1..c \/ i = c + 1
            BY <1>6
        <3>2. \A k \in 1..c : a[k] = ls[NthOf(I, k)]
            BY <1>7, <2>4
        <3>. QED
            BY <1>1, <1>8, <2>2, <2>4, <3>1, <3>2
    <2>7. MenuOf(new, h, n + 1) = a
        BY <2>3, <2>5, <2>6
    <2>. QED
        BY <2>7 DEF a
<1>. QED
    BY <1>1, <1>9, <1>10, <1>11 DEF n

\* A menu begins without items.
LEMMA NoItems ==
    ASSUME NEW ls \in Seq(LINE), Len(ls) \in Nat
    PROVE  MenuOf(ls, Len(ls), Len(ls) + 1) = <<>>
PROOF
<1>1. DOMAIN ls = 1..Len(ls)
    BY SeqIs
<1>2. ItemsOf(ls, Len(ls), Len(ls) + 1) = {}
    BY <1>1 DEF ItemsOf
<1>3. Cardinality({}) = 0
    BY FS_EmptySet
<1>. DEFINE m == MenuOf(ls, Len(ls), Len(ls) + 1)
<1>4. m = [i \in 1..0 |-> ls[NthOf({}, i)]]
    BY <1>2, <1>3 DEF MenuOf
<1>5. m \in [1..0 -> LINE]
    <2>1. \A i \in 1..0 : FALSE
        OBVIOUS
    <2>2. \A i \in 1..0 : ls[NthOf({}, i)] \in LINE
        BY <2>1
    <2>. QED
        BY <1>4, <2>2
<1>. HIDE DEF m
<1>6. m \in Seq(LINE) /\ Len(m) = 0
    BY <1>5, SeqDef, LenProperties
<1>7. m = <<>>
    BY <1>6, EmptySeq
<1>. QED
    BY <1>7 DEF m

-----------------------------------------------------------------------------
(* The menus that the program has, and those of the lines.                 *)
ShownBy(menu) ==
    IF menu.plugin THEN <<"plugin">>
    ELSE [i \in DOMAIN menu.items |-> <<menu.items[i].kind>> \o menu.items[i].args]
Shows(menus) == [i \in DOMAIN menus |-> ShownBy(menus[i])]
FoundIn(menus, name) == {i \in DOMAIN menus : menus[i].name = name}
MenusAgree(menus, ls) ==
    \A name : name # Null => FirstAgree(FoundIn(menus, name), Shows(menus), Ended(ls, name), EndedAt(ls))
\* The menu that is being defined, and the lines since its own.
MdefAgrees(m, ls) ==
    m.name # Null =>
        ~m.plugin /\ \E h : LastHead(ls, h) /\ Begins(ls[h], m.name) /\ ShownBy(m) = MenuOf(ls, h, Len(ls) + 1)
MenuInv ==
    /\ MenusAgree(menu_defs, IF phase = "running" THEN Append(Now, END) ELSE Now)
    /\ phase \in {"parsing", "box"} => MdefAgrees(mdef, Now)

\* A menu more, for those who look for a name.
LEMMA FoundMore ==
    ASSUME NEW menus \in Seq(MENU), NEW m \in MENU, NEW name
    PROVE  /\ Len(menus) \in Nat /\ FoundIn(menus, name) \subseteq 1..Len(menus)
           /\ FoundIn(Append(menus, m), name) = With(FoundIn(menus, name), Len(menus) + 1, m.name = name)
           /\ \A i \in 1..Len(menus) : Shows(Append(menus, m))[i] = Shows(menus)[i]
           /\ Shows(Append(menus, m))[Len(menus) + 1] = ShownBy(m)
PROOF
<1>1. Len(menus) \in Nat /\ DOMAIN menus = 1..Len(menus)
    BY SeqIs
<1>2. /\ DOMAIN Append(menus, m) = 1..(Len(menus) + 1)
      /\ \A i \in 1..Len(menus) : Append(menus, m)[i] = menus[i]
      /\ Append(menus, m)[Len(menus) + 1] = m
    BY AppendIs
<1>3. 1..(Len(menus) + 1) = (1..Len(menus)) \cup {Len(menus) + 1}
    BY <1>1
<1>4. FoundIn(menus, name) \subseteq 1..Len(menus)
    BY <1>1 DEF FoundIn
<1>5. FoundIn(Append(menus, m), name) = With(FoundIn(menus, name), Len(menus) + 1, m.name = name)
    BY <1>1, <1>2, <1>3 DEF FoundIn, With
<1>6. \A i \in 1..Len(menus) : Shows(Append(menus, m))[i] = Shows(menus)[i]
    BY <1>1, <1>2, <1>3 DEF Shows
<1>7. Shows(Append(menus, m))[Len(menus) + 1] = ShownBy(m)
    BY <1>2, <1>3 DEF Shows
<1>. QED
    BY <1>1, <1>4, <1>5, <1>6, <1>7

\* A line that completes no menu.
LEMMA MenusStay ==
    ASSUME NEW ls, NEW t, NEW new, More(ls, t, new), NEW menus \in Seq(MENU), MenusAgree(menus, ls),
           ~View!Is(t, "CONTEXTMENU"), \A name : name # Null => ~Registers(t, name)
    PROVE  MenusAgree(menus, new)
PROOF
<1>1. SUFFICES ASSUME NEW name, name # Null
               PROVE  FirstAgree(FoundIn(menus, name), Shows(menus), Ended(new, name), EndedAt(new))
    BY DEF MenusAgree
<1>2. Len(menus) \in Nat /\ FoundIn(menus, name) \subseteq 1..Len(menus) /\ Len(ls) \in Nat
    BY SeqIs DEF FoundIn, More
<1>3. Ended(new, name) = With(Ended(ls, name), Len(ls) + 1, Ends(new, Len(ls) + 1, name))
    BY EndedMore
<1>4. ~Ends(new, Len(ls) + 1, name)
    <2>1. Ends(new, Len(ls) + 1, name) <=>
                 \/ Registers(t, name)
                 \/ View!Is(t, "CONTEXTMENU") /\ \E h : LastHead(ls, h) /\ Begins(ls[h], name)
        BY EndedMore
    <2>. QED
        BY <1>1, <2>1
<1>5. Ended(new, name) = Ended(ls, name)
    BY <1>3, <1>4, WithNone
<1>6. Ended(ls, name) \subseteq 1..Len(ls) /\ \A c \in 1..Len(ls) : EndedAt(new)[c] = EndedAt(ls)[c]
    BY EndedMore
<1>7. Grow(Len(menus), FoundIn(menus, name), Shows(menus), FoundIn(menus, name), Shows(menus),
           Len(ls), Ended(ls, name), EndedAt(ls), Ended(new, name), EndedAt(new))
    BY <1>2, <1>5, <1>6 DEF Grow
<1>8. FirstAgree(FoundIn(menus, name), Shows(menus), Ended(ls, name), EndedAt(ls))
    BY <1>1 DEF MenusAgree
<1>. QED
    BY <1>7, <1>8, FirstMore

\* A line that completes the menu M, or NONE.
LEMMA MenusMore ==
    ASSUME NEW ls, NEW t, NEW new, More(ls, t, new), NEW menus \in Seq(MENU), MenusAgree(menus, ls),
           NEW m \in MENU,
           \A name : name # Null => (Ends(new, Len(ls) + 1, name) <=> m.name = name),
           m.name # Null => EndedAt(new)[Len(ls) + 1] = ShownBy(m)
    PROVE  MenusAgree(Append(menus, m), new)
PROOF
<1>1. SUFFICES ASSUME NEW name, name # Null
               PROVE  FirstAgree(FoundIn(Append(menus, m), name), Shows(Append(menus, m)),
                                 Ended(new, name), EndedAt(new))
    BY DEF MenusAgree
<1>2. /\ Len(menus) \in Nat /\ FoundIn(menus, name) \subseteq 1..Len(menus)
      /\ FoundIn(Append(menus, m), name) = With(FoundIn(menus, name), Len(menus) + 1, m.name = name)
      /\ \A i \in 1..Len(menus) : Shows(Append(menus, m))[i] = Shows(menus)[i]
      /\ Shows(Append(menus, m))[Len(menus) + 1] = ShownBy(m)
    BY FoundMore
<1>3. /\ Ended(new, name) = With(Ended(ls, name), Len(ls) + 1, Ends(new, Len(ls) + 1, name))
      /\ Ended(ls, name) \subseteq 1..Len(ls) /\ \A c \in 1..Len(ls) : EndedAt(new)[c] = EndedAt(ls)[c]
    BY EndedMore
<1>4. Len(ls) \in Nat
    BY DEF More
<1>5. Grow(Len(menus), FoundIn(menus, name), Shows(menus),
           FoundIn(Append(menus, m), name), Shows(Append(menus, m)),
           Len(ls), Ended(ls, name), EndedAt(ls), Ended(new, name), EndedAt(new))
    <2>1. CASE m.name = name
        <3>1. Ends(new, Len(ls) + 1, name) /\ EndedAt(new)[Len(ls) + 1] = ShownBy(m)
            BY <1>1, <2>1
        <3>2. /\ FoundIn(Append(menus, m), name) = FoundIn(menus, name) \cup {Len(menus) + 1}
              /\ Ended(new, name) = Ended(ls, name) \cup {Len(ls) + 1}
            BY <1>2, <1>3, <2>1, <3>1 DEF With
        <3>. QED
            BY <1>2, <1>3, <1>4, <3>1, <3>2 DEF Grow
    <2>2. CASE m.name # name
        <3>1. ~Ends(new, Len(ls) + 1, name)
            BY <1>1, <2>2
        <3>2. FoundIn(Append(menus, m), name) = FoundIn(menus, name) /\ Ended(new, name) = Ended(ls, name)
            BY <1>2, <1>3, <2>2, <3>1, WithNone
        <3>. QED
            BY <1>2, <1>3, <1>4, <3>2 DEF Grow
    <2>. QED
        BY <2>1, <2>2
<1>6. FirstAgree(FoundIn(menus, name), Shows(menus), Ended(ls, name), EndedAt(ls))
    BY <1>1 DEF MenusAgree
<1>. QED
    BY <1>5, <1>6, FirstMore

\* wrap_up_vec: the menu being defined is complete.
LEMMA MenusWrapped ==
    ASSUME NEW ls, NEW t, NEW new, More(ls, t, new), View!Is(t, "CONTEXTMENU"), Types,
           MenusAgree(menu_defs, ls), MdefAgrees(mdef, ls), mdef.name # Null <=> Defining(ls)
    PROVE  MenusAgree(wrap_up_vec, new)
PROOF
<1>1. menu_defs \in Seq(MENU) /\ mdef \in MENU
    BY DEF Types
<1>2. \A name : ~Registers(t, name)
    BY DEF Registers, IsGood, View!Is
<1>3. \A name : Ends(new, Len(ls) + 1, name) <=> \E h : LastHead(ls, h) /\ Begins(ls[h], name)
    BY <1>2, EndedMore
<1>4. CASE mdef.name = Null
    <2>1. wrap_up_vec = menu_defs
        BY <1>4 DEF wrap_up_vec
    <2>2. \A name : ~Ends(new, Len(ls) + 1, name)
        BY <1>3, <1>4 DEF Begins, Defining
    <2>3. ASSUME NEW name, name # Null
          PROVE  FirstAgree(FoundIn(menu_defs, name), Shows(menu_defs), Ended(new, name), EndedAt(new))
        <3>1. Len(menu_defs) \in Nat /\ FoundIn(menu_defs, name) \subseteq 1..Len(menu_defs) /\ Len(ls) \in Nat
            BY <1>1, SeqIs DEF FoundIn, More
        <3>2. Ended(new, name) = With(Ended(ls, name), Len(ls) + 1, Ends(new, Len(ls) + 1, name))
            BY EndedMore
        <3>3. Ended(new, name) = Ended(ls, name)
            BY <2>2, <3>2, WithNone
        <3>4. Ended(ls, name) \subseteq 1..Len(ls) /\ \A c \in 1..Len(ls) : EndedAt(new)[c] = EndedAt(ls)[c]
            BY EndedMore
        <3>5. Grow(Len(menu_defs), FoundIn(menu_defs, name), Shows(menu_defs), FoundIn(menu_defs, name),
                   Shows(menu_defs), Len(ls), Ended(ls, name), EndedAt(ls), Ended(new, name), EndedAt(new))
            BY <3>1, <3>3, <3>4 DEF Grow
        <3>6. FirstAgree(FoundIn(menu_defs, name), Shows(menu_defs), Ended(ls, name), EndedAt(ls))
            BY <2>3 DEF MenusAgree
        <3>. QED
            BY <3>5, <3>6, FirstMore
    <2>. QED
        BY <2>1, <2>3 DEF MenusAgree
<1>5. CASE mdef.name # Null
    <2>1. wrap_up_vec = Append(menu_defs, mdef)
        BY <1>5 DEF wrap_up_vec
    <2>2. PICK h : /\ LastHead(ls, h) /\ Begins(ls[h], mdef.name)
                   /\ ShownBy(mdef) = MenuOf(ls, h, Len(ls) + 1)
        BY <1>5 DEF MdefAgrees
    <2>3. \A i : LastHead(ls, i) => i = h
        <3>1. \A i \in View!Heads(ls) : i \in Nat
            <4>1. ls \in Seq(LINE)
                BY DEF More
            <4>. QED
                BY <4>1, HeadsAre
        <3>. QED
            BY <2>2, <3>1 DEF LastHead
    <2>4. \A name : Ends(new, Len(ls) + 1, name) <=> mdef.name = name
        BY <1>3, <2>2, <2>3 DEF Begins
    <2>5. EndedAt(new)[Len(ls) + 1] = ShownBy(mdef)
        BY <2>2, EndedMore
    <2>6. MenusAgree(Append(menu_defs, mdef), new)
        BY <1>1, <2>4, <2>5, MenusMore
    <2>. QED
        BY <2>1, <2>6
<1>. QED
    BY <1>4, <1>5

\* LOAD: the plugin's menu is complete at once.
LEMMA MenusLoaded ==
    ASSUME NEW ls, NEW t, NEW new, More(ls, t, new), IsGood(t, "LOAD"), t[2] \in DOMAIN Plugins,
           NEW menus \in Seq(MENU), PluginMenu(t) \in MENU, MenusAgree(menus, ls)
    PROVE  MenusAgree(Append(menus, PluginMenu(t)), new)
PROOF
<1>1. ~View!Is(t, "CONTEXTMENU") /\ View!Is(t, "LOAD")
    BY DEF IsGood, View!Is
<1>2. PluginMenu(t).name = Plugins[t[2]].menu /\ ShownBy(PluginMenu(t)) = <<"plugin">>
    BY DEF PluginMenu, NoDef, ShownBy
<1>3. \A name : Ends(new, Len(ls) + 1, name) <=> Registers(t, name)
    BY <1>1, EndedMore
<1>4. \A name : Ends(new, Len(ls) + 1, name) <=> PluginMenu(t).name = name
    BY <1>2, <1>3 DEF Registers
<1>5. EndedAt(new)[Len(ls) + 1] = ShownBy(PluginMenu(t))
    BY <1>1, <1>2, EndedMore
<1>. QED
    BY <1>4, <1>5, MenusMore

\* An item shows what its line says.
LEMMA ItemShown ==
    ASSUME NEW t \in LINE, t # <<>>, mdef \in MENU, ~mdef.plugin, NewItem(t) \in ITEM,
           NEW shown \in Seq(LINE), ShownBy(mdef) = shown
    PROVE  LET m == [mdef EXCEPT !.items = Append(@, NewItem(t))]
           IN ~m.plugin /\ m.name = mdef.name /\ ShownBy(m) = Append(shown, t)
PROOF
<1>. DEFINE m == [mdef EXCEPT !.items = Append(@, NewItem(t))]
            n == Len(mdef.items)
            items == Append(mdef.items, NewItem(t))
            Show(i) == <<i.kind>> \o i.args
<1>1. mdef.items \in Seq(ITEM) /\ n \in Nat /\ DOMAIN mdef.items = 1..n
    BY SeqIs DEF MENU
<1>2. m.items = items /\ m.plugin = mdef.plugin /\ m.name = mdef.name
    BY DEF MENU
<1>3. /\ DOMAIN items = 1..(n + 1) /\ items[n + 1] = NewItem(t)
      /\ \A i \in 1..n : items[i] = mdef.items[i]
    BY <1>1, AppendIs
<1>. HIDE DEF m, items
<1>4. Show(NewItem(t)) = t
    <2>1. t \in Seq(TEXTS) /\ Len(t) \in Nat /\ Len(t) >= 1 /\ t[1] \in TEXTS
        BY LineIs
    <2>2. Tail(t) \in Seq(TEXTS) /\ Len(Tail(t)) = Len(t) - 1
          /\ \A i \in 1..Len(Tail(t)) : Tail(t)[i] = t[i + 1]
        BY <2>1, HeadTailProperties
    <2>3. <<t[1]>> \in Seq(TEXTS) /\ Len(<<t[1]>>) = 1 /\ <<t[1]>>[1] = t[1]
        BY <2>1
    <2>. DEFINE h == <<t[1]>>
                s == h \o Tail(t)
    <2>. HIDE DEF h
    <2>4. /\ s \in Seq(TEXTS) /\ Len(s) = Len(h) + Len(Tail(t))
          /\ \A i \in 1..(Len(h) + Len(Tail(t))) : s[i] = IF i <= Len(h) THEN h[i] ELSE Tail(t)[i - Len(h)]
        <3>1. h \in Seq(TEXTS)
            BY <2>3 DEF h
        <3>. QED
            BY <2>2, <3>1, ConcatProperties
    <2>5. Len(h) = 1 /\ h[1] = t[1]
        BY <2>3 DEF h
    <2>. HIDE DEF s
    <2>6. Len(s) = Len(t) /\ s = [i \in 1..Len(t) |-> s[i]] /\ t = [i \in 1..Len(t) |-> t[i]]
        <3>1. Len(s) = Len(t)
            BY <2>1, <2>2, <2>4, <2>5
        <3>. QED
            BY <2>1, <2>4, <3>1, SeqIs
    <2>7. ASSUME NEW i \in 1..Len(t) PROVE s[i] = t[i]
        <3>1. i \in 1..(Len(h) + Len(Tail(t)))
            BY <2>1, <2>2, <2>5
        <3>2. s[i] = IF i <= 1 THEN h[i] ELSE Tail(t)[i - 1]
            BY <2>4, <2>5, <3>1
        <3>3. CASE i = 1
            BY <2>5, <3>2, <3>3
        <3>4. CASE i # 1
            <4>1. i - 1 \in 1..Len(Tail(t)) /\ ~(i <= 1) /\ (i - 1) + 1 = i
                BY <2>1, <2>2, <3>4
            <4>. QED
                BY <2>2, <3>2, <4>1
        <3>. QED
            BY <3>3, <3>4
    <2>8. s = t
        BY <2>6, <2>7
    <2>9. NewItem(t).kind = t[1] /\ NewItem(t).args = Tail(t)
        BY DEF NewItem, Built
    <2>. QED
        BY <2>8, <2>9 DEF s, h
<1>5. shown = [i \in 1..n |-> Show(mdef.items[i])]
    BY <1>1 DEF ShownBy
<1>6. ShownBy(m) = [i \in 1..(n + 1) |-> Show(items[i])]
    BY <1>2, <1>3 DEF ShownBy
<1>. HIDE DEF Show
<1>7. Len(shown) = n
    <2>1. DOMAIN shown = 1..n /\ DOMAIN shown = 1..Len(shown) /\ Len(shown) \in Nat
        BY <1>5, SeqIs
    <2>. QED
        BY <1>1, <2>1, SameLength
<1>. DEFINE a == Append(shown, t)
<1>8. a = [i \in 1..(n + 1) |-> a[i]] /\ a[n + 1] = t /\ \A i \in 1..n : a[i] = shown[i]
    <2>1. a \in Seq(LINE) /\ Len(a) = n + 1 /\ a[n + 1] = t /\ \A i \in 1..n : a[i] = shown[i]
        BY <1>7, AppendIs
    <2>. HIDE DEF a
    <2>2. a = [i \in 1..Len(a) |-> a[i]]
        BY <2>1, SeqIs
    <2>. QED
        BY <2>1, <2>2
<1>. HIDE DEF a
<1>9. ASSUME NEW i \in 1..(n + 1) PROVE a[i] = Show(items[i])
    <2>1. i \in 1..n \/ i = n + 1
        BY <1>1
    <2>. QED
        BY <1>3, <1>4, <1>5, <1>8, <2>1
<1>10. ShownBy(m) = a
    BY <1>6, <1>8, <1>9
<1>. QED
    BY <1>2, <1>10 DEF m, a

\* A line is followed by the next one or by a box.
LEMMA PhaseRead ==
    ASSUME NEW t \in LINE, parse_context_menu(t), phase' # "crashed"
    PROVE  phase' \in {"parsing", "box"}
PROOF
<1>1. CASE BadLine(t)
    BY <1>1 DEF BadLine, config_error
<1>2. CASE FatalLine(t)
    BY <1>2 DEF FatalLine, Crash
<1>3. CASE EmptyLine(t)
    BY <1>3 DEF EmptyLine, Done
<1>4. CASE GoodLine(t)
    <2>1. \E frees : Done(frees)
        BY <1>4 DEF GoodLine, MenuLine, ItemLine, SaferLine, HotkeyLine, SlitLine, LoadLine, MatchLine, SetLine
    <2>. QED
        BY <2>1 DEF Done
<1>. QED
    BY <1>1, <1>2, <1>3, <1>4, Effects

\* A CONTEXTMENU line begins a menu without items.
LEMMA MdefNew ==
    ASSUME NEW ls, NEW t, NEW new, More(ls, t, new), View!Is(t, "CONTEXTMENU"), View!Good(t)
    PROVE  MdefAgrees(EmptyMenu(t), new)
PROOF
<1>1. /\ new \in Seq(LINE) /\ Len(new) \in Nat /\ Len(new) = Len(ls) + 1 /\ new[Len(new)] = t
    BY DEF More
<1>2. LastHead(new, Len(new)) /\ Begins(new[Len(new)], t[2])
    BY <1>1, MoreHeads DEF Begins
<1>3. MenuOf(new, Len(new), Len(new) + 1) = <<>>
    BY <1>1, NoItems
<1>4. EmptyMenu(t).name = t[2] /\ EmptyMenu(t).plugin = FALSE /\ EmptyMenu(t).items = <<>>
    BY DEF EmptyMenu, NoDef
<1>5. ShownBy(EmptyMenu(t)) = <<>>
    <2>. DEFINE items == EmptyMenu(t).items
                Show(i) == <<items[i].kind>> \o items[i].args
    <2>1. DOMAIN items = {}
        BY <1>4
    <2>2. ShownBy(EmptyMenu(t)) = [i \in DOMAIN items |-> Show(i)]
        BY <1>4 DEF ShownBy
    <2>3. [i \in {} |-> Show(i)] = <<>>
        OBVIOUS
    <2>. QED
        BY <2>1, <2>2, <2>3
<1>. QED
    BY <1>2, <1>3, <1>4, <1>5 DEF MdefAgrees

\* An item line puts its item last.
LEMMA MdefItem ==
    ASSUME NEW ls, NEW t, NEW new, More(ls, t, new), ItemLine(t), View!IsItem(t), mdef \in MENU,
           NewItem(t) \in ITEM, MdefAgrees(mdef, ls)
    PROVE  MdefAgrees(mdef', new)
PROOF
<1>0. t \in LINE /\ t # <<>> /\ ~View!Is(t, "CONTEXTMENU")
    BY TypesAre DEF More, View!IsItem, View!Is
<1>1. mdef.name # Null /\ mdef' = [mdef EXCEPT !.items = Append(@, NewItem(t))]
    BY DEF ItemLine
<1>2. PICK h : /\ LastHead(ls, h) /\ Begins(ls[h], mdef.name)
               /\ ShownBy(mdef) = MenuOf(ls, h, Len(ls) + 1)
    BY <1>1 DEF MdefAgrees
<1>3. ~mdef.plugin
    BY <1>1 DEF MdefAgrees
<1>4. /\ MenuOf(ls, h, Len(ls) + 1) \in Seq(LINE)
      /\ MenuOf(new, h, Len(new) + 1) = Append(MenuOf(ls, h, Len(ls) + 1), t)
    BY <1>2, MenuGrows
<1>5. ~mdef'.plugin /\ mdef'.name = mdef.name /\ ShownBy(mdef') = Append(MenuOf(ls, h, Len(ls) + 1), t)
    BY <1>0, <1>1, <1>2, <1>3, <1>4, ItemShown
<1>6. LastHead(new, h)
    BY <1>0, <1>2, MoreHeads
<1>7. new[h] = ls[h]
    BY <1>2 DEF LastHead, View!Heads, More
<1>. QED
    BY <1>2, <1>4, <1>5, <1>6, <1>7 DEF MdefAgrees

\* Other lines do not touch the menu being defined.
LEMMA MdefStays ==
    ASSUME NEW ls, NEW t, NEW new, More(ls, t, new), ~View!Is(t, "CONTEXTMENU"), ~View!IsItem(t),
           NEW m, MdefAgrees(m, ls)
    PROVE  MdefAgrees(m, new)
PROOF
<1>1. CASE m.name = Null
    BY <1>1 DEF MdefAgrees
<1>2. CASE m.name # Null
    <2>1. PICK h : LastHead(ls, h) /\ Begins(ls[h], m.name) /\ ShownBy(m) = MenuOf(ls, h, Len(ls) + 1)
        BY <1>2 DEF MdefAgrees
    <2>2. LastHead(new, h) /\ MenuOf(new, h, Len(new) + 1) = MenuOf(ls, h, Len(ls) + 1)
        BY <2>1, MoreHeads, MenuGrows
    <2>3. new[h] = ls[h]
        BY <2>1 DEF LastHead, View!Heads, More
    <2>. QED
        BY <1>2, <2>1, <2>2, <2>3 DEF MdefAgrees
<1>. QED
    BY <1>1, <1>2

\* The tokens of an item line.
LEMMA LineTail ==
    ASSUME NEW t \in LINE, t # <<>>
    PROVE  t[1] \in TEXT /\ Tail(t) \in Seq(TEXT)
PROOF
<1>1. t \in Seq(TEXTS) /\ Tail(t) \in Seq(TEXTS) /\ t[1] \in TEXTS
    <2>1. t \in Seq(TEXTS) /\ 1 \in 1..Len(t) /\ \A i \in 1..Len(t) : t[i] \in TEXTS
        BY LineIs
    <2>. QED
        BY <2>1, HeadTailProperties
<1>2. Len(Tail(t)) \in Nat /\ Tail(t) \in [1..Len(Tail(t)) -> TEXTS]
    BY <1>1, SeqIs
<1>3. Tail(t) \in [1..Len(Tail(t)) -> TEXT]
    BY <1>2, TextIs
<1>4. Tail(t) \in Seq(TEXT)
    BY <1>2, <1>3, SeqDef
<1>. QED
    BY <1>1, <1>4, TextIs

\* The menus stay those of the lines.
LEMMA MenuRead ==
    ASSUME NEW t, Reading(t), Types, BoxInv, MenuInv, phase' # "crashed"
    PROVE  MenuInv'
PROOF
<1>. DEFINE new == Now'
<1>1. /\ t \in LINE /\ More(Now, t, new) /\ Changes(t) /\ phase = "parsing" /\ phase' \in {"parsing", "box"}
    BY MoreIs, ChangesAre, PhaseRead DEF Reading
<1>2. /\ MenusAgree(menu_defs, Now) /\ MdefAgrees(mdef, Now) /\ (mdef.name # Null <=> Defining(Now))
      /\ menu_defs \in Seq(MENU) /\ mdef \in MENU
    BY <1>1 DEF MenuInv, BoxInv, Types
<1>3. lineno' \in Nat
    BY DEF Reading
<1>. HIDE DEF new
<1>4. MenusAgree(menu_defs', new)
    <2>1. CASE View!Is(t, "CONTEXTMENU")
        <3>1. menu_defs' = wrap_up_vec
            BY <1>1, <2>1 DEF Changes
        <3>. QED
            BY <1>1, <1>2, <2>1, <3>1, MenusWrapped
    <2>2. CASE ~View!Is(t, "CONTEXTMENU")
        <3>1. CASE IsGood(t, "LOAD") /\ t[2] \in DOMAIN Plugins /\ Plugins[t[2]].menu # Null
            <4>1. LoadLine(t)
                BY <1>1, <2>2, <3>1 DEF Changes
            <4>2. menu_defs' = Append(menu_defs, PluginMenu(t))
                BY <3>1, <4>1 DEF LoadLine
            <4>3. PluginMenu(t) \in MENU
                BY <1>1, <1>3, <3>1, <4>1, NewTypes
            <4>. QED
                BY <1>1, <1>2, <3>1, <4>2, <4>3, MenusLoaded
        <3>2. CASE ~(IsGood(t, "LOAD") /\ t[2] \in DOMAIN Plugins /\ Plugins[t[2]].menu # Null)
            <4>1. menu_defs' = menu_defs
                <5>1. CASE IsGood(t, "LOAD")
                    <6>1. LoadLine(t)
                        BY <1>1, <2>2, <5>1 DEF Changes
                    <6>. QED
                        BY <3>2, <5>1, <6>1 DEF LoadLine
                <5>2. CASE ~IsGood(t, "LOAD")
                    BY <1>1, <2>2, <5>2 DEF Changes
                <5>. QED
                    BY <5>1, <5>2
            <4>2. \A name : name # Null => ~Registers(t, name)
                BY <3>2 DEF Registers
            <4>. QED
                BY <1>1, <1>2, <2>2, <4>1, <4>2, MenusStay
        <3>. QED
            BY <3>1, <3>2
    <2>. QED
        BY <2>1, <2>2
<1>5. MdefAgrees(mdef', new)
    <2>1. CASE View!Is(t, "CONTEXTMENU") /\ View!Good(t)
        <3>1. mdef' = EmptyMenu(t)
            BY <1>1, <2>1 DEF Changes
        <3>. QED
            BY <1>1, <2>1, <3>1, MdefNew
    <2>2. CASE View!Is(t, "CONTEXTMENU") /\ ~View!Good(t)
        <3>1. mdef' = NoDef
            BY <1>1, <2>2 DEF Changes
        <3>. QED
            BY <3>1 DEF MdefAgrees, NoDef
    <2>3. CASE ~View!Is(t, "CONTEXTMENU") /\ View!IsItem(t)
        <3>1. ItemLine(t)
            BY <1>1, <2>3 DEF Changes
        <3>2. NewItem(t) \in ITEM
            <4>1. t[1] \in TEXT /\ Tail(t) \in Seq(TEXT)
                BY <1>1, <2>3, LineTail DEF View!IsItem
            <4>2. 2..Len(t) \in SUBSET Nat
                BY <1>1, LineIs
            <4>3. Tokens(2..Len(t)) \in SUBSET TOKENS
                BY <1>3, <4>2, TokensAre
            <4>. QED
                BY <4>1, <4>3 DEF NewItem, Built, ITEM
        <3>. QED
            BY <1>1, <1>2, <2>3, <3>1, <3>2, MdefItem
    <2>4. CASE ~View!Is(t, "CONTEXTMENU") /\ ~View!IsItem(t)
        <3>1. mdef' = mdef
            BY <1>1, <2>4 DEF Changes
        <3>. QED
            BY <1>1, <1>2, <2>4, <3>1, MdefStays
    <2>. QED
        BY <2>1, <2>2, <2>3, <2>4
<1>6. phase' # "running"
    BY <1>1
<1>. QED
    BY <1>4, <1>5, <1>6 DEF MenuInv, new

-----------------------------------------------------------------------------
(* What was done with the configuration.                                   *)
AnswerOf(ls, what, of, ended) ==
    CASE what = "window" -> View!Window(ls, of)
      [] what = "program" -> View!Program(ls, of)
      [] what = "setting" -> <<View!Setting(ls, of[1], of[2])>>
      [] what = "early" -> <<View!Stored(of[1], of[2])>>
      [] what = "menu" -> View!Menu(ls, of, ended)
      [] what = "hotkey" -> View!Hotkey(ls, of[1], of[2])
Right(f, d) == d.result = AnswerOf(TextsOf(f, d.read), d.what, d.of, d.ended)
DidInv ==
    /\ did \in Seq(ToSet(did)) /\ Len(did) <= MaxUses
    /\ \A i \in DOMAIN did : did[i].read \in 0..lineno /\ Right(file, did[i])

\* What each use asks of the lines.
LEMMA AnswersAre ==
    ASSUME NEW ls, NEW of, NEW ended
    PROVE  /\ AnswerOf(ls, "window", of, ended) = View!Window(ls, of)
           /\ AnswerOf(ls, "program", of, ended) = View!Program(ls, of)
           /\ AnswerOf(ls, "setting", of, ended) = <<View!Setting(ls, of[1], of[2])>>
           /\ AnswerOf(ls, "early", of, ended) = <<View!Stored(of[1], of[2])>>
           /\ AnswerOf(ls, "menu", of, ended) = View!Menu(ls, of, ended)
           /\ AnswerOf(ls, "hotkey", of, ended) = View!Hotkey(ls, of[1], of[2])
PROOF
<1>. QED
    BY DEF AnswerOf

\* One more use.
LEMMA ListMore ==
    ASSUME NEW s, s \in Seq(ToSet(s)), NEW e
    PROVE  /\ Append(s, e) \in Seq(ToSet(Append(s, e))) /\ Len(s) \in Nat /\ DOMAIN s = 1..Len(s)
           /\ Len(Append(s, e)) = Len(s) + 1 /\ DOMAIN Append(s, e) = (1..Len(s)) \cup {Len(s) + 1}
           /\ Append(s, e)[Len(s) + 1] = e /\ \A i \in 1..Len(s) : Append(s, e)[i] = s[i]
PROOF
<1>. DEFINE S == ToSet(s) \cup {e}
<1>1. Len(s) \in Nat /\ DOMAIN s = 1..Len(s) /\ s \in [1..Len(s) -> ToSet(s)]
    BY SeqIs
<1>2. s \in [1..Len(s) -> S] /\ e \in S
    BY <1>1
<1>. HIDE DEF S
<1>3. s \in Seq(S)
    BY <1>1, <1>2, SeqDef
<1>4. /\ Append(s, e) \in Seq(S) /\ Len(Append(s, e)) = Len(s) + 1
      /\ DOMAIN Append(s, e) = 1..(Len(s) + 1)
      /\ \A i \in 1..Len(s) : Append(s, e)[i] = s[i]
      /\ Append(s, e)[Len(s) + 1] = e
    BY <1>2, <1>3, AppendIs
<1>5. ToSet(Append(s, e)) = S
    BY <1>2, <1>3, AppendSet DEF S
<1>6. 1..(Len(s) + 1) = (1..Len(s)) \cup {Len(s) + 1}
    BY <1>1
<1>. QED
    BY <1>1, <1>4, <1>5, <1>6

\* What was done remains right: the lines it was done by are still there.
LEMMA DidKept ==
    ASSUME DidInv, did' = did, lineno \in Nat, lineno' \in Nat, lineno <= lineno',
           \A n \in 0..lineno : TextsOf(file', n) = TextsOf(file, n)
    PROVE  DidInv'
PROOF
<1>1. ASSUME NEW i \in DOMAIN did PROVE did[i].read \in 0..lineno' /\ Right(file', did[i])
    <2>1. did[i].read \in 0..lineno /\ Right(file, did[i])
        BY DEF DidInv
    <2>2. TextsOf(file', did[i].read) = TextsOf(file, did[i].read)
        BY <2>1
    <2>3. did[i].read \in 0..lineno'
        BY <2>1
    <2>. QED
        BY <2>1, <2>2, <2>3 DEF Right
<1>. QED
    BY <1>1 DEF DidInv

\* A use that is right by the lines read remains so.
LEMMA DidMore ==
    ASSUME FileInv, DidInv, NEW what, NEW of, NEW result, Uses(what, of, result),
           result = AnswerOf(Now, what, of, phase = "running")
    PROVE  DidInv'
PROOF
<1>. DEFINE e == [what |-> what, of |-> of, result |-> result, read |-> lineno, ended |-> phase = "running"]
<1>1. did' = Append(did, e) /\ UNCHANGED <<file, lineno>> /\ Len(did) < MaxUses
    BY DEF Uses
<1>2. did \in Seq(ToSet(did))
    BY DEF DidInv
<1>3. /\ did' \in Seq(ToSet(did')) /\ Len(did) \in Nat /\ DOMAIN did = 1..Len(did)
      /\ Len(did') = Len(did) + 1 /\ DOMAIN did' = (1..Len(did)) \cup {Len(did) + 1}
      /\ did'[Len(did) + 1] = e /\ \A i \in 1..Len(did) : did'[i] = did[i]
    BY <1>1, <1>2, ListMore
<1>4. lineno \in Nat /\ lineno \in 0..lineno
    BY FileIs
<1>5. e.read \in 0..lineno /\ Right(file, e)
    <2>1. /\ e.read = lineno /\ e.what = what /\ e.of = of /\ e.result = result
          /\ e.ended = (phase = "running")
        OBVIOUS
    <2>2. Now = TextsOf(file, lineno)
        BY TextsNow
    <2>. HIDE DEF e
    <2>. QED
        BY <1>4, <2>1, <2>2 DEF Right
<1>6. Len(did') <= MaxUses
    BY <1>1, <1>3, RulesAssumption
<1>. HIDE DEF e
<1>7. ASSUME NEW i \in DOMAIN did' PROVE did'[i].read \in 0..lineno /\ Right(file, did'[i])
    BY <1>3, <1>5 DEF DidInv
<1>. QED
    BY <1>1, <1>3, <1>6, <1>7 DEF DidInv

-----------------------------------------------------------------------------
(* The invariant.                                                          *)
Lookups == ProgramInv /\ WindowInv /\ HotkeyInv /\ CoreInv /\ PluginInv /\ LiveSlits
EndInv == phase = "ended" => Others = {}
Rest ==
    /\ Types /\ BoxInv /\ OwnInv /\ SlitInv /\ EndInv
    /\ phase \in {"parsing", "box", "running"} => Lookups /\ MenuInv
RulesInv == FileInv /\ DidInv /\ Rest

\* Look-ups depend on the lines and the lists only.
LEMMA LookupsKept ==
    ASSUME Now' = Now, UNCHANGED <<safer_matches, window_matches, hotkeys, slits, plugins, core_config>>
    PROVE  (Lookups => Lookups') /\ (SlitInv => SlitInv')
PROOF
<1>1. ProgramInv => ProgramInv'
    BY DEF ProgramInv, SafersFor, SaferLevels
<1>2. WindowInv => WindowInv'
    BY DEF WindowInv, MatchesFor, MatchFuncs, Applies
<1>3. HotkeyInv => HotkeyInv'
    BY DEF HotkeyInv
<1>4. CoreInv => CoreInv'
    BY DEF CoreInv
<1>5. PluginInv => PluginInv'
    BY DEF PluginInv, Named, First
<1>6. LiveSlits => LiveSlits'
    BY DEF LiveSlits
<1>7. SlitInv => SlitInv'
    BY DEF SlitInv
<1>. QED
    BY <1>1, <1>2, <1>3, <1>4, <1>5, <1>6, <1>7 DEF Lookups

\* Nothing is read, and the configuration stays.
LEMMA RestKept ==
    ASSUME Rest, Now' = Now, UNCHANGED <<config, lineno, boxes, freed_tokens>>,
           phase' = phase \/ (phase = "box" /\ phase' = "parsing")
    PROVE  Rest'
PROOF
<1>1. UNCHANGED <<menu_defs, mdef, safer_matches, window_matches, hotkeys, slits, plugins, core_config>>
    BY DEF config
<1>2. Types'
    BY <1>1 DEF Rest, Types
<1>3. BoxInv'
    BY <1>1 DEF Rest, BoxInv, Phases
<1>4. Others' = Others
    BY <1>1, OthersKept
<1>5. OwnInv'
    <2>1. KeysAre(Now)' <=> KeysAre(Now)
        BY <1>1 DEF KeysAre
    <2>. QED
        BY <1>1, <1>4, <2>1 DEF Rest, OwnInv
<1>6. SlitInv' /\ EndInv' /\ (Lookups => Lookups')
    BY <1>1, <1>4, LookupsKept DEF Rest, EndInv
<1>7. MenuInv => MenuInv'
    BY <1>1 DEF MenuInv
<1>. QED
    BY <1>2, <1>3, <1>5, <1>6, <1>7 DEF Rest

\* A line is read.
LEMMA RestRead ==
    ASSUME NEW t, FileInv, FileInv', Reading(t), Rest
    PROVE  Rest'
PROOF
<1>1. phase = "parsing" /\ t \in LINE /\ parse_context_menu(t)
    BY DEF Reading
<1>2. Types /\ BoxInv /\ OwnInv /\ SlitInv /\ Lookups /\ MenuInv
    BY <1>1 DEF Rest
<1>3. Types' /\ BoxInv' /\ OwnInv'
    BY <1>2, TypesRead, BoxRead, OwnRead
<1>4. SlitInv' /\ (phase' # "crashed" => LiveSlits')
    BY <1>2, <1>3, SlitRead DEF Lookups
<1>5. CASE phase' = "crashed"
    BY <1>3, <1>4, <1>5 DEF Rest, EndInv
<1>6. CASE phase' # "crashed"
    <2>1. phase' \in {"parsing", "box"}
        BY <1>1, <1>6, PhaseRead
    <2>2. ProgramInv' /\ WindowInv'
        BY <1>2, <1>6, ProgramRead, WindowRead DEF Lookups
    <2>3. HotkeyInv' /\ CoreInv' /\ PluginInv'
        BY <1>2, <1>6, HotkeyRead, CoreRead, PluginRead DEF Lookups
    <2>4. MenuInv'
        BY <1>2, <1>6, MenuRead
    <2>. QED
        BY <1>3, <1>4, <1>6, <2>1, <2>2, <2>3, <2>4 DEF Rest, EndInv, Lookups
<1>. QED
    BY <1>5, <1>6

\* The file ends: the last menu is complete.
LEMMA RestEnd ==
    ASSUME FileInv, Rest, EndOfFile
    PROVE  Rest'
PROOF
<1>1. /\ phase = "parsing" /\ phase' = "running" /\ menu_defs' = wrap_up_vec /\ mdef' = NoDef
      /\ UNCHANGED <<safer_matches, window_matches, hotkeys, slits, plugins, core_config>>
      /\ UNCHANGED <<family, file, lineno, boxes, freed_tokens>>
    BY DEF EndOfFile
<1>2. Types /\ BoxInv /\ OwnInv /\ SlitInv /\ Lookups /\ MenuInv
    BY <1>1 DEF Rest
<1>3. Now' = Now /\ Now \in Seq(LINE)
    BY <1>1, FileKept, FileIs
<1>4. Types'
    <2>1. wrap_up_vec \in Seq(MENU) /\ NoDef \in MENU
        BY <1>2, WrapType, NoDefType
    <2>2. Types <=> Types /\ UNCHANGED <<safer_matches, window_matches, hotkeys, slits, plugins, core_config, boxes>>
        BY <1>1
    <2>. QED
        BY <1>1, <1>2, <2>1 DEF Types
<1>5. BoxInv'
    BY <1>1, <1>2, <1>3 DEF BoxInv, Phases
<1>6. SlitInv' /\ Lookups'
    BY <1>1, <1>2, <1>3, LookupsKept
<1>7. OwnInv'
    <2>1. /\ Apart(Others, Items(mdef), freed_tokens, lineno) /\ (mdef.name = Null => mdef = NoDef)
          /\ KeysAre(Now) /\ Held(Now, InUse(Others, Items(mdef), freed_tokens))
        BY <1>1, <1>2 DEF OwnInv
    <2>2. Apart(Others', {}, freed_tokens, lineno) /\ UNION Others' = Items(mdef) \cup UNION Others
        BY <1>1, <1>2, <2>1, OwnersWrapped
    <2>3. Items(mdef') = {}
        BY <1>1, ItemsAre
    <2>4. InUse(Others', Items(mdef'), freed_tokens) = InUse(Others, Items(mdef), freed_tokens)
        BY <2>2, <2>3 DEF InUse
    <2>5. KeysAre(Now)'
        BY <1>1, <1>3, <2>1 DEF KeysAre
    <2>6. Apart(Others', Items(mdef'), freed_tokens, lineno)
        BY <2>2, <2>3
    <2>. QED
        BY <1>1, <1>3, <2>1, <2>4, <2>5, <2>6 DEF OwnInv
<1>8. MenuInv'
    <2>1. MenusAgree(menu_defs, Now) /\ MdefAgrees(mdef, Now) /\ (mdef.name # Null <=> Defining(Now))
        BY <1>1, <1>2 DEF MenuInv, BoxInv
    <2>2. More(Now, END, Append(Now, END)) /\ View!Is(END, "CONTEXTMENU")
        BY <1>3, EndIs, MoreIs
    <2>3. MenusAgree(wrap_up_vec, Append(Now, END))
        BY <1>2, <2>1, <2>2, MenusWrapped
    <2>. QED
        BY <1>1, <1>3, <2>3 DEF MenuInv
<1>9. EndInv'
    BY <1>1 DEF EndInv
<1>. QED
    BY <1>4, <1>5, <1>6, <1>7, <1>8, <1>9 DEF Rest

\* contextmenu_shutdown: all that owns a token is gone.
LEMMA RestShut ==
    ASSUME FileInv, Rest, Shutdown
    PROVE  Rest'
PROOF
<1>1. /\ phase = "running" /\ phase' = "ended"
      /\ freed_tokens' = freed_tokens \cup UNION Others
      /\ hotkeys' = <<>> /\ menu_defs' = <<>> /\ window_matches' = <<>> /\ safer_matches' = <<>>
      /\ plugins' = <<>> /\ slits' = <<>> /\ core_config' = <<>>
      /\ UNCHANGED <<mdef, family, file, lineno, boxes>>
    <2>1. freed_tokens' = freed_tokens \cup (OwnedByHotkeys \cup OwnedByMenus \cup OwnedByMatches)
        BY DEF Shutdown
    <2>2. OwnedByHotkeys \cup OwnedByMenus \cup OwnedByMatches = UNION Others
        BY OwnersAre
    <2>3. freed_tokens' = freed_tokens \cup UNION Others
        BY <2>1, <2>2
    <2>. QED
        BY <2>3 DEF Shutdown
<1>2. Types /\ BoxInv /\ OwnInv
    BY DEF Rest
<1>3. Now' = Now
    BY <1>1, FileKept
<1>4. Types'
    <2>1. \A S : <<>> \in Seq(S)
        BY EmptyType
    <2>2. \A k \in DOMAIN hotkeys' : FALSE
        BY <1>1
    <2>3. mdef \in MENU /\ boxes \in Seq(Nat)
        BY <1>2 DEF Types
    <2>. QED
        BY <1>1, <2>1, <2>2, <2>3 DEF Types
<1>5. BoxInv'
    BY <1>1, <1>2, <1>3 DEF BoxInv, Phases
<1>6. Others' = {}
    <2>1. \A s : s = <<>> => ToSet(s) = {}
        BY DEF ToSet
    <2>2. MenuOwners(menu_defs') = {} /\ MatchOwners(window_matches') = {}
        BY <1>1, <2>1 DEF MenuOwners, MatchOwners
    <2>3. HotkeyOwners' = {}
        BY <1>1 DEF HotkeyOwners
    <2>4. Others' = HotkeyOwners' \cup MenuOwners(menu_defs') \cup MatchOwners(window_matches')
        BY DEF Others, MenuOwners, MatchOwners
    <2>. QED
        BY <2>2, <2>3, <2>4
<1>7. OwnInv'
    <2>1. /\ Apart(Others, Items(mdef), freed_tokens, lineno) /\ mdef = NoDef
          /\ Held(Now, InUse(Others, Items(mdef), freed_tokens))
        BY <1>1, <1>2 DEF OwnInv
    <2>2. Items(mdef') = {} /\ Items(mdef) = {}
        BY <1>1, <2>1, ItemsAre
    <2>3. Apart(Others', Items(mdef'), freed_tokens', lineno')
        <3>1. freed_tokens \subseteq Until(lineno) /\ \A a \in Others : a \subseteq Until(lineno)
            BY <2>1 DEF Apart
        <3>2. freed_tokens' \subseteq Until(lineno')
            BY <1>1, <3>1
        <3>. QED
            BY <1>6, <2>2, <3>2 DEF Apart
    <2>4. InUse(Others', Items(mdef'), freed_tokens') = InUse(Others, Items(mdef), freed_tokens)
        BY <1>1, <1>6, <2>2 DEF InUse
    <2>5. KeysAre(Now)'
        BY <1>1 DEF KeysAre
    <2>. QED
        BY <1>1, <1>3, <2>1, <2>3, <2>4, <2>5 DEF OwnInv
<1>8. SlitInv' /\ EndInv'
    BY <1>1, <1>6 DEF SlitInv, EndInv
<1>. QED
    BY <1>1, <1>4, <1>5, <1>7, <1>8 DEF Rest

-----------------------------------------------------------------------------
(* Uses.                                                                   *)
\* realize_menu_by_name finds the menu that the lines say.
LEMMA MenusOpened ==
    ASSUME FileInv, Rest, phase \in {"box", "running"}, NEW name, name # Null
    PROVE  realize_menu_by_name(name) = View!Menu(Now, name, phase = "running")
PROOF
<1>. DEFINE ls == IF phase = "running" THEN Append(Now, END) ELSE Now
            found == FoundIn(menu_defs, name)
<1>1. Now \in Seq(LINE) /\ MenusAgree(menu_defs, ls) /\ menu_defs \in Seq(MENU)
    BY FileIs DEF Rest, MenuInv, Types
<1>2. View!Menu(Now, name, phase = "running") = Looked(ls, name)
    <2>1. CASE phase = "running"
        <3>1. View!Menu(Now, name, TRUE) = Looked(ls, name)
            BY <1>1, <2>1, MenuAtEnd
        <3>2. (phase = "running") = TRUE
            BY <2>1
        <3>. QED
            BY <3>1, <3>2
    <2>2. CASE phase # "running"
        <3>1. View!Menu(Now, name, FALSE) = Looked(ls, name)
            BY <1>1, <2>2, MenuLooked
        <3>2. (phase = "running") = FALSE
            BY <2>2
        <3>. QED
            BY <3>1, <3>2
    <2>. QED
        BY <2>1, <2>2
<1>. HIDE DEF ls
<1>3. FirstAgree(found, Shows(menu_defs), Ended(ls, name), EndedAt(ls))
    BY <1>1 DEF MenusAgree
<1>4. realize_menu_by_name(name) = IF found = {} THEN <<"none">> ELSE ShownBy(menu_defs[Min(found)])
    BY DEF realize_menu_by_name, FoundIn, ShownBy
<1>5. CASE found = {}
    BY <1>2, <1>3, <1>4, <1>5 DEF Looked, FirstAgree
<1>6. CASE found # {}
    <2>1. found \subseteq DOMAIN menu_defs /\ found \in SUBSET Nat
        BY <1>1, SeqIs DEF FoundIn
    <2>2. Min(found) \in DOMAIN menu_defs
        BY <1>6, <2>1, Least
    <2>3. Shows(menu_defs)[Min(found)] = ShownBy(menu_defs[Min(found)])
        BY <2>2 DEF Shows
    <2>. HIDE DEF found
    <2>. QED
        BY <1>2, <1>3, <1>4, <1>6, <2>3 DEF Looked, FirstAgree
<1>. QED
    BY <1>5, <1>6

\* What is done comes out as the lines read say, and leaves the configuration as it was.
LEMMA UsesRight ==
    ASSUME FileInv, Rest, DidInv, MatchWindow \/ Execute \/ LookUp \/ OpenMenu \/ UseHotkey
    PROVE  /\ DidInv'
           /\ UNCHANGED <<config, family, file, lineno, phase, boxes, freed_tokens>>
PROOF
<1>. DEFINE ended == phase = "running"
            Does(what, of, result) == Uses(what, of, result) /\ result = AnswerOf(Now, what, of, ended)
<1>1. SUFFICES \E what, of, result : Does(what, of, result)
    BY DidMore DEF Uses
<1>2. \A what, of, result : Uses(what, of, result) => phase \in {"box", "running"}
    BY DEF Uses
<1>3. phase \in {"box", "running"} => Types /\ Now \in Seq(LINE) /\ Lookups /\ MenuInv
    BY FileIs DEF Rest
<1>4. CASE MatchWindow
    <2>1. PICK w \in DOMAIN NewWindows : Uses("window", w, apply_window_match(w))
        BY <1>4 DEF MatchWindow
    <2>2. apply_window_match(w) = View!Window(Now, w)
        BY <1>2, <1>3, <2>1, WindowsMatch DEF Lookups
    <2>. QED
        BY <2>1, <2>2, AnswersAre
<1>5. CASE Execute
    <2>1. PICK c \in Programs : Uses("program", c, core_execute(c))
        BY <1>5 DEF Execute
    <2>2. core_execute(c) = View!Program(Now, c)
        BY <1>2, <1>3, <2>1, ProgramsRun DEF Lookups
    <2>. QED
        BY <2>1, <2>2, AnswersAre
<1>6. CASE LookUp
    <2>1. CASE \E p \in DOMAIN plugins : \E s \in Settings :
                  /\ p = First(plugins[p].name)
                  /\ Uses("setting", <<plugins[p].name, s>>,
                          <<core_get_plugin_string(plugins[p].name, plugins[p].config, s)>>)
        <3>1. PICK p \in DOMAIN plugins, s \in Settings :
                  /\ p = First(plugins[p].name)
                  /\ Uses("setting", <<plugins[p].name, s>>,
                          <<core_get_plugin_string(plugins[p].name, plugins[p].config, s)>>)
            BY <2>1
        <3>. DEFINE x == plugins[p].name
                    c == plugins[p].config
        <3>2. Types /\ Now \in Seq(LINE) /\ PluginInv
            BY <1>2, <1>3, <3>1 DEF Lookups
        <3>3. SettingsAgree(x, c, Now)
            BY <3>1, <3>2 DEF PluginInv
        <3>4. c \in Seq(SETTING)
            <4>1. plugins \in [1..Len(plugins) -> PLUGIN] /\ DOMAIN plugins = 1..Len(plugins)
                BY <3>2, SeqIs DEF Types
            <4>2. plugins[p] \in PLUGIN
                BY <4>1
            <4>. QED
                BY <4>2 DEF PLUGIN
        <3>5. core_get_plugin_string(x, c, s) = View!Setting(Now, x, s)
            BY <3>2, <3>3, <3>4, SettingsFound
        <3>. HIDE DEF x, c
        <3>6. <<core_get_plugin_string(x, c, s)>> = AnswerOf(Now, "setting", <<x, s>>, ended)
            <4>1. AnswerOf(Now, "setting", <<x, s>>, ended) = <<View!Setting(Now, <<x, s>>[1], <<x, s>>[2])>>
                BY AnswersAre
            <4>2. <<x, s>>[1] = x /\ <<x, s>>[2] = s
                OBVIOUS
            <4>. QED
                BY <3>5, <4>1, <4>2
        <3>. QED
            BY <3>1, <3>6 DEF x, c
    <2>2. CASE \E s \in Settings :
                  Uses("setting", <<"core", s>>, <<core_get_plugin_string("core", core_config, s)>>)
        <3>. DEFINE x == "core"
        <3>1. PICK s \in Settings : Uses("setting", <<x, s>>, <<core_get_plugin_string(x, core_config, s)>>)
            BY <2>2
        <3>2. Now \in Seq(LINE) /\ SettingsAgree(x, core_config, Now) /\ core_config \in Seq(SETTING)
            BY <1>2, <1>3, <3>1 DEF Lookups, CoreInv, Types
        <3>. HIDE DEF x
        <3>5. core_get_plugin_string(x, core_config, s) = View!Setting(Now, x, s)
            BY <3>2, SettingsFound
        <3>6. <<core_get_plugin_string(x, core_config, s)>> = AnswerOf(Now, "setting", <<x, s>>, ended)
            <4>1. AnswerOf(Now, "setting", <<x, s>>, ended) = <<View!Setting(Now, <<x, s>>[1], <<x, s>>[2])>>
                BY AnswersAre
            <4>2. <<x, s>>[1] = x /\ <<x, s>>[2] = s
                OBVIOUS
            <4>. QED
                BY <3>5, <4>1, <4>2
        <3>. QED
            BY <3>1, <3>6
    <2>3. CASE \E p \in DOMAIN plugins : \E s \in DOMAIN plugins[p].early :
                  Uses("early", <<plugins[p].name, s>>, <<plugins[p].early[s]>>)
        <3>0. PICK p \in DOMAIN plugins : \E s \in DOMAIN plugins[p].early :
                  Uses("early", <<plugins[p].name, s>>, <<plugins[p].early[s]>>)
            BY <2>3
        <3>1. PICK s \in DOMAIN plugins[p].early :
                  Uses("early", <<plugins[p].name, s>>, <<plugins[p].early[s]>>)
            BY <3>0
        <3>. DEFINE x == plugins[p].name
                    v == plugins[p].early[s]
        <3>2. plugins[p].early = [y \in Plugins[x].early |-> View!Stored(x, y)]
            BY <1>2, <1>3, <3>0, <3>1 DEF Lookups, PluginInv
        <3>3. v = View!Stored(x, s)
            BY <3>1, <3>2
        <3>. HIDE DEF x, v
        <3>4. <<v>> = AnswerOf(Now, "early", <<x, s>>, ended)
            <4>1. AnswerOf(Now, "early", <<x, s>>, ended) = <<View!Stored(<<x, s>>[1], <<x, s>>[2])>>
                BY AnswersAre
            <4>2. <<x, s>>[1] = x /\ <<x, s>>[2] = s
                OBVIOUS
            <4>. QED
                BY <3>3, <4>1, <4>2
        <3>. QED
            BY <3>1, <3>4 DEF x, v
    <2>. QED
        BY <1>6, <2>1, <2>2, <2>3 DEF LookUp
<1>7. CASE OpenMenu
    <2>1. PICK name \in MenuNames : Uses("menu", name, realize_menu_by_name(name))
        BY <1>7 DEF OpenMenu
    <2>2. realize_menu_by_name(name) = View!Menu(Now, name, ended)
        BY <1>2, <2>1, RulesAssumption, MenusOpened
    <2>. QED
        BY <2>1, <2>2, AnswersAre
<1>8. CASE UseHotkey
    <2>1. PICK k \in DOMAIN hotkeys : Uses("hotkey", k, Pressed(hotkeys[k]))
        BY <1>8 DEF UseHotkey, Pressed
    <2>2. Pressed(hotkeys[k]) = View!Hotkey(Now, k[1], k[2])
        BY <1>2, <1>3, <2>1, HotkeysPressed DEF Lookups
    <2>. QED
        BY <2>1, <2>2, AnswersAre
<1>. QED
    BY <1>4, <1>5, <1>6, <1>7, <1>8

-----------------------------------------------------------------------------
(* The theorems.                                                           *)
\* The invariant holds before the first line.
LEMMA RulesInit ==
    ASSUME InitRules
    PROVE  RulesInv
PROOF
<1>1. /\ menu_defs = <<>> /\ mdef = NoDef /\ safer_matches = <<>> /\ window_matches = <<>>
      /\ hotkeys = <<>> /\ slits = <<>> /\ plugins = <<>> /\ core_config = <<>>
      /\ family \in Families /\ file = <<>> /\ lineno = 0 /\ phase = "parsing"
      /\ boxes = <<>> /\ freed_tokens = {} /\ did = <<>>
    BY DEF InitRules
<1>2. (\A S : <<>> \in Seq(S)) /\ Len(<<>>) = 0 /\ DOMAIN <<>> = {} /\ Cardinality({}) = 0
    BY EmptyType, FS_EmptySet
<1>3. FileInv
    <2>1. Counted = {}
        BY <1>1, <1>2 DEF Counted
    <2>. QED
        BY <1>1, <1>2, <2>1, RulesAssumption DEF FileInv
<1>4. Now \in Seq(LINE) /\ DOMAIN Now = {}
    <2>1. Now \in Seq(LINE) /\ Len(Now) = 0
        BY <1>1, <1>3, FileIs
    <2>2. DOMAIN Now = 1..0
        BY <2>1, SeqIs
    <2>. QED
        BY <2>1, <2>2
<1>5. View!Bad(Now) = {} /\ (\A c : View!Lines(Now, c) = {}) /\ View!Heads(Now) = {} /\ View!Loads(Now) = {}
    BY <1>4 DEF View!Bad, View!Lines, View!Heads, View!Loads
<1>6. DidInv
    BY <1>1, <1>2, RulesAssumption DEF DidInv
<1>7. Types
    BY <1>1, <1>2, NoDefType DEF Types
<1>8. BoxInv
    <2>1. ToSet(boxes) = {}
        BY <1>1, <1>2 DEF ToSet
    <2>2. ~Defining(Now)
        BY <1>5 DEF Defining, LastHead
    <2>3. mdef.name = Null
        BY <1>1 DEF NoDef
    <2>. QED
        BY <1>1, <1>2, <1>4, <1>5, <2>1, <2>2, <2>3 DEF BoxInv, Phases
<1>9. Others = {} /\ Items(mdef) = {}
    <2>1. \A s : s = <<>> => ToSet(s) = {}
        BY DEF ToSet
    <2>. QED
        BY <1>1, <1>2, <2>1, ItemsAre DEF Others, HotkeyOwners, MenuOwners, MatchOwners
<1>10. OwnInv /\ EndInv
    <2>1. Len(Now) = 0
        BY <1>1, <1>3, FileIs
    <2>2. Apart(Others, Items(mdef), freed_tokens, lineno)
        BY <1>1, <1>9 DEF Apart
    <2>3. KeysAre(Now)
        BY <1>1, <1>2 DEF KeysAre
    <2>4. \A k \in 1..0 : FALSE
        OBVIOUS
    <2>5. Held(Now, InUse(Others, Items(mdef), freed_tokens))
        BY <2>1, <2>4 DEF Held
    <2>. QED
        BY <1>1, <1>9, <2>2, <2>3, <2>5 DEF OwnInv, EndInv
<1>11. SlitInv /\ LiveSlits
    BY <1>1, <1>2, <1>5 DEF SlitInv, LiveSlits
<1>12. ProgramInv
    <2>1. \A c : SafersFor(c) = {} /\ SaferLines(Now, c) = {}
        BY <1>1, <1>2, <1>5 DEF SafersFor, SaferLines
    <2>. QED
        BY <2>1 DEF ProgramInv, FirstAgree
<1>13. WindowInv
    <2>1. \A w : MatchesFor(w) = {} /\ MatchLines(Now, w) = {}
        BY <1>1, <1>2, <1>5 DEF MatchesFor, MatchLines
    <2>2. \A c \in 1..0 : FALSE
        OBVIOUS
    <2>. QED
        BY <1>2, <2>1, <2>2 DEF WindowInv, AllAgree
<1>14. HotkeyInv
    BY <1>1, <1>2 DEF HotkeyInv
<1>15. CoreInv
    <2>1. \A s : SetsIn(core_config, s) = {} /\ SetLines(Now, "core", s) = {}
        BY <1>1, <1>2, <1>5 DEF SetsIn, SetLines
    <2>. QED
        BY <2>1 DEF CoreInv, SettingsAgree, FirstAgree
<1>16. PluginInv
    BY <1>1, <1>2, <1>5 DEF PluginInv, Named, LoadsOf
<1>17. MenuInv
    <2>1. \A name : FoundIn(menu_defs, name) = {} /\ Ended(Now, name) = {}
        BY <1>1, <1>2, <1>4 DEF FoundIn, Ended
    <2>2. mdef.name = Null
        BY <1>1 DEF NoDef
    <2>. QED
        BY <1>1, <2>1, <2>2 DEF MenuInv, MenusAgree, FirstAgree, MdefAgrees
<1>. QED
    BY <1>3, <1>6, <1>7, <1>8, <1>10, <1>11, <1>12, <1>13, <1>14, <1>15, <1>16, <1>17
    DEF RulesInv, Rest, Lookups

\* Every step of the program keeps the invariant.
LEMMA RulesNext ==
    ASSUME RulesInv, [NextRules]_rules_vars
    PROVE  RulesInv'
PROOF
<1>1. FileInv /\ DidInv /\ Rest /\ lineno \in Nat
    BY FileIs DEF RulesInv
<1>2. TextsOf(file, lineno) = Now
    BY TextsNow
\* The configuration stays, and the lines.
<1>3. ASSUME UNCHANGED <<family, file, lineno>>, did' = did
      PROVE  FileInv' /\ DidInv'
    <2>1. FileInv'
        BY <1>1, <1>3, FileKept
    <2>2. DidInv'
        BY <1>1, <1>3, DidKept
    <2>. QED
        BY <2>1, <2>2
<1>4. CASE ReadLine
    <2>1. FileInv' /\ (Passing \/ \E t : Reading(t)) /\ did' = did
        BY <1>1, <1>4, FileRead DEF ReadLine
    <2>2. \A n \in 0..lineno : TextsOf(file', n) = TextsOf(file, n)
        <3>1. \A n \in 0..lineno : Texts(n)' = Texts(n)
            BY <2>1 DEF Passing, Reading
        <3>2. \A n : Texts(n) = TextsOf(file, n) /\ Texts(n)' = TextsOf(file', n)
            BY TextsNow
        <3>. QED
            BY <3>1, <3>2
    <2>3. lineno' \in Nat /\ lineno <= lineno'
        BY <1>1, <2>1 DEF Passing, Reading
    <2>4. DidInv'
        BY <1>1, <2>1, <2>2, <2>3, DidKept
    <2>5. CASE Passing
        <3>1. Rest'
            BY <1>1, <2>5, RestKept DEF Passing
        <3>. QED
            BY <2>1, <2>4, <3>1 DEF RulesInv
    <2>6. CASE \E t : Reading(t)
        <3>1. Rest'
            BY <1>1, <2>1, <2>6, RestRead
        <3>. QED
            BY <2>1, <2>4, <3>1 DEF RulesInv
    <2>. QED
        BY <2>1, <2>5, <2>6
<1>5. CASE AnswerBox
    <2>1. FileInv' /\ DidInv' /\ Now' = Now
        BY <1>1, <1>3, <1>5, FileKept DEF AnswerBox
    <2>2. Rest'
        BY <1>1, <1>5, <2>1, RestKept DEF AnswerBox
    <2>. QED
        BY <2>1, <2>2 DEF RulesInv
<1>6. CASE EndOfFile
    <2>1. FileInv' /\ DidInv'
        BY <1>3, <1>6 DEF EndOfFile
    <2>2. Rest'
        BY <1>1, <1>6, RestEnd
    <2>. QED
        BY <2>1, <2>2 DEF RulesInv
<1>7. CASE MatchWindow \/ Execute \/ LookUp \/ OpenMenu \/ UseHotkey
    <2>1. DidInv' /\ UNCHANGED <<config, family, file, lineno, phase, boxes, freed_tokens>>
        BY <1>1, <1>7, UsesRight
    <2>2. FileInv' /\ Now' = Now
        BY <1>1, <2>1, FileKept
    <2>3. Rest'
        BY <1>1, <2>1, <2>2, RestKept
    <2>. QED
        BY <2>1, <2>2, <2>3 DEF RulesInv
<1>8. CASE Shutdown
    <2>1. FileInv' /\ DidInv'
        BY <1>3, <1>8 DEF Shutdown
    <2>2. Rest'
        BY <1>1, <1>8, RestShut
    <2>. QED
        BY <2>1, <2>2 DEF RulesInv
<1>9. CASE UNCHANGED rules_vars
    <2>1. UNCHANGED <<config, family, file, lineno, phase, boxes, freed_tokens, did>>
        BY <1>9 DEF rules_vars
    <2>2. FileInv' /\ DidInv' /\ Now' = Now
        BY <1>1, <1>3, <2>1, FileKept
    <2>3. Rest'
        BY <1>1, <2>1, <2>2, RestKept
    <2>. QED
        BY <2>2, <2>3 DEF RulesInv
<1>. QED
    BY <1>4, <1>5, <1>6, <1>7, <1>8, <1>9 DEF NextRules

\* parse_context_menu and all that uses what it makes: the lists, maps and
\* menus agree with the lines read so far at every look-up, every token read is
\* freed, owned once or known to stay, and the program has died only at a line
\* that RulesView calls fatal.
THEOREM RulesInvariance == SpecRules => []RulesInv
PROOF
<1>1. InitRules => RulesInv
    BY RulesInit
<1>2. RulesInv /\ [NextRules]_rules_vars => RulesInv'
    BY RulesNext
<1>. QED
    BY <1>1, <1>2, PTL DEF SpecRules

\* config_error: a box comes up for every line that is refused, in the order of
\* the file, and for no other; and the program dies at an item before any menu
\* and at a SET line before any slit, and at no other line.
THEOREM BoxesAlwaysAsWritten == SpecRules => []BoxesAsWritten
PROOF
<1>1. RulesInv => BoxesAsWritten
    BY DEF RulesInv, Rest, BoxInv, BoxesAsWritten, Now
<1>. QED
    BY <1>1, RulesInvariance, PTL

\* apply_window_match, core_execute, core_get_plugin_string,
\* realize_menu_by_name, handle_hotkey: whenever it happens, between two lines,
\* under the box of a bad one or after the last, what is done is what the lines
\* read by then say; and every plugin is in the slit its LOAD line meant.
THEOREM UsesAlwaysAsWritten == SpecRules => []UsesAsWritten
PROOF
<1>1. ASSUME RulesInv PROVE UsesAsWritten
    <2>1. ASSUME NEW i \in DOMAIN did
          PROVE  did[i].result = AnswerOf(Texts(did[i].read), did[i].what, did[i].of, did[i].ended)
        <3>1. Right(file, did[i])
            BY <1>1 DEF RulesInv, DidInv
        <3>2. \A n : Texts(n) = TextsOf(file, n)
            BY TextsNow
        <3>. QED
            BY <3>1, <3>2 DEF Right
    <2>2. \A p \in DOMAIN plugins : plugins[p].slit \in View!SlitsOf(Texts(lineno), plugins[p].name)
        BY <1>1 DEF RulesInv, Rest, SlitInv, Now
    <2>. QED
        BY <2>1, <2>2 DEF UsesAsWritten, AnswerOf
<1>2. RulesInv => UsesAsWritten
    BY <1>1
<1>. QED
    BY <1>2, RulesInvariance, PTL

\* parse_context_menu, unregister_hotkeys, contextmenu_shutdown: no token that
\* was freed still belongs to something, none belongs to two things, and after
\* the shutdown only the tokens are left that the property lists.
THEOREM AlwaysOwnedOnce == SpecRules => []OwnedOnce
PROOF
<1>1. ASSUME RulesInv PROVE OwnedOnce
    <2>1. FileInv /\ DidInv /\ Types /\ BoxInv /\ OwnInv /\ SlitInv /\ EndInv
        BY <1>1 DEF RulesInv, Rest
    <2>2. Apart(Others, Items(mdef), freed_tokens, lineno)
        BY <2>1 DEF OwnInv
    <2>3. RulesTypes
        <3>1. phase \in {"parsing", "box", "running", "ended", "crashed"}
            BY <2>1 DEF BoxInv, Phases
        <3>2. lineno <= Len(file) /\ Len(file) <= MaxLines /\ Len(did) <= MaxUses
            BY <2>1, FileIs DEF FileInv, DidInv
        <3>3. \A t \in freed_tokens : t[1] \in 1..lineno /\ t[2] \in 1..MAX_TOKENS
            BY <2>2 DEF Apart, Until
        <3>4. \A p \in DOMAIN plugins : plugins[p].name \in DOMAIN Plugins /\ plugins[p].slit <= Len(slits)
            <4>1. plugins \in [1..Len(plugins) -> PLUGIN] /\ DOMAIN plugins = 1..Len(plugins)
                BY <2>1, SeqIs DEF Types
            <4>2. \A p \in DOMAIN plugins : plugins[p].name \in DOMAIN Plugins
                BY <4>1 DEF PLUGIN
            <4>. QED
                BY <2>1, <4>2 DEF SlitInv
        <3>. QED
            BY <3>1, <3>2, <3>3, <3>4 DEF RulesTypes
    <2>4. Owners = Others \cup {Items(mdef)}
        BY OwnersAre
    <2>5. (UNION Owners) \cap freed_tokens = {}
        BY <2>2, <2>4 DEF Apart
    <2>6. \A a, b \in Owners : a # b => a \cap b = {}
        BY <2>2, <2>4 DEF Apart
    <2>7. ASSUME phase = "ended", NEW k \in 1..lineno, NEW i \in DOMAIN Texts(k)[k]
          PROVE  <<k, i>> \in freed_tokens \/ MayStay(k, Texts(k)[k])
        <3>1. Texts(k)[k] = Now[k] /\ (MayStay(k, Now[k]) <=> Stays(Now, k)) /\ Len(Now) = lineno
            BY <2>1, StaysIs, FileIs
        <3>2. Held(Now, InUse(Others, Items(mdef), freed_tokens)) /\ mdef = NoDef /\ Others = {}
            BY <2>1, <2>7 DEF OwnInv, EndInv
        <3>3. InUse(Others, Items(mdef), freed_tokens) = freed_tokens
            BY <3>2, ItemsAre DEF InUse
        <3>4. <<k, i>> \in freed_tokens \/ Stays(Now, k)
            BY <2>7, <3>1, <3>2, <3>3 DEF Held
        <3>. QED
            BY <3>1, <3>4
    <2>. QED
        BY <2>3, <2>5, <2>6, <2>7 DEF OwnedOnce
<1>2. RulesInv => OwnedOnce
    BY <1>1
<1>. QED
    BY <1>2, RulesInvariance, PTL
=============================================================================
