---------------------------- MODULE ShellProofs ----------------------------
(***************************************************************************)
(* Start-up items are started in order and call-backs in time, for any     *)
(* plugins, configuration, start-up sources, delays and width of the tick  *)
(* count, however boxes are nested and whenever the shell is left.         *)
(*                                                                         *)
(* StartsInOrder is not inductive: an item is in its place because the     *)
(* queue goes on where the handled items end (Queue), and they all come    *)
(* from one logon because only the first process has /runstartup (Logons). *)
(* CallsInTime rests on what a call-back's time means (OnTime), and on     *)
(* plugins being mapped until Unload and none of them after it (Libraries).*)
(***************************************************************************)
EXTENDS Shell, FiniteSetTheorems, SequenceTheorems, WellFoundedInduction, TLAPS

(*------------------------- the inductive invariant -----------------------*)
Queue ==
    /\ Len(handled) + Len(items) <= Len(accepted)
    /\ \A k \in 1..Len(handled) : handled[k].item = accepted[k]
    /\ \A k \in 1..Len(items) : items[k] = accepted[Len(handled) + k]
Logons ==
    /\ phase \in {"off", "config", "closed"} => items = <<>>
    /\ phase = "off" \/ (phase = "config" /\ run_startup) => handled = <<>>
Services ==
    /\ services = "started" => phase \in {"pump", "drain"} \cup Faults
    /\ phase = "pump" => services = "started"
Unvetoed == phase = "pump" => \A p \in mapped : Vetoes[p] \cap Range(items) = {}
Safe == \A k \in 1..Len(handled) : handled[k].how = "user" =>
           Len(SaferExec) = 0 \/ handled[k].item \notin SaferExec[1]

(* A call-back that did not wrap comes due when its delay is over.         *)
TimeIsRight(c, t) == c.left > 0 /\ ~c.wrapped => t + c.left = c.due
AllOnTime(cs, t) == \A n \in 1..Len(cs) : TimeIsRight(cs[n], t)
OnTime == ~early /\ \A p \in Plugins : AllOnTime(calls[p], now)
Libraries ==
    /\ phase \in {"off", "config", "pump", "drain", "stopped"} => mapped = Range(plugins)
    /\ phase \in {"unloaded", "unhooked", "keyless", "closed"} \cup Faults => mapped = {}
    /\ phase \in Faults => {"switch", "func"} \cap posted # {} \/ Called # {}

(* Only a process that may have a successor is asked to restart.           *)
RestartAsked == \/ "restart" \in posted \/ need_to_respawn_shell
                \/ \E n \in 1..Len(boxes) : boxes[n] = "restart"
Lives ==
    /\ RestartAsked => lives < MaxLives
    /\ phase \in {"off", "closed"} => posted = {} /\ boxes = <<>>
    /\ phase = "off" => ~need_to_respawn_shell

IInv == /\ TypeOK /\ Queue /\ Logons /\ Services /\ Unvetoed /\ Safe
        /\ OnTime /\ Libraries /\ Lives

-----------------------------------------------------------------------------
(* Sequences, the tick count, and the first call-back that is ready.       *)

LEMMA SeqRange ==
    ASSUME NEW S, NEW s \in Seq(S)
    PROVE  /\ Len(s) \in Nat /\ DOMAIN s = 1..Len(s) /\ Range(s) \subseteq S
           /\ \A n \in 1..Len(s) : s[n] \in Range(s) /\ s[n] \in S
           /\ \A e \in Range(s) : \E n \in 1..Len(s) : s[n] = e
<1>1. Len(s) \in Nat /\ DOMAIN s = 1..Len(s) /\ \A n \in 1..Len(s) : s[n] \in S
  BY LenProperties, ElementOfSeq
<1> QED BY <1>1 DEF Range

LEMMA AppendRange ==
    ASSUME NEW S, NEW s \in Seq(S), NEW e \in S
    PROVE  Range(Append(s, e)) = Range(s) \cup {e}
<1> DEFINE t == Append(s, e)
<1>1. /\ t \in Seq(S) /\ Len(t) = Len(s) + 1 /\ Len(s) \in Nat
      /\ \A n \in 1..Len(s) : t[n] = s[n]
      /\ t[Len(s) + 1] = e
  BY AppendProperties, SeqRange
<1> HIDE DEF t
<1>2. DOMAIN s = 1..Len(s) /\ DOMAIN t = 1..(Len(s) + 1)
  BY <1>1, SeqRange
<1>3. \A n \in 1..(Len(s) + 1) : n \in 1..Len(s) \/ n = Len(s) + 1
  BY <1>1
<1>4. \A n \in 1..Len(s) : n \in 1..(Len(s) + 1)
  BY <1>1
<1>5. Len(s) + 1 \in 1..(Len(s) + 1)
  BY <1>1
<1>6. Range(t) \subseteq Range(s) \cup {e}
  BY <1>1, <1>2, <1>3 DEF Range
<1>7. Range(s) \cup {e} \subseteq Range(t)
  BY <1>1, <1>2, <1>4, <1>5 DEF Range
<1> QED BY <1>6, <1>7 DEF t

LEMMA Modulo ==
    ASSUME NEW n \in Nat, NEW w \in Nat \ {0}
    PROVE  /\ n % w \in 0..(w - 1)
           /\ n < w => n % w = n
  OBVIOUS

LEMMA Removed ==
    ASSUME NEW S, NEW s \in Seq(S), NEW i \in 1..Len(s)
    PROVE  /\ RemoveAt(s, i) \in Seq(S)
           /\ Len(RemoveAt(s, i)) = Len(s) - 1
           /\ \A k \in 1..(Len(s) - 1) :
                 RemoveAt(s, i)[k] = IF k < i THEN s[k] ELSE s[k + 1]
<1> DEFINE a == SubSeq(s, 1, i - 1)
           b == SubSeq(s, i + 1, Len(s))
<1>1. Len(s) \in Nat /\ i \in Int /\ \A k \in 1..Len(s) : s[k] \in S
  BY LenProperties, ElementOfSeq
<1>2. a \in Seq(S) /\ Len(a) = i - 1 /\ \A k \in 1..(i - 1) : a[k] = s[k]
  <2>1. \A k \in 1..(i - 1) : s[k] \in S
    BY <1>1
  <2>2. /\ a \in Seq(S)
        /\ Len(a) = (IF 1 <= i - 1 THEN i - 1 - 1 + 1 ELSE 0)
        /\ \A k \in 1..(i - 1 - 1 + 1) : a[k] = s[1 + k - 1]
    BY <2>1, <1>1, SubSeqProperties
  <2> QED BY <2>2, <1>1
<1>3. b \in Seq(S) /\ Len(b) = Len(s) - i /\ \A k \in 1..(Len(s) - i) : b[k] = s[i + k]
  <2>1. \A k \in (i + 1)..Len(s) : s[k] \in S
    BY <1>1
  <2>2. /\ b \in Seq(S)
        /\ Len(b) = (IF i + 1 <= Len(s) THEN Len(s) - (i + 1) + 1 ELSE 0)
        /\ \A k \in 1..(Len(s) - (i + 1) + 1) : b[k] = s[i + 1 + k - 1]
    BY <2>1, <1>1, SubSeqProperties
  <2> QED BY <2>2, <1>1
<1>4. /\ a \o b \in Seq(S) /\ Len(a \o b) = Len(a) + Len(b)
      /\ \A k \in 1..(Len(a) + Len(b)) :
            (a \o b)[k] = IF k <= Len(a) THEN a[k] ELSE b[k - Len(a)]
  BY <1>2, <1>3, ConcatProperties
<1>5. RemoveAt(s, i) = a \o b
  BY DEF RemoveAt
<1> HIDE DEF a, b
<1>6. ASSUME NEW k \in 1..(Len(s) - 1)
      PROVE  (a \o b)[k] = IF k < i THEN s[k] ELSE s[k + 1]
  <2>1. CASE k < i
    BY <1>1, <1>2, <1>3, <1>4, <2>1
  <2>2. CASE ~(k < i)
    <3>1. k - Len(a) \in 1..(Len(s) - i) /\ i + (k - Len(a)) = k + 1
      BY <1>1, <1>2, <2>2
    <3>2. b[k - Len(a)] = s[k + 1]
      BY <1>3, <3>1
    <3>3. (a \o b)[k] = b[k - Len(a)]
      BY <1>1, <1>2, <1>3, <1>4, <2>2
    <3> QED BY <2>2, <3>2, <3>3
  <2> QED BY <2>1, <2>2
<1> QED BY <1>1, <1>2, <1>3, <1>4, <1>5, <1>6

LEMMA FirstReady ==
    ASSUME NEW cs \in Seq(CALL), now \in Nat, Ready(cs) # {}
    PROVE  First(Ready(cs)) \in 1..Len(cs) /\ cs[First(Ready(cs))].due <= now
<1> DEFINE I == Ready(cs)
<1>1. I \in SUBSET Nat /\ Len(cs) \in Nat /\ I \subseteq 1..Len(cs)
  BY SeqRange DEF Ready
<1>2. \E n \in I : \A m \in I : n <= m
  <2>1. IsWellFoundedOn(OpToRel(<, Nat), Nat)
    BY NatLessThanWellFounded
  <2>2. PICK n \in I : \A m \in I : ~(<<m, n>> \in OpToRel(<, Nat))
    BY <1>1, <2>1, WFMin
  <2>3. \A m \in I : n <= m
    <3> SUFFICES ASSUME NEW m \in I PROVE n <= m
      OBVIOUS
    <3> HIDE DEF I
    <3>1. m \in Nat /\ n \in Nat
      BY <1>1
    <3>2. ~(m < n)
      BY <2>2, <3>1 DEF OpToRel
    <3> QED BY <3>1, <3>2
  <2> QED BY <2>3
<1>3. First(I) \in I
  BY <1>2 DEF First
<1> QED BY <1>1, <1>3 DEF Ready

LEMMA OwnRange ==
    ASSUME NEW S, NEW s \in Seq(S)
    PROVE  s \in Seq(Range(s))
<1>1. Len(s) \in Nat /\ \A n \in 1..Len(s) : s[n] \in Range(s)
  BY SeqRange
<1>2. s = [n \in 1..Len(s) |-> s[n]]
  BY SeqRange
<1> DEFINE t == [n \in 1..Len(s) |-> s[n]]
<1>3. t \in Seq(Range(s))
  BY <1>1
<1> QED BY <1>2, <1>3

(* What an item of a logon is, and the call-backs once asked for.          *)
LEMMA OfferedType == Offered \in Seq(Range(Offered))
<1> DEFINE U == UNION {Range(Sources[n]) : n \in SourceNames}
<1>1. \A n \in SourceNames : Sources[n] \in Seq(U)
  <2> SUFFICES ASSUME NEW n \in SourceNames PROVE Sources[n] \in Seq(U)
    OBVIOUS
  <2>1. Sources[n] \in Seq(Range(Sources[n])) /\ Range(Sources[n]) \subseteq U
    BY ShellAssumption
  <2> HIDE DEF U
  <2> QED BY <2>1, SeqMonotonic
<1> HIDE DEF U
<1>2. Offered \in Seq(U)
  BY <1>1, ConcatProperties DEF SourceNames, Offered
<1> QED BY <1>2, OwnRange

LEMMA ScheduleOnTime ==
    ASSUME NEW t \in 0..(Wrap - 1), NEW ms \in Delays,
           NEW cs \in Seq(CALL), AllOnTime(cs, t)
    PROVE  /\ Schedule(cs, t, ms) \in Seq(CALL) /\ AllOnTime(Schedule(cs, t, ms), t)
           /\ Len(Schedule(cs, t, ms)) <= Len(cs) + 1
           /\ Len(Schedule(cs, t, ms)) \in Nat
<1>1. Wrap \in Nat \ {0} /\ ms \in 1..(Wrap - 1) /\ t \in Nat /\ ms \in Nat /\ Len(cs) \in Nat
  BY ShellAssumption, SeqRange
<1> DEFINE due == (t + ms) % Wrap
           c   == [due |-> due, left |-> ms, wrapped |-> t + ms >= Wrap]
<1>2. due \in 0..(Wrap - 1) /\ (t + ms < Wrap => due = t + ms)
  <2> DEFINE n == t + ms
  <2>1. n \in Nat
    BY <1>1
  <2> HIDE DEF n
  <2>2. n % Wrap \in 0..(Wrap - 1) /\ (n < Wrap => n % Wrap = n)
    BY <1>1, <2>1, Modulo
  <2> QED BY <2>2 DEF n
<1>3. CASE due = 0
  BY <1>1, <1>3 DEF Schedule
<1>4. CASE due # 0
  <2> HIDE DEF due
  <2>1. c \in CALL /\ TimeIsRight(c, t)
    <3>1. due \in 1..(Wrap - 1) /\ ms \in 0..(Wrap - 1) /\ (t + ms >= Wrap) \in BOOLEAN
      BY <1>1, <1>2, <1>4
    <3>2. c \in CALL
      BY <3>1, Zenon DEF CALL
    <3>3. c.due = due /\ c.left = ms /\ (~c.wrapped => ~(t + ms >= Wrap))
      OBVIOUS
    <3>4. ~c.wrapped => t + ms < Wrap
      BY <1>1, <3>3
    <3>5. TimeIsRight(c, t)
      BY <1>2, <3>3, <3>4 DEF TimeIsRight
    <3> QED BY <3>2, <3>5
  <2> HIDE DEF c
  <2>2. /\ Append(cs, c) \in Seq(CALL) /\ Len(Append(cs, c)) = Len(cs) + 1
        /\ \A n \in 1..Len(cs) : Append(cs, c)[n] = cs[n]
        /\ Append(cs, c)[Len(cs) + 1] = c
    BY <2>1, AppendProperties
  <2>3. AllOnTime(Append(cs, c), t)
    <3>1. \A n \in 1..(Len(cs) + 1) : n \in 1..Len(cs) \/ n = Len(cs) + 1
      BY <1>1
    <3> QED BY <2>1, <2>2, <3>1 DEF AllOnTime
  <2>4. Schedule(cs, t, ms) = Append(cs, c)
    BY <1>4 DEF Schedule, due, c
  <2> QED BY <1>1, <2>2, <2>3, <2>4
<1> QED BY <1>3, <1>4

LEMMA RemoveOnTime ==
    ASSUME NEW t \in Nat, NEW cs \in Seq(CALL), AllOnTime(cs, t), NEW i \in 1..Len(cs)
    PROVE  /\ RemoveAt(cs, i) \in Seq(CALL) /\ AllOnTime(RemoveAt(cs, i), t)
           /\ Len(RemoveAt(cs, i)) = Len(cs) - 1
<1>1. /\ RemoveAt(cs, i) \in Seq(CALL) /\ Len(RemoveAt(cs, i)) = Len(cs) - 1
      /\ \A k \in 1..(Len(cs) - 1) :
            RemoveAt(cs, i)[k] = IF k < i THEN cs[k] ELSE cs[k + 1]
  BY Removed
<1>2. Len(cs) \in Nat /\ \A k \in 1..(Len(cs) - 1) : k \in 1..Len(cs) /\ k + 1 \in 1..Len(cs)
  BY SeqRange
<1> QED BY <1>1, <1>2 DEF AllOnTime

LEMMA Ticked ==
    ASSUME NEW t \in Nat
    PROVE  /\ (t + 1) % Wrap \in 0..(Wrap - 1)
           /\ t + 1 < Wrap => (t + 1) % Wrap = t + 1
<1> DEFINE n == t + 1
<1>1. n \in Nat /\ Wrap \in Nat \ {0}
  BY ShellAssumption
<1> HIDE DEF n
<1>2. n % Wrap \in 0..(Wrap - 1) /\ (n < Wrap => n % Wrap = n)
  BY <1>1, Modulo
<1> QED BY <1>2 DEF n

LEMMA TickOnTime ==
    ASSUME NEW t \in 0..(Wrap - 1), NEW cs \in Seq(CALL), AllOnTime(cs, t),
           NEW ds, ds = [n \in 1..Len(cs) |->
                           [cs[n] EXCEPT !.left = IF @ = 0 THEN 0 ELSE @ - 1]]
    PROVE  ds \in Seq(CALL) /\ Len(ds) = Len(cs) /\ AllOnTime(ds, (t + 1) % Wrap)
<1>1. Wrap \in Nat \ {0} /\ t \in Nat /\ Len(cs) \in Nat /\ \A n \in 1..Len(cs) : cs[n] \in CALL
  BY ShellAssumption, SeqRange
<1>2. ASSUME NEW n \in 1..Len(cs)
      PROVE  /\ ds[n] \in CALL /\ TimeIsRight(ds[n], (t + 1) % Wrap)
  <2> DEFINE c == cs[n]
  <2>1. c \in CALL /\ TimeIsRight(c, t)
    BY <1>1 DEF AllOnTime
  <2>2. /\ c.due \in 1..(Wrap - 1) /\ c.left \in 0..(Wrap - 1) /\ c.wrapped \in BOOLEAN
        /\ c = [due |-> c.due, left |-> c.left, wrapped |-> c.wrapped]
    BY <2>1 DEF CALL
  <2>3. ds[n] = [c EXCEPT !.left = IF @ = 0 THEN 0 ELSE @ - 1]
    OBVIOUS
  <2> HIDE DEF c
  <2>4. /\ ds[n].due = c.due /\ ds[n].left = (IF c.left = 0 THEN 0 ELSE c.left - 1)
        /\ ds[n].wrapped = c.wrapped
        /\ ds[n] = [due |-> ds[n].due, left |-> ds[n].left, wrapped |-> ds[n].wrapped]
    BY <2>2, <2>3
  <2>5. ds[n] \in CALL
    <3>1. /\ ds[n].due \in 1..(Wrap - 1) /\ ds[n].wrapped \in BOOLEAN
      BY <2>2, <2>4
    <3>2. ds[n].left \in 0..(Wrap - 1)
      BY <1>1, <2>2, <2>4
    <3> QED BY <2>4, <3>1, <3>2 DEF CALL
  <2>6. ASSUME ds[n].left > 0, ~ds[n].wrapped
        PROVE  ((t + 1) % Wrap) + ds[n].left = ds[n].due
    <3>1. t + c.left = c.due /\ c.left \in Nat /\ c.left > 1
      BY <1>1, <2>1, <2>2, <2>4, <2>6 DEF TimeIsRight
    <3>2. t + 1 < Wrap
      BY <1>1, <2>2, <3>1
    <3>3. (t + 1) % Wrap = t + 1
      BY <1>1, <3>2, Ticked
    <3>4. ds[n].left = c.left - 1 /\ ds[n].due = c.due
      BY <2>4, <3>1
    <3>5. t + 1 + (c.left - 1) = t + c.left
      <4>1. c.left \in Int /\ t \in Int
        BY <3>1
      <4> QED BY <4>1
    <3> QED BY <3>1, <3>3, <3>4, <3>5
  <2> QED BY <2>5, <2>6 DEF TimeIsRight
<1>3. ds \in Seq(CALL) /\ Len(ds) = Len(cs)
  BY <1>1, <1>2
<1> QED BY <1>2, <1>3 DEF AllOnTime

LEMMA FrontIs ==
    ASSUME NEW S, NEW s \in Seq(S), s # <<>>
    PROVE  /\ Len(s) \in Nat \ {0} /\ Front(s) \in Seq(S) /\ Len(Front(s)) = Len(s) - 1
           /\ \A n \in 1..(Len(s) - 1) : Front(s)[n] = s[n]
           /\ Last(s) \in S /\ Last(s) = s[Len(s)]
<1>1. Len(s) \in Nat \ {0} /\ \A n \in 1..Len(s) : s[n] \in S
  BY SeqRange, EmptySeq
<1>2. \A n \in 1..(Len(s) - 1) : s[n] \in S
  BY <1>1
<1>3. /\ SubSeq(s, 1, Len(s) - 1) \in Seq(S)
      /\ Len(SubSeq(s, 1, Len(s) - 1)) =
            (IF 1 <= Len(s) - 1 THEN Len(s) - 1 - 1 + 1 ELSE 0)
      /\ \A n \in 1..(Len(s) - 1 - 1 + 1) : SubSeq(s, 1, Len(s) - 1)[n] = s[1 + n - 1]
  BY <1>1, <1>2, SubSeqProperties
<1>4. Len(s) \in 1..Len(s) /\ s[Len(s)] \in S
  BY <1>1
<1>5. Front(s) \in Seq(S) /\ Len(Front(s)) = Len(s) - 1
  <2>1. (IF 1 <= Len(s) - 1 THEN Len(s) - 1 - 1 + 1 ELSE 0) = Len(s) - 1
    <3> DEFINE l == Len(s)
    <3>1. l \in Nat \ {0}
      BY <1>1
    <3> HIDE DEF l
    <3>2. (IF 1 <= l - 1 THEN l - 1 - 1 + 1 ELSE 0) = l - 1
      BY <3>1
    <3> QED BY <3>2 DEF l
  <2> QED BY <1>3, <2>1 DEF Front
<1>6. \A n \in 1..(Len(s) - 1) : Front(s)[n] = s[n]
  BY <1>1, <1>3 DEF Front
<1> QED BY <1>1, <1>4, <1>5, <1>6 DEF Last

(* The items that a logon queues.                                          *)
LEMMA KeptItems ==
    ASSUME NEW kept \in Ascending({n \in 1..Len(Offered) : ~Vetoed(Offered[n])}),
           NEW q, q = [k \in DOMAIN kept |-> Offered[kept[k]]]
    PROVE  q \in Seq(Range(Offered)) /\ \A k \in 1..Len(q) : ~Vetoed(q[k])
<1> DEFINE I == {n \in 1..Len(Offered) : ~Vetoed(Offered[n])}
<1>1. Len(Offered) \in Nat /\ \A n \in 1..Len(Offered) : Offered[n] \in Range(Offered)
  BY OfferedType, SeqRange
<1>2. Cardinality(I) \in Nat
  <2>1. IsFiniteSet(1..Len(Offered))
    BY <1>1, FS_Interval
  <2>2. I \subseteq 1..Len(Offered)
    OBVIOUS
  <2> QED BY <2>1, <2>2, FS_Subset, FS_CardinalityType
<1>3. kept \in [1..Cardinality(I) -> I]
  BY DEF Ascending
<1>4. \A n \in I : Offered[n] \in Range(Offered) /\ ~Vetoed(Offered[n])
  BY <1>1
<1> HIDE DEF I
<1>5. q = [k \in 1..Cardinality(I) |-> Offered[kept[k]]]
  BY <1>3
<1>6. \A k \in 1..Cardinality(I) : q[k] \in Range(Offered) /\ ~Vetoed(q[k])
  BY <1>3, <1>4, <1>5
<1>7. q \in Seq(Range(Offered)) /\ Len(q) = Cardinality(I)
  BY <1>2, <1>5, <1>6
<1> QED BY <1>6, <1>7

-----------------------------------------------------------------------------
(* Which actions touch which part of the state.                            *)
LEMMA StartupSteps ==
    [Next]_vars => UNCHANGED startup \/ EnterPump \/ StartupItem \/ CloseMutex
<1> SUFFICES ASSUME [Next]_vars, ~EnterPump, ~StartupItem, ~CloseMutex
             PROVE  UNCHANGED startup
  OBVIOUS
<1>1. CASE UNCHANGED vars
  BY <1>1 DEF vars
<1>2. CASE Next
  BY <1>2 DEF Next, Install, Start, ReadLoad, ReadHotkey, PluginTimer, ShellMessage,
       Hotkey, HotkeyAsks, HotkeyCalls, Crash, Answer, BoxEnds, Quit, Leave, StopServices, Unload, Unhook,
       Unkey, OtherCopy, Respawn, Exit, Arrive, Tick, Ended, vars
<1> QED BY <1>1, <1>2

LEMMA ClockSteps ==
    [Next]_vars => UNCHANGED clock \/ ReadLoad \/ PluginTimer \/ Respawn \/ Tick
<1> SUFFICES ASSUME [Next]_vars, ~ReadLoad, ~PluginTimer, ~Respawn, ~Tick
             PROVE  UNCHANGED clock
  OBVIOUS
<1>1. CASE UNCHANGED vars
  BY <1>1 DEF vars
<1>2. CASE Next
  BY <1>2 DEF Next, Install, Start, ReadHotkey, EnterPump, StartupItem, ShellMessage,
       Hotkey, HotkeyAsks, HotkeyCalls, Crash, Answer, BoxEnds, Quit, Leave, StopServices, Unload, Unhook,
       Unkey, CloseMutex, OtherCopy, Exit, Arrive, Ended, vars
<1> QED BY <1>1, <1>2

LEMMA LoadedSteps ==
    [Next]_vars => \/ UNCHANGED loaded \/ ReadLoad \/ ReadHotkey \/ Unload \/ Unkey \/ Respawn
<1> SUFFICES ASSUME [Next]_vars, ~ReadLoad, ~ReadHotkey, ~Unload, ~Unkey, ~Respawn
             PROVE  UNCHANGED loaded
  OBVIOUS
<1>1. CASE UNCHANGED vars
  BY <1>1 DEF vars
<1>2. CASE Next
  BY <1>2 DEF Next, Install, Start, EnterPump, StartupItem, PluginTimer, ShellMessage,
       Hotkey, HotkeyAsks, HotkeyCalls, Crash, Answer, BoxEnds, Quit, Leave, StopServices, Unhook,
       CloseMutex, OtherCopy, Exit, Arrive, Tick, Ended, vars
<1> QED BY <1>1, <1>2

-----------------------------------------------------------------------------
(* Types.                                                                  *)
TypeStartup ==
    /\ items \in Seq(Range(Offered)) /\ accepted \in Seq(Range(Offered))
    /\ handled \in Seq([item : Range(Offered), how : {"user", "safer", "not"}])
TypeClock ==
    /\ calls \in [Plugins -> Seq(CALL)] /\ \A p \in Plugins : Len(calls[p]) <= MaxCalls
    /\ now \in 0..(Wrap - 1) /\ timer \in BOOLEAN /\ early \in BOOLEAN
TypeLoaded ==
    /\ line \in 0..Len(Config) /\ plugins \in Seq(Plugins)
    /\ mapped \in SUBSET Range(plugins) /\ hotkeys \in SUBSET Keys
TypeInput ==
    /\ posted \in SUBSET (Keys \cup {"shell"}) /\ late \in 0..MaxLate
    /\ boxes \in Seq({"version", "token", "execute", "quit", "restart"})
    /\ Len(boxes) <= MaxBoxes
TypeProcess ==
    /\ phase \in {"off", "closed", "gone", "refused"} \cup RootWindow \cup Faults
    /\ registry \in [mapping : {"SYS", "USR"}, shell : {"explorer", "evil"}, desktop : 0..1]
    /\ services \in {"unloaded", "started", "stopped"}
    /\ lives \in 0..MaxLives /\ run_startup \in BOOLEAN /\ mutex \in {"", "shell", "other"}
    /\ quit \in BOOLEAN /\ need_to_respawn_shell \in BOOLEAN

LEMMA TypeParts ==
    /\ TypeOK => TypeStartup /\ TypeClock /\ TypeLoaded /\ TypeInput /\ TypeProcess
    /\ TypeStartup /\ TypeClock /\ TypeLoaded /\ TypeInput /\ TypeProcess => TypeOK
BY DEF TypeOK, TypeStartup, TypeClock, TypeLoaded, TypeInput, TypeProcess

LEMMA HandledNext ==
    ASSUME TypeStartup, StartupItem
    PROVE  /\ items # <<>> /\ items' = Tail(items) /\ accepted' = accepted
           /\ \E h \in [item : Range(Offered), how : {"user", "safer", "not"}] :
                 /\ h.item = Head(items) /\ handled' = Append(handled, h)
                 /\ h.how = "user" => ~Restricted(Head(items))
<1>1. items # <<>> /\ items' = Tail(items) /\ accepted' = accepted
  BY DEF StartupItem, TimerRuns
<1>2. Head(items) \in Range(Offered)
  BY <1>1, HeadTailProperties DEF TypeStartup
<1> DEFINE h(how) == [item |-> Head(items), how |-> how]
<1>3. \/ handled' = Append(handled, h("not"))
      \/ handled' = Append(handled, h("safer"))
      \/ handled' = Append(handled, h("user")) /\ ~Restricted(Head(items))
  BY DEF StartupItem
<1>4. \A how \in {"user", "safer", "not"} :
         /\ h(how) \in [item : Range(Offered), how : {"user", "safer", "not"}]
         /\ h(how).item = Head(items) /\ h(how).how = how
  BY <1>2
<1> HIDE DEF h
<1> QED BY <1>1, <1>3, <1>4

LEMMA TypeStartupNext == TypeStartup /\ [Next]_vars => TypeStartup'
<1> SUFFICES ASSUME TypeStartup, [Next]_vars PROVE TypeStartup'
  OBVIOUS
<1>1. CASE UNCHANGED startup
  BY <1>1 DEF startup, TypeStartup
<1>2. CASE EnterPump
  <2>1. CASE UNCHANGED startup
    BY <1>1, <2>1
  <2>2. CASE ~UNCHANGED startup
    <3>1. /\ \E kept \in Ascending({n \in 1..Len(Offered) : ~Vetoed(Offered[n])}) :
                items' = [k \in DOMAIN kept |-> Offered[kept[k]]]
          /\ accepted' = items' /\ UNCHANGED handled
      BY <1>2, <2>2 DEF EnterPump
    <3>2. items' \in Seq(Range(Offered))
      BY <3>1, KeptItems
    <3> QED BY <3>1, <3>2 DEF TypeStartup
  <2> QED BY <2>1, <2>2
<1>3. CASE StartupItem
  <2> DEFINE H == [item : Range(Offered), how : {"user", "safer", "not"}]
  <2>1. items # <<>> /\ items' = Tail(items) /\ accepted' = accepted
    BY <1>3, HandledNext
  <2>2. PICK h \in H : handled' = Append(handled, h)
    BY <1>3, HandledNext
  <2>3. Tail(items) \in Seq(Range(Offered))
    BY <2>1, HeadTailProperties DEF TypeStartup
  <2>4. handled \in Seq(H)
    BY DEF TypeStartup
  <2> HIDE DEF H
  <2>5. handled' \in Seq(H)
    BY <2>2, <2>4, AppendProperties
  <2> QED BY <2>1, <2>3, <2>5 DEF TypeStartup, H
<1>4. CASE CloseMutex
  BY <1>4 DEF CloseMutex, TypeStartup
<1> QED BY <1>1, <1>2, <1>3, <1>4, StartupSteps

LEMMA TypeLoadedNext == TypeLoaded /\ [Next]_vars => TypeLoaded'
<1> SUFFICES ASSUME TypeLoaded, [Next]_vars PROVE TypeLoaded'
  OBVIOUS
<1>1. Len(Config) \in Nat
  BY ShellAssumption, SeqRange
<1>2. CASE UNCHANGED loaded
  BY <1>2 DEF loaded, TypeLoaded
<1>3. CASE ReadLoad
  <2> DEFINE p == Config[line + 1].arg
  <2>1. line + 1 \in 1..Len(Config) /\ Config[line + 1].op = "LOAD" /\ line' = line + 1
        /\ hotkeys' = hotkeys
    BY <1>1, <1>3 DEF ReadLoad, TypeLoaded
  <2>2. p \in Plugins
    BY <2>1, ShellAssumption
  <2>3. \/ UNCHANGED <<plugins, mapped>>
        \/ plugins' = Append(plugins, p) /\ mapped' = mapped \cup {p}
    BY <1>3 DEF ReadLoad
  <2> HIDE DEF p
  <2>4. Append(plugins, p) \in Seq(Plugins) /\ Range(Append(plugins, p)) = Range(plugins) \cup {p}
    BY <2>2, AppendProperties, AppendRange DEF TypeLoaded
  <2>5. line' \in 0..Len(Config) /\ hotkeys' \in SUBSET Keys
    BY <1>1, <2>1 DEF TypeLoaded
  <2>6. plugins' \in Seq(Plugins) /\ mapped' \in SUBSET Range(plugins')
    <3>1. CASE UNCHANGED <<plugins, mapped>>
      BY <3>1 DEF TypeLoaded
    <3>2. CASE plugins' = Append(plugins, p) /\ mapped' = mapped \cup {p}
      BY <2>4, <3>2 DEF TypeLoaded
    <3> QED BY <2>3, <3>1, <3>2
  <2> QED BY <2>5, <2>6 DEF TypeLoaded
<1>4. CASE ReadHotkey
  <2>1. line + 1 \in 1..Len(Config) /\ Config[line + 1].op = "HOTKEY" /\ line' = line + 1
        /\ UNCHANGED <<plugins, mapped>> /\ hotkeys' = hotkeys \cup {Config[line + 1].arg}
    BY <1>1, <1>4 DEF ReadHotkey, TypeLoaded
  <2>2. Config[line + 1].arg \in Keys
    BY <2>1, ShellAssumption
  <2> QED BY <1>1, <2>1, <2>2 DEF TypeLoaded
<1>5. CASE Unload
  BY <1>5 DEF Unload, TypeLoaded
<1>6. CASE Unkey
  BY <1>6 DEF Unkey, TypeLoaded
<1>7. CASE Respawn
  <2>1. line' = 0 /\ plugins' = <<>> /\ mapped' = {} /\ hotkeys' = {}
    BY <1>7 DEF Respawn
  <2> QED BY <1>1, <2>1, EmptySeq DEF TypeLoaded
<1> QED BY <1>2, <1>3, <1>4, <1>5, <1>6, <1>7, LoadedSteps

(* What the box of an action does, and who can ask to restart.             *)
BoxKind == {"version", "token", "execute", "quit", "restart"}

LEMMA BoxNext ==
    ASSUME TypeInput, NEW kind \in BoxKind, Box(kind)
    PROVE  /\ boxes' = Append(boxes, kind) /\ boxes' \in Seq(BoxKind)
           /\ Len(boxes') <= MaxBoxes
           /\ \A n \in 1..Len(boxes') : \/ boxes'[n] = kind
                                        \/ n \in 1..Len(boxes) /\ boxes'[n] = boxes[n]
<1>1. boxes \in Seq(BoxKind) /\ Len(boxes) \in Nat /\ MaxBoxes \in Nat
      /\ Len(boxes) < MaxBoxes /\ boxes' = Append(boxes, kind)
  BY SeqRange, ShellAssumption DEF TypeInput, BoxKind, Box
<1>2. /\ Append(boxes, kind) \in Seq(BoxKind)
      /\ Len(Append(boxes, kind)) = Len(boxes) + 1
      /\ \A n \in 1..Len(boxes) : Append(boxes, kind)[n] = boxes[n]
      /\ Append(boxes, kind)[Len(boxes) + 1] = kind
  BY <1>1, AppendProperties
<1>3. \A n \in 1..(Len(boxes) + 1) : n \in 1..Len(boxes) \/ n = Len(boxes) + 1
  BY <1>1
<1>4. \A n \in 1..Len(boxes') : \/ boxes'[n] = kind
                                \/ n \in 1..Len(boxes) /\ boxes'[n] = boxes[n]
  <2> DEFINE b == Append(boxes, kind)
  <2>1. /\ Len(b) = Len(boxes) + 1 /\ b[Len(boxes) + 1] = kind
        /\ \A n \in 1..Len(boxes) : b[n] = boxes[n]
    BY <1>2
  <2> HIDE DEF b
  <2>2. \A n \in 1..Len(b) : b[n] = kind \/ (n \in 1..Len(boxes) /\ b[n] = boxes[n])
    BY <1>3, <2>1
  <2> QED BY <1>1, <2>2 DEF b
<1>5. boxes' \in Seq(BoxKind) /\ Len(boxes') <= MaxBoxes
  BY <1>1, <1>2
<1> QED BY <1>1, <1>4, <1>5, Zenon

(* Every step leaves the boxes as they are, opens one, ends the last one,  *)
(* or crashes.                                                             *)
LEMMA BoxSteps ==
    [Next]_vars => \/ boxes' = boxes \/ boxes' = <<>>
                   \/ \E kind \in BoxKind : Box(kind) /\ (kind = "restart" => kind \in posted)
                   \/ boxes # <<>> /\ boxes' = Front(boxes)
<1> SUFFICES ASSUME [Next]_vars, boxes' # boxes, boxes' # <<>>,
                    ~(boxes # <<>> /\ boxes' = Front(boxes))
             PROVE  \E kind \in BoxKind : Box(kind) /\ (kind = "restart" => kind \in posted)
  OBVIOUS
<1>1. CASE UNCHANGED vars
  BY <1>1 DEF vars, input
<1>2. CASE ReadLoad
  <2>1. Box("version")
    BY <1>2 DEF ReadLoad
  <2> QED BY <2>1 DEF BoxKind
<1>3. CASE StartupItem
  <2>1. Box("token") \/ Box("execute")
    BY <1>3 DEF StartupItem
  <2> QED BY <2>1 DEF BoxKind
<1>4. CASE Hotkey
  <2>1. PICK k \in posted \ {"shell"} : HotkeyAsks(k) \/ HotkeyCalls(k)
    BY <1>4 DEF Hotkey
  <2>2. HotkeyAsks(k)
    BY <2>1 DEF HotkeyCalls, Crash
  <2>3. Box(k) /\ k \in BoxKind
    BY <2>2 DEF HotkeyAsks, BoxKind
  <2> QED BY <2>1, <2>3
<1>5. CASE Next /\ ~ReadLoad /\ ~StartupItem /\ ~Hotkey
  BY <1>5 DEF Next, Install, Start, ReadHotkey, EnterPump, PluginTimer, ShellMessage,
       Crash, Answer, BoxEnds, Quit, Leave, StopServices, Unload, Unhook,
       Unkey, CloseMutex, OtherCopy, Respawn, Exit, Arrive, Tick, Ended, vars, input
<1> QED BY <1>1, <1>2, <1>3, <1>4, <1>5

LEMMA LateNext ==
    ASSUME TypeInput, Budget
    PROVE  late' \in 0..MaxLate
BY ShellAssumption DEF TypeInput, Budget

LEMMA TypeInputNext == TypeOK /\ [Next]_vars => TypeInput'
<1> SUFFICES ASSUME TypeOK, [Next]_vars PROVE TypeInput'
  OBVIOUS
<1>1. TypeInput /\ hotkeys \in SUBSET Keys /\ MaxLate \in Nat /\ MaxBoxes \in Nat
  BY ShellAssumption, TypeParts DEF TypeLoaded
<1>2. posted' \in SUBSET (Keys \cup {"shell"})
  <2>1. CASE UNCHANGED vars
    BY <1>1, <2>1 DEF vars, input, TypeInput
  <2>2. CASE ShellMessage \/ Hotkey
    BY <1>1, <2>2 DEF ShellMessage, Hotkey, HotkeyAsks, HotkeyCalls, Crash, TypeInput
  <2>3. CASE Arrive
    BY <1>1, <2>3 DEF Arrive, TypeInput
  <2>4. CASE Next /\ ~ShellMessage /\ ~Hotkey /\ ~Arrive
    <3>1. posted' = posted
      BY <2>4 DEF Next, Install, Start, ReadLoad, ReadHotkey, EnterPump, StartupItem, PluginTimer,
           Crash, Answer, BoxEnds, Quit, Leave, StopServices, Unload, Unhook,
           Unkey, CloseMutex, OtherCopy, Respawn, Exit, Tick, Ended, vars, input
    <3> QED BY <1>1, <3>1 DEF TypeInput
  <2> QED BY <2>1, <2>2, <2>3, <2>4
<1>3. late' \in 0..MaxLate
  <2>1. CASE UNCHANGED vars
    BY <1>1, <2>1 DEF vars, input, TypeInput
  <2>2. CASE Arrive \/ Tick
    BY <1>1, <2>2, LateNext DEF Arrive, Tick
  <2>3. CASE Next /\ ~Arrive /\ ~Tick
    <3>1. late' = late \/ late' = 0
      BY <2>3 DEF Next, Install, Start, ReadLoad, ReadHotkey, EnterPump, StartupItem, PluginTimer,
           ShellMessage, Hotkey, HotkeyAsks, HotkeyCalls,
           Crash, Answer, BoxEnds, Quit, Leave, StopServices, Unload, Unhook,
           Unkey, CloseMutex, OtherCopy, Respawn, Exit, Ended, vars, input
    <3> QED BY <1>1, <3>1 DEF TypeInput
  <2> QED BY <2>1, <2>2, <2>3
<1>4. boxes' \in Seq(BoxKind) /\ Len(boxes') <= MaxBoxes
  <2>1. boxes \in Seq(BoxKind) /\ Len(boxes) <= MaxBoxes
    BY <1>1 DEF TypeInput, BoxKind
  <2>2. CASE boxes' = boxes
    BY <2>1, <2>2
  <2>3. CASE boxes' = <<>>
    BY <1>1, <2>3, EmptySeq
  <2>4. CASE \E kind \in BoxKind : Box(kind)
    BY <1>1, <2>4, BoxNext
  <2>5. CASE boxes # <<>> /\ boxes' = Front(boxes)
    <3>1. Front(boxes) \in Seq(BoxKind) /\ Len(Front(boxes)) = Len(boxes) - 1
          /\ Len(boxes) \in Nat \ {0}
      BY <2>1, <2>5, FrontIs
    <3> QED BY <1>1, <2>1, <2>5, <3>1
  <2> QED BY <2>2, <2>3, <2>4, <2>5, BoxSteps
<1> QED BY <1>2, <1>3, <1>4 DEF TypeInput, BoxKind

LEMMA ScheduleAnyOnTime ==
    ASSUME NEW t \in 0..(Wrap - 1), NEW cs \in Seq(CALL), AllOnTime(cs, t),
           NEW ds \in ScheduleAny(cs, t)
    PROVE  ds \in Seq(CALL) /\ AllOnTime(ds, t)
<1>1. CASE ds = cs
  BY <1>1
<1>2. CASE \E ms \in Delays : ds = Schedule(cs, t, ms)
  BY <1>2, ScheduleOnTime
<1> QED BY <1>1, <1>2 DEF ScheduleAny

(* The calls of a plugin after its call-back.                              *)
LEMMA CalledOnTime ==
    ASSUME NEW p \in Called, TypeOK, OnTime, NEW again \in Delays \cup {0},
           NEW ds, ds = (LET cs == RemoveAt(calls[p], First(Ready(calls[p]))) IN
                         IF again = 0 THEN cs ELSE Schedule(cs, now, again))
    PROVE  ds \in Seq(CALL) /\ AllOnTime(ds, now) /\ Len(ds) <= MaxCalls
<1>1. /\ p \in Plugins /\ Ready(calls[p]) # {} /\ calls[p] \in Seq(CALL)
      /\ Len(calls[p]) <= MaxCalls /\ AllOnTime(calls[p], now)
      /\ now \in 0..(Wrap - 1) /\ now \in Nat /\ MaxCalls \in Nat
  <2>1. p \in Range(plugins) /\ Ready(calls[p]) # {}
    BY DEF Called
  <2>2. p \in Plugins
    BY <2>1, TypeParts, SeqRange DEF TypeLoaded
  <2>3. calls[p] \in Seq(CALL) /\ Len(calls[p]) <= MaxCalls /\ now \in 0..(Wrap - 1)
    BY <2>2, TypeParts DEF TypeClock
  <2> QED BY <2>1, <2>2, <2>3, ShellAssumption DEF OnTime
<1> DEFINE i  == First(Ready(calls[p]))
           cs == RemoveAt(calls[p], i)
<1>2. i \in 1..Len(calls[p])
  BY <1>1, FirstReady
<1>3. ds = IF again = 0 THEN cs ELSE Schedule(cs, now, again)
  OBVIOUS
<1> HIDE DEF i
<1>4. cs \in Seq(CALL) /\ AllOnTime(cs, now) /\ Len(cs) = Len(calls[p]) - 1
  BY <1>1, <1>2, RemoveOnTime
<1>5. Len(calls[p]) \in Nat
  BY <1>1, SeqRange
<1> HIDE DEF cs
<1>6. CASE again = 0
  BY <1>1, <1>3, <1>4, <1>5, <1>6
<1>7. CASE again \in Delays /\ again # 0
  <2>1. /\ Schedule(cs, now, again) \in Seq(CALL) /\ AllOnTime(Schedule(cs, now, again), now)
        /\ Len(Schedule(cs, now, again)) <= Len(cs) + 1
        /\ Len(Schedule(cs, now, again)) \in Nat
    BY <1>1, <1>4, <1>7, ScheduleOnTime
  <2>2. ds = Schedule(cs, now, again)
    BY <1>3, <1>7
  <2>3. Len(cs) + 1 = Len(calls[p])
    BY <1>4, <1>5
  <2> QED BY <1>1, <1>5, <2>1, <2>2, <2>3
<1> QED BY <1>6, <1>7

(* The call-back that is called has no time left, or its time has wrapped. *)
LEMMA CalledNotEarly ==
    ASSUME NEW p \in Called, TypeOK, OnTime
    PROVE  LET c == calls[p][First(Ready(calls[p]))] IN ~(c.left > 0 /\ ~c.wrapped)
<1>1. p \in Range(plugins) /\ Ready(calls[p]) # {}
  BY DEF Called
<1>2. p \in Plugins
  BY <1>1, TypeParts, SeqRange DEF TypeLoaded
<1>3. calls[p] \in Seq(CALL) /\ now \in 0..(Wrap - 1) /\ now \in Nat
  BY <1>2, TypeParts, ShellAssumption DEF TypeClock
<1> DEFINE i == First(Ready(calls[p]))
           c == calls[p][i]
<1>4. i \in 1..Len(calls[p]) /\ c.due <= now
  BY <1>1, <1>3, FirstReady
<1> HIDE DEF i
<1>5. c \in CALL /\ TimeIsRight(c, now)
  BY <1>2, <1>3, <1>4, SeqRange DEF OnTime, AllOnTime
<1> HIDE DEF c
<1>6. c.left \in Nat /\ c.due \in Nat
  BY <1>5, ShellAssumption DEF CALL
<1>7. ~(c.left > 0 /\ ~c.wrapped)
  BY <1>3, <1>4, <1>5, <1>6 DEF TimeIsRight
<1> QED BY <1>7 DEF c, i

LEMMA ClockNext ==
    ASSUME TypeOK, OnTime, [Next]_vars
    PROVE  TypeClock' /\ OnTime'
<1>1. /\ TypeClock /\ ~early /\ \A p \in Plugins : AllOnTime(calls[p], now)
      /\ now \in 0..(Wrap - 1) /\ now \in Nat /\ Wrap \in Nat \ {0} /\ MaxCalls \in Nat
      /\ calls \in [Plugins -> Seq(CALL)] /\ \A p \in Plugins : Len(calls[p]) <= MaxCalls
      /\ timer \in BOOLEAN
  BY TypeParts, ShellAssumption DEF OnTime, TypeClock
<1>2. CASE UNCHANGED clock
  BY <1>1, <1>2 DEF clock, TypeClock, OnTime
<1>3. CASE ReadLoad
  <2> DEFINE p == Config[line + 1].arg
  <2>1. UNCHANGED <<now, timer, early>>
    BY <1>3 DEF ReadLoad
  <2>2. \/ UNCHANGED calls
        \/ \E cs \in ScheduleAny(<<>>, now) : \E ds \in ScheduleAny(cs, now) :
               Len(ds) <= MaxCalls /\ calls' = [calls EXCEPT ![p] = ds]
    BY <1>3 DEF ReadLoad
  <2> HIDE DEF p
  <2>3. CASE UNCHANGED calls
    BY <1>2, <2>1, <2>3 DEF clock
  <2>4. ASSUME NEW cs \in ScheduleAny(<<>>, now), NEW ds \in ScheduleAny(cs, now),
               Len(ds) <= MaxCalls, calls' = [calls EXCEPT ![p] = ds]
        PROVE  TypeClock' /\ OnTime'
    <3>1. <<>> \in Seq(CALL) /\ AllOnTime(<<>>, now)
      BY EmptySeq DEF AllOnTime
    <3>2. cs \in Seq(CALL) /\ AllOnTime(cs, now)
      BY <1>1, <3>1, ScheduleAnyOnTime
    <3>3. ds \in Seq(CALL) /\ AllOnTime(ds, now)
      BY <1>1, <3>2, ScheduleAnyOnTime
    <3>4. calls' \in [Plugins -> Seq(CALL)]
          /\ \A q \in Plugins : calls'[q] = calls[q] \/ calls'[q] = ds
      BY <1>1, <2>4, <3>3
    <3> QED BY <1>1, <2>1, <2>4, <3>3, <3>4 DEF TypeClock, OnTime
  <2> QED BY <2>2, <2>3, <2>4
<1>4. CASE PluginTimer
  <2>1. CASE UNCHANGED clock
    BY <1>2, <2>1
  <2>2. CASE ~UNCHANGED clock
    <3>1. /\ timer' = FALSE /\ UNCHANGED now
          /\ \E again \in [Called -> Delays \cup {0}] :
               calls' = [p \in Plugins |->
                  IF p \notin Called THEN calls[p]
                  ELSE LET cs == RemoveAt(calls[p], First(Ready(calls[p]))) IN
                       IF again[p] = 0 THEN cs ELSE Schedule(cs, now, again[p])]
          /\ early' = (early \/ \E p \in Called :
                LET c == calls[p][First(Ready(calls[p]))] IN c.left > 0 /\ ~c.wrapped)
      BY <1>4, <2>2 DEF PluginTimer, Crash
    <3>2. ~early'
      BY <1>1, <3>1, CalledNotEarly
    <3>3. PICK again \in [Called -> Delays \cup {0}] :
               calls' = [p \in Plugins |->
                  IF p \notin Called THEN calls[p]
                  ELSE LET cs == RemoveAt(calls[p], First(Ready(calls[p]))) IN
                       IF again[p] = 0 THEN cs ELSE Schedule(cs, now, again[p])]
      BY <3>1
    <3>4. ASSUME NEW p \in Plugins
          PROVE  calls'[p] \in Seq(CALL) /\ AllOnTime(calls'[p], now) /\ Len(calls'[p]) <= MaxCalls
      <4>1. CASE p \notin Called
        BY <1>1, <3>3, <4>1
      <4>2. CASE p \in Called
        <5>1. calls'[p] = (LET cs == RemoveAt(calls[p], First(Ready(calls[p]))) IN
                         IF again[p] = 0 THEN cs ELSE Schedule(cs, now, again[p]))
              /\ again[p] \in Delays \cup {0}
          BY <3>3, <4>2
        <5> QED BY <4>2, <5>1, CalledOnTime
      <4> QED BY <4>1, <4>2
    <3>5. calls' = [p \in Plugins |-> calls'[p]]
      BY <3>3
    <3>6. calls' \in [Plugins -> Seq(CALL)]
      BY <3>4, <3>5
    <3> QED BY <1>1, <3>1, <3>2, <3>4, <3>6 DEF TypeClock, OnTime
  <2> QED BY <2>1, <2>2
<1>5. CASE Respawn
  <2>1. calls' = [p \in Plugins |-> <<>>] /\ UNCHANGED <<now, timer, early>>
    BY <1>5 DEF Respawn
  <2>2. \A p \in Plugins : calls'[p] = <<>>
    BY <2>1
  <2>3. <<>> \in Seq(CALL) /\ Len(<<>>) = 0
    BY EmptySeq
  <2>4. calls' \in [Plugins -> Seq(CALL)]
    BY <2>1, <2>3
  <2> QED BY <1>1, <2>1, <2>2, <2>3, <2>4 DEF TypeClock, OnTime, AllOnTime
<1>6. CASE Tick
  <2>1. /\ timer' = TRUE /\ now' = (now + 1) % Wrap /\ early' = early
        /\ calls' = [p \in Plugins |-> [n \in 1..Len(calls[p]) |->
               [calls[p][n] EXCEPT !.left = IF @ = 0 THEN 0 ELSE @ - 1]]]
    BY <1>6 DEF Tick
  <2>2. now' \in 0..(Wrap - 1)
    BY <1>1, <2>1, Ticked
  <2>3. ASSUME NEW p \in Plugins
        PROVE  calls'[p] \in Seq(CALL) /\ AllOnTime(calls'[p], now') /\ Len(calls'[p]) <= MaxCalls
    <3>1. calls'[p] = [n \in 1..Len(calls[p]) |->
               [calls[p][n] EXCEPT !.left = IF @ = 0 THEN 0 ELSE @ - 1]]
      BY <2>1
    <3> DEFINE ds == calls'[p]
               cs == calls[p]
    <3>2. cs \in Seq(CALL) /\ AllOnTime(cs, now) /\ Len(cs) <= MaxCalls
      BY <1>1
    <3>3. ds = [n \in 1..Len(cs) |-> [cs[n] EXCEPT !.left = IF @ = 0 THEN 0 ELSE @ - 1]]
      BY <3>1
    <3> HIDE DEF ds, cs
    <3>4. ds \in Seq(CALL) /\ Len(ds) = Len(cs) /\ AllOnTime(ds, (now + 1) % Wrap)
      BY <1>1, <3>2, <3>3, TickOnTime
    <3>5. ds \in Seq(CALL) /\ AllOnTime(ds, now') /\ Len(ds) <= MaxCalls
      BY <2>1, <3>2, <3>4
    <3> QED BY <3>5 DEF ds
  <2>4. calls' = [p \in Plugins |-> calls'[p]]
    BY <2>1
  <2>5. calls' \in [Plugins -> Seq(CALL)]
    BY <2>3, <2>4
  <2> QED BY <1>1, <2>1, <2>2, <2>3, <2>5 DEF TypeClock, OnTime
<1> QED BY <1>2, <1>3, <1>4, <1>5, <1>6, ClockSteps

-----------------------------------------------------------------------------
(* Where the process is.                                                   *)
LEMMA PhaseNext ==
    ASSUME TypeProcess, [Next]_vars
    PROVE  phase' \in {"off", "closed", "gone", "refused"} \cup RootWindow \cup Faults
<1>1. CASE UNCHANGED vars
  BY <1>1 DEF vars, TypeProcess
<1>2. CASE Next
  <2>1. CASE phase' = phase
    BY <2>1 DEF TypeProcess
  <2>2. CASE phase' # phase
    <3>1. phase' \in {"config", "drain", "gone", "pump", "stopped", "unloaded", "unhooked",
                      "keyless", "closed", "refused",
                      "called freed code", "called through NULL"}
      BY <1>2, <2>2 DEF Next, Install, Start, InitShell, ReadLoad, ReadHotkey, EnterPump, StartupItem, PluginTimer,
           ShellMessage, Hotkey, HotkeyAsks, HotkeyCalls,
           Crash, Answer, BoxEnds, Quit, Leave, StopServices, Unload, Unhook,
           Unkey, CloseMutex, OtherCopy, Respawn, Exit, Arrive, Tick, Ended, vars
    <3> QED BY <3>1 DEF RootWindow, Draining, Faults
  <2> QED BY <2>1, <2>2
<1> QED BY <1>1, <1>2

LEMMA RegistryNext ==
    ASSUME TypeProcess, [Next]_vars
    PROVE  registry' \in [mapping : {"SYS", "USR"}, shell : {"explorer", "evil"}, desktop : 0..1]
<1>1. CASE registry' = registry
  BY <1>1 DEF TypeProcess
<1>2. CASE Install
  <2> DEFINE R == [mapping : {"SYS", "USR"}, shell : {"explorer", "evil"}, desktop : 0..1]
  <2>1. registry \in R
    BY DEF TypeProcess
  <2>2. registry' \in install_shell("evil", 1) \cup install_shell("explorer", 0)
                        \cup sys_install("USR") \cup sys_install("SYS")
    BY <1>2 DEF Install
  <2>3. ASSUME NEW x \in {"explorer", "evil"}, NEW d \in 0..1
        PROVE  install_shell(x, d) \subseteq R
    <3>1. [registry EXCEPT !.shell = x] \in R /\ [registry EXCEPT !.shell = x, !.desktop = d] \in R
      BY <2>1
    <3> QED BY <2>1, <3>1 DEF install_shell
  <2>4. ASSUME NEW m \in {"SYS", "USR"}
        PROVE  sys_install(m) \subseteq R
    BY <2>1 DEF sys_install
  <2> HIDE DEF R
  <2>5. registry' \in R
    BY <2>2, <2>3, <2>4
  <2> QED BY <2>5 DEF R
<1>3. CASE UNCHANGED vars
  BY <1>1, <1>3 DEF vars, system
<1>4. CASE Next /\ ~Install
  BY <1>1, <1>4 DEF Next, Start, ReadLoad, ReadHotkey, EnterPump, StartupItem, PluginTimer,
       ShellMessage, Hotkey, HotkeyAsks, HotkeyCalls,
       Crash, Answer, BoxEnds, Quit, Leave, StopServices, Unload, Unhook,
       Unkey, CloseMutex, OtherCopy, Respawn, Exit, Arrive, Tick, Ended, vars, system
<1> QED BY <1>2, <1>3, <1>4

LEMMA FlagsNext ==
    ASSUME TypeProcess, [Next]_vars
    PROVE  /\ quit' \in BOOLEAN /\ need_to_respawn_shell' \in BOOLEAN /\ run_startup' \in BOOLEAN
           /\ mutex' \in {"", "shell", "other"} /\ services' \in {"unloaded", "started", "stopped"}
<1>1. CASE UNCHANGED vars
  BY <1>1 DEF vars, ending, process, system, TypeProcess
<1>2. CASE Answer
  <2>1. UNCHANGED process /\ UNCHANGED system
    BY <1>2 DEF Answer, BoxEnds
  <2>2. quit' \in BOOLEAN /\ need_to_respawn_shell' \in BOOLEAN
    BY <1>2, Zenon DEF Answer, BoxEnds
  <2> QED BY <2>1, <2>2 DEF process, system, TypeProcess
<1>3. CASE Next /\ ~Answer
  <2>1. (quit' = quit \/ quit' = FALSE)
        /\ (need_to_respawn_shell' = need_to_respawn_shell \/ need_to_respawn_shell' = FALSE)
    BY <1>3 DEF Next, Install, Start, ReadLoad, ReadHotkey, EnterPump, StartupItem, PluginTimer,
       ShellMessage, Hotkey, HotkeyAsks, HotkeyCalls,
       Crash, Quit, Leave, StopServices, Unload, Unhook,
       Unkey, CloseMutex, OtherCopy, Respawn, Exit, Arrive, Tick, Ended, vars, ending
  <2>2. run_startup' = run_startup \/ run_startup' = FALSE \/ run_startup' = TRUE
    BY <1>3 DEF Next, Install, Start, handle_command_line, ReadLoad, ReadHotkey, EnterPump, StartupItem, PluginTimer,
       ShellMessage, Hotkey, HotkeyAsks, HotkeyCalls,
       Crash, Quit, Leave, StopServices, Unload, Unhook,
       Unkey, CloseMutex, OtherCopy, Respawn, Exit, Arrive, Tick, Ended, vars, process
  <2>3. mutex' = mutex \/ mutex' \in {"", "shell", "other"}
    BY <1>3 DEF Next, Install, Start, ReadLoad, ReadHotkey, EnterPump, StartupItem, PluginTimer,
       ShellMessage, Hotkey, HotkeyAsks, HotkeyCalls,
       Crash, Quit, Leave, StopServices, Unload, Unhook,
       Unkey, CloseMutex, Released, OtherCopy, Respawn, Exit, Arrive, Tick, Ended, vars, process
  <2>4. services' = services \/ services' \in {"unloaded", "started", "stopped"}
    BY <1>3 DEF Next, Install, Start, ReadLoad, ReadHotkey, EnterPump, load_shell_service_objects,
       StartupItem, PluginTimer,
       ShellMessage, Hotkey, HotkeyAsks, HotkeyCalls,
       Crash, Quit, Leave, StopServices, Unload, Unhook,
       Unkey, CloseMutex, OtherCopy, Respawn, Exit, Arrive, Tick, Ended, vars, system
  <2> QED BY <2>1, <2>2, <2>3, <2>4 DEF TypeProcess
<1> QED BY <1>1, <1>2, <1>3

(* Where the wish to restart comes from.                                   *)
LEMMA RestartNext ==
    ASSUME TypeOK, [Next]_vars, RestartAsked'
    PROVE  RestartAsked \/ (Arrive /\ lives < MaxLives)
<1> SUFFICES ASSUME ~(Arrive /\ lives < MaxLives) PROVE RestartAsked
  OBVIOUS
<1>1. TypeInput /\ boxes \in Seq(BoxKind)
  BY TypeParts DEF TypeInput, BoxKind
<1>2. "restart" \in posted' => "restart" \in posted
  <2>1. CASE Arrive
    BY <2>1 DEF Arrive
  <2>2. CASE UNCHANGED vars
    BY <2>2 DEF vars, input
  <2>3. CASE Next /\ ~Arrive
    BY <2>3 DEF Next, Install, Start, ReadLoad, ReadHotkey, EnterPump, StartupItem, PluginTimer,
       ShellMessage, Hotkey, HotkeyAsks, HotkeyCalls,
       Crash, Answer, BoxEnds, Quit, Leave, StopServices, Unload, Unhook,
       Unkey, CloseMutex, OtherCopy, Respawn, Exit, Tick, Ended, vars, input
  <2> QED BY <2>1, <2>2, <2>3
<1>3. (\E n \in 1..Len(boxes') : boxes'[n] = "restart") => RestartAsked
  <2>1. CASE boxes' = boxes
    BY <2>1 DEF RestartAsked
  <2>2. CASE boxes' = <<>>
    BY <2>2
  <2>3. ASSUME NEW kind \in BoxKind, Box(kind), kind = "restart" => kind \in posted
        PROVE  (\E n \in 1..Len(boxes') : boxes'[n] = "restart") => RestartAsked
    BY <1>1, <2>3, BoxNext DEF RestartAsked
  <2>4. CASE boxes # <<>> /\ boxes' = Front(boxes)
    <3>1. /\ Len(boxes') = Len(boxes) - 1 /\ Len(boxes) \in Nat \ {0}
          /\ \A n \in 1..(Len(boxes) - 1) : boxes'[n] = boxes[n]
      BY <1>1, <2>4, FrontIs
    <3>2. \A n \in 1..(Len(boxes) - 1) : n \in 1..Len(boxes)
      BY <3>1
    <3> QED BY <3>1, <3>2 DEF RestartAsked
  <2> QED BY <2>1, <2>2, <2>3, <2>4, BoxSteps
<1>4. need_to_respawn_shell' => RestartAsked
  <2> SUFFICES ASSUME need_to_respawn_shell', ~need_to_respawn_shell
               PROVE  \E n \in 1..Len(boxes) : boxes[n] = "restart"
    BY DEF RestartAsked
  <2>1. Answer
    BY DEF Next, Install, Start, ReadLoad, ReadHotkey, EnterPump, StartupItem, PluginTimer,
       ShellMessage, Hotkey, HotkeyAsks, HotkeyCalls,
       Crash, Quit, Leave, StopServices, Unload, Unhook,
       Unkey, CloseMutex, OtherCopy, Respawn, Exit, Arrive, Tick, Ended, vars, ending
  <2>2. boxes # <<>> /\ Last(boxes) = "restart"
    BY <2>1, Zenon DEF Answer, BoxEnds
  <2>3. Len(boxes) \in 1..Len(boxes) /\ Last(boxes) = boxes[Len(boxes)]
    <3>1. Len(boxes) \in Nat \ {0} /\ Last(boxes) = boxes[Len(boxes)]
      BY <1>1, <2>2, FrontIs
    <3> QED BY <3>1
  <2> QED BY <2>2, <2>3
<1> QED BY <1>2, <1>3, <1>4 DEF RestartAsked

LEMMA LivesNext ==
    ASSUME TypeOK, Lives, [Next]_vars
    PROVE  lives' \in 0..MaxLives /\ Lives'
<1>1. lives \in 0..MaxLives /\ MaxLives \in Nat \ {0}
  BY ShellAssumption, TypeParts DEF TypeProcess
<1>2. CASE Start
  <2>1. lives' = 1 /\ phase = "off" /\ phase' \in {"config", "drain", "gone"}
    BY <1>2 DEF Start, InitShell
  <2>2. UNCHANGED input /\ UNCHANGED ending
    BY <1>2 DEF Start
  <2>3. posted' = {} /\ boxes' = <<>> /\ ~need_to_respawn_shell'
    BY <2>1, <2>2 DEF input, ending, Lives
  <2>4. Len(boxes') = 0
    BY <2>3, EmptySeq
  <2>5. ~RestartAsked'
    BY <2>3, <2>4 DEF RestartAsked
  <2> QED BY <1>1, <2>1, <2>3, <2>5 DEF Lives
<1>3. CASE Respawn
  <2>1. /\ phase = "closed" /\ need_to_respawn_shell /\ lives' = lives + 1
        /\ ~need_to_respawn_shell' /\ UNCHANGED <<posted, boxes>>
        /\ phase' \in {"config", "refused"}
    BY <1>3 DEF Respawn
  <2>2. lives < MaxLives /\ posted' = {} /\ boxes' = <<>>
    BY <2>1 DEF Lives, RestartAsked
  <2>3. Len(boxes') = 0
    BY <2>2, EmptySeq
  <2>4. ~RestartAsked'
    BY <2>1, <2>2, <2>3 DEF RestartAsked
  <2> QED BY <1>1, <2>1, <2>2, <2>4 DEF Lives
<1>4. CASE ~Start /\ ~Respawn
  <2>1. lives' = lives
    <3>1. CASE UNCHANGED vars
      BY <3>1 DEF vars, process
    <3>2. CASE Next
      BY <1>4, <3>2 DEF Next, Install, ReadLoad, ReadHotkey, EnterPump, StartupItem, PluginTimer,
       ShellMessage, Hotkey, HotkeyAsks, HotkeyCalls,
       Crash, Answer, BoxEnds, Quit, Leave, StopServices, Unload, Unhook,
       Unkey, CloseMutex, OtherCopy, Exit, Arrive, Tick, Ended, vars, process
    <3> QED BY <3>1, <3>2
  <2>2. RestartAsked' => lives' < MaxLives
    BY <2>1, RestartNext DEF Lives
  <2>3. phase' \in {"off", "closed"} => phase' = phase \/ CloseMutex
    <3>1. CASE UNCHANGED vars
      BY <3>1 DEF vars
    <3>2. CASE Next
      BY <1>4, <3>2 DEF Next, Install, ReadLoad, ReadHotkey, EnterPump, StartupItem, PluginTimer,
       ShellMessage, Hotkey, HotkeyAsks, HotkeyCalls,
       Crash, Answer, BoxEnds, Quit, Leave, StopServices, Unload, Unhook,
       Unkey, OtherCopy, Exit, Arrive, Tick, Ended, vars
    <3> QED BY <3>1, <3>2
  <2>4. ASSUME phase \in {"off", "closed"}, phase' = phase
        PROVE  UNCHANGED input /\ UNCHANGED ending
    <3>1. CASE UNCHANGED vars
      BY <3>1 DEF vars
    <3>2. CASE Next
      <4>1. boxes = <<>>
        BY <2>4 DEF Lives
      <4>2. Install \/ OtherCopy \/ Ended
        BY <1>4, <2>4, <3>2, <4>1 DEF Next, ReadLoad, ReadHotkey, EnterPump, StartupItem, PluginTimer,
         ShellMessage, Hotkey, Answer, BoxEnds, Quit, Leave, StopServices, Unload, Unhook,
         Unkey, CloseMutex, Exit, Arrive, Tick, RootWindow, Draining
      <4> QED BY <4>2 DEF Install, OtherCopy, Ended, vars
    <3> QED BY <3>1, <3>2
  <2>5. phase' \in {"off", "closed"} => posted' = {} /\ boxes' = <<>>
    <3>1. CASE CloseMutex
      BY <3>1 DEF CloseMutex, Leave, Drained, input
    <3>2. CASE phase \in {"off", "closed"} /\ phase' = phase
      BY <2>4, <3>2 DEF input, Lives
    <3> QED BY <2>3, <3>1, <3>2
  <2>6. phase' = "off" => ~need_to_respawn_shell'
    <3>1. ~CloseMutex \/ phase' # "off"
      BY DEF CloseMutex, Leave
    <3>2. CASE phase = "off" /\ phase' = phase
      BY <2>4, <3>2 DEF ending, Lives
    <3> QED BY <2>3, <3>1, <3>2
  <2> QED BY <1>1, <2>1, <2>2, <2>5, <2>6 DEF Lives
<1> QED BY <1>2, <1>3, <1>4

LEMMA TypeNext ==
    ASSUME TypeOK, OnTime, Lives, [Next]_vars
    PROVE  TypeOK'
<1>1. TypeStartup' /\ TypeClock' /\ TypeLoaded' /\ TypeInput'
  BY TypeParts, TypeStartupNext, ClockNext, TypeLoadedNext, TypeInputNext
<1>2. TypeProcess'
  <2>1. TypeProcess
    BY TypeParts
  <2>2. phase' \in {"off", "closed", "gone", "refused"} \cup RootWindow \cup Faults
    BY <2>1, PhaseNext
  <2>3. registry' \in [mapping : {"SYS", "USR"}, shell : {"explorer", "evil"}, desktop : 0..1]
    BY <2>1, RegistryNext
  <2> QED BY <2>1, <2>2, <2>3, FlagsNext, LivesNext DEF TypeProcess
<1> QED BY <1>1, <1>2 DEF TypeOK, TypeStartup, TypeClock, TypeLoaded, TypeInput, TypeProcess

-----------------------------------------------------------------------------
(* The queue of start-up items.                                            *)
LEMMA QueueNext ==
    ASSUME TypeOK, Queue, Logons, [Next]_vars
    PROVE  Queue'
<1>1. /\ items \in Seq(Range(Offered)) /\ accepted \in Seq(Range(Offered))
      /\ handled \in Seq([item : Range(Offered), how : {"user", "safer", "not"}])
      /\ Len(items) \in Nat /\ Len(accepted) \in Nat /\ Len(handled) \in Nat
  BY TypeParts, SeqRange DEF TypeStartup
<1>2. CASE UNCHANGED startup
  BY <1>2 DEF startup, Queue
<1>3. CASE EnterPump /\ ~UNCHANGED startup
  <2>1. accepted' = items' /\ handled' = handled /\ phase = "config" /\ run_startup
        /\ \E kept \in Ascending({n \in 1..Len(Offered) : ~Vetoed(Offered[n])}) :
                items' = [k \in DOMAIN kept |-> Offered[kept[k]]]
    BY <1>3 DEF EnterPump, StartupWanted
  <2>2. handled = <<>> /\ Len(handled) = 0
    BY <2>1, EmptySeq DEF Logons
  <2>3. items' \in Seq(Range(Offered))
    BY <2>1, KeptItems
  <2>4. Len(items') \in Nat
    BY <2>3, SeqRange
  <2>5. \A k \in 1..Len(items') : 0 + k = k
    BY <2>4
  <2> QED BY <2>1, <2>2, <2>4, <2>5 DEF Queue
<1>4. CASE StartupItem
  <2> DEFINE H == [item : Range(Offered), how : {"user", "safer", "not"}]
  <2>1. items # <<>> /\ items' = Tail(items) /\ accepted' = accepted
    BY <1>4, TypeParts, HandledNext
  <2>2. PICK h \in H : h.item = Head(items) /\ handled' = Append(handled, h)
    BY <1>4, TypeParts, HandledNext
  <2>3. /\ Len(items) # 0 /\ Head(items) = items[1] /\ Len(items') = Len(items) - 1
        /\ \A k \in 1..Len(items') : items'[k] = items[k + 1]
    BY <1>1, <2>1, HeadTailProperties, EmptySeq
  <2> HIDE DEF H
  <2>4. handled \in Seq(H)
    BY <1>1 DEF H
  <2>5. /\ Len(handled') = Len(handled) + 1
        /\ \A k \in 1..Len(handled) : handled'[k] = handled[k]
        /\ handled'[Len(handled) + 1].item = items[1]
    BY <2>2, <2>3, <2>4, AppendProperties
  <2>6. Len(handled') + Len(items') <= Len(accepted')
    BY <1>1, <2>1, <2>3, <2>5 DEF Queue
  <2>7. ASSUME NEW k \in 1..Len(handled')
        PROVE  handled'[k].item = accepted'[k]
    <3>1. CASE k \in 1..Len(handled)
      BY <2>1, <2>5, <3>1 DEF Queue
    <3>2. CASE k = Len(handled) + 1
      <4>1. 1 \in 1..Len(items)
        BY <1>1, <2>3
      <4> QED BY <2>1, <2>5, <3>2, <4>1 DEF Queue
    <3> QED BY <1>1, <2>5, <3>1, <3>2
  <2>8. ASSUME NEW k \in 1..Len(items')
        PROVE  items'[k] = accepted'[Len(handled') + k]
    <3>1. k + 1 \in 1..Len(items) /\ Len(handled) + (k + 1) = Len(handled') + k
      BY <1>1, <2>3, <2>5
    <3>2. items[k + 1] = accepted[Len(handled) + (k + 1)]
      BY <3>1 DEF Queue
    <3> QED BY <2>1, <2>3, <3>1, <3>2
  <2> QED BY <2>6, <2>7, <2>8 DEF Queue
<1>5. CASE CloseMutex
  <2>1. items' = <<>> /\ accepted' = accepted /\ handled' = handled
    BY <1>5 DEF CloseMutex
  <2>2. Len(items') = 0
    BY <2>1, EmptySeq
  <2> QED BY <1>1, <2>1, <2>2 DEF Queue
<1> QED BY <1>2, <1>3, <1>4, <1>5, StartupSteps

(* The first SaferExec line is looked at for shortcuts too.                *)
LEMMA SafeNext ==
    ASSUME TypeOK, Safe, [Next]_vars
    PROVE  Safe'
<1>1. /\ items \in Seq(Range(Offered))
      /\ handled \in Seq([item : Range(Offered), how : {"user", "safer", "not"}])
      /\ Len(handled) \in Nat /\ Len(SaferExec) \in Nat
  BY TypeParts, SeqRange, ShellAssumption DEF TypeStartup
<1>2. CASE handled' = handled
  BY <1>2 DEF Safe
<1>3. CASE StartupItem
  <2> DEFINE H == [item : Range(Offered), how : {"user", "safer", "not"}]
  <2>1. PICK h \in H : /\ h.item = Head(items) /\ handled' = Append(handled, h)
                       /\ h.how = "user" => ~Restricted(Head(items))
    BY <1>3, TypeParts, HandledNext
  <2> HIDE DEF H
  <2>2. handled \in Seq(H)
    BY <1>1 DEF H
  <2>3. /\ Len(handled') = Len(handled) + 1
        /\ \A k \in 1..Len(handled) : handled'[k] = handled[k]
        /\ handled'[Len(handled) + 1] = h
    BY <2>1, <2>2, AppendProperties
  <2>4. h.how = "user" => Len(SaferExec) = 0 \/ h.item \notin SaferExec[1]
    <3> SUFFICES ASSUME h.how = "user", Len(SaferExec) # 0 PROVE h.item \notin SaferExec[1]
      OBVIOUS
    <3>1. 1 \in 1..Len(SaferExec) /\ Len(SaferExec) > 0
      BY <1>1
    <3> QED BY <2>1, <3>1 DEF Restricted
  <2>5. \A k \in 1..Len(handled') : k \in 1..Len(handled) \/ k = Len(handled) + 1
    BY <1>1, <2>3
  <2> QED BY <2>3, <2>4, <2>5 DEF Safe
<1>4. handled' = handled \/ StartupItem
  BY StartupSteps DEF startup, EnterPump, CloseMutex
<1> QED BY <1>2, <1>3, <1>4

-----------------------------------------------------------------------------
(* Where the process goes.                                                 *)
LEMMA PhaseSteps ==
    ASSUME [Next]_vars
    PROVE  \/ phase' = phase
           \/ Start \/ EnterPump \/ Quit \/ StopServices \/ Unload \/ Unhook \/ Unkey
           \/ CloseMutex \/ Respawn \/ Exit
           \/ PluginTimer /\ phase' \in Faults
           \/ Hotkey /\ phase' \in Faults
<1>1. CASE UNCHANGED vars
  BY <1>1 DEF vars
<1>2. CASE PluginTimer
  BY <1>2 DEF PluginTimer, Crash, Faults
<1>3. CASE Hotkey
  BY <1>3 DEF Hotkey, HotkeyAsks, HotkeyCalls, Crash, Faults
<1>4. CASE ShellMessage
  BY <1>4 DEF ShellMessage, Told
<1>5. CASE Next /\ ~PluginTimer /\ ~Hotkey /\ ~ShellMessage
  BY <1>5 DEF Next, Install, ReadLoad, ReadHotkey, StartupItem,
       Answer, BoxEnds, OtherCopy, Arrive, Tick, Ended, vars
<1> QED BY <1>1, <1>2, <1>3, <1>4, <1>5

LEMMA LogonsNext ==
    ASSUME TypeOK, Logons, [Next]_vars
    PROVE  Logons'
<1>1. CASE EnterPump
  BY <1>1 DEF EnterPump, Logons
<1>2. CASE StartupItem
  <2>1. phase' = phase /\ run_startup' = run_startup /\ items # <<>> /\ phase \in RootWindow
    BY <1>2 DEF StartupItem, process, TimerRuns
  <2>2. phase' \notin {"off", "config", "closed"}
    BY <2>1 DEF Logons, RootWindow, Draining
  <2> QED BY <2>2 DEF Logons
<1>3. CASE CloseMutex
  BY <1>3 DEF CloseMutex, Leave, Logons
<1>4. CASE UNCHANGED startup /\ ~EnterPump /\ ~CloseMutex
  <2>1. CASE phase' = phase
    <3>1. phase = "config" => run_startup' = run_startup
      <4>1. CASE UNCHANGED vars
        BY <4>1 DEF vars, process
      <4>2. CASE Next
        BY <2>1, <4>2 DEF Next, Install, Start, ReadLoad, ReadHotkey, EnterPump, StartupItem, PluginTimer,
           ShellMessage, Hotkey, HotkeyAsks, HotkeyCalls,
           Crash, Answer, BoxEnds, Quit, Leave, StopServices, Unload, Unhook,
           Unkey, CloseMutex, OtherCopy, Respawn, Exit, Arrive, Tick, Ended, vars, process
      <4> QED BY <4>1, <4>2
    <3> QED BY <1>4, <2>1, <3>1 DEF startup, Logons
  <2>2. CASE Start
    BY <1>4, <2>2 DEF Start, InitShell, startup, Logons
  <2>3. CASE Respawn
    BY <1>4, <2>3 DEF Respawn, startup, Logons
  <2>4. CASE phase' # phase /\ ~Start /\ ~Respawn
    <3>1. phase' \notin {"off", "config", "closed"}
      BY <1>4, <2>4, PhaseSteps DEF Faults, Quit, StopServices, Unload, Unhook, Unkey, Leave, Exit
    <3> QED BY <3>1 DEF Logons
  <2> QED BY <2>1, <2>2, <2>3, <2>4
<1> QED BY <1>1, <1>2, <1>3, <1>4, StartupSteps

LEMMA ServicesNext ==
    ASSUME Services, [Next]_vars
    PROVE  Services'
<1>1. CASE UNCHANGED vars
  BY <1>1 DEF vars, system, Services
<1>2. CASE EnterPump
  BY <1>2 DEF EnterPump, load_shell_service_objects, Services
<1>3. CASE StopServices
  BY <1>3 DEF StopServices, Leave, Services
<1>4. CASE Respawn
  BY <1>4 DEF Respawn, Services
<1>5. CASE Next /\ ~EnterPump /\ ~StopServices /\ ~Respawn
  <2>1. services' = services
    BY <1>5 DEF Next, Install, Start, ReadLoad, ReadHotkey, StartupItem, PluginTimer,
       ShellMessage, Hotkey, HotkeyAsks, HotkeyCalls,
       Crash, Answer, BoxEnds, Quit, Leave, Unload, Unhook,
       Unkey, CloseMutex, OtherCopy, Exit, Arrive, Tick, Ended, vars, system
  <2>2. phase' = "pump" => phase = "pump"
    BY <1>5, PhaseSteps DEF Start, InitShell, Quit, Unload, Unhook, Unkey, CloseMutex, Leave, Exit, Faults
  <2>3. phase \in {"pump", "drain"} \cup Faults
           => phase' \in {"pump", "drain"} \cup Faults \/ services # "started"
    BY <1>5, PhaseSteps DEF Start, InitShell, Quit, Unload, Unhook, Unkey, CloseMutex, Leave, Exit, Faults
  <2> QED BY <2>1, <2>2, <2>3 DEF Services
<1> QED BY <1>1, <1>2, <1>3, <1>4, <1>5

LEMMA UnvetoedNext ==
    ASSUME TypeOK, Logons, Unvetoed, [Next]_vars
    PROVE  Unvetoed'
<1> SUFFICES ASSUME phase' = "pump" PROVE \A p \in mapped' : Vetoes[p] \cap Range(items') = {}
  BY DEF Unvetoed
<1>1. items \in Seq(Range(Offered)) /\ mapped \subseteq Range(plugins)
  BY TypeParts DEF TypeStartup, TypeLoaded
<1>2. CASE EnterPump
  <2>1. phase = "config" /\ mapped' = mapped
    BY <1>2 DEF EnterPump, loaded
  <2>2. CASE items' = items
    <3>1. items = <<>> /\ Range(<<>>) = {}
      BY <2>1, EmptySeq DEF Logons, Range
    <3> QED BY <2>2, <3>1
  <2>3. CASE items' # items
    <3>1. \E kept \in Ascending({n \in 1..Len(Offered) : ~Vetoed(Offered[n])}) :
                items' = [k \in DOMAIN kept |-> Offered[kept[k]]]
      BY <1>2, <2>3 DEF EnterPump, startup
    <3>2. items' \in Seq(Range(Offered)) /\ \A k \in 1..Len(items') : ~Vetoed(items'[k])
      BY <3>1, KeptItems
    <3>3. \A i \in Range(items') : ~Vetoed(i)
      BY <3>2, SeqRange
    <3> QED BY <1>1, <2>1, <3>3 DEF Vetoed
  <2> QED BY <2>2, <2>3
<1>3. CASE ~EnterPump
  <2>1. phase = "pump" /\ ~CloseMutex
    BY <1>3, PhaseSteps DEF Start, InitShell, Quit, StopServices, Unload, Unhook, Unkey, CloseMutex,
         Respawn, Leave, Exit, Faults
  <2>2. mapped' = mapped
    BY <2>1, LoadedSteps DEF loaded, ReadLoad, ReadHotkey, Unload, Unkey, Leave, Respawn
  <2>3. Range(items') \subseteq Range(items)
    <3>1. CASE items' = items
      BY <3>1
    <3>2. CASE StartupItem
      <4>1. items # <<>> /\ items' = Tail(items)
        BY <3>2 DEF StartupItem, TimerRuns
      <4>2. /\ items' \in Seq(Range(Offered)) /\ Len(items') = Len(items) - 1
            /\ \A k \in 1..Len(items') : items'[k] = items[k + 1]
        BY <1>1, <4>1, HeadTailProperties
      <4>3. Len(items) \in Nat /\ \A k \in 1..Len(items) : items[k] \in Range(items)
        BY <1>1, SeqRange
      <4>4. \A k \in 1..Len(items') : k + 1 \in 1..Len(items)
        BY <4>2, <4>3
      <4>5. \A e \in Range(items') : \E k \in 1..Len(items') : items'[k] = e
        BY <4>2, SeqRange
      <4> QED BY <4>2, <4>3, <4>4, <4>5
    <3> QED BY <1>3, <2>1, <3>1, <3>2, StartupSteps DEF startup
  <2> QED BY <2>1, <2>2, <2>3 DEF Unvetoed
<1> QED BY <1>2, <1>3

LEMMA LibrariesNext ==
    ASSUME TypeOK, Libraries, [Next]_vars
    PROVE  Libraries'
<1> DEFINE Before == {"off", "config", "pump", "drain", "stopped"}
           After == {"unloaded", "unhooked", "keyless", "closed"}
<1>1. TypeLoaded /\ Called \subseteq Range(plugins)
  BY TypeParts DEF Called
<1>2. CASE ReadLoad
  <2>1. phase = "config" /\ phase' = "config" /\ mapped = Range(plugins)
    BY <1>2 DEF ReadLoad, Libraries
  <2>2. mapped' = Range(plugins')
    <3> DEFINE p == Config[line + 1].arg
    <3>1. line + 1 \in 1..Len(Config) /\ Config[line + 1].op = "LOAD"
      <4>1. Len(Config) \in Nat /\ line \in 0..Len(Config) /\ line < Len(Config)
            /\ Config[line + 1].op = "LOAD"
        BY <1>1, <1>2, ShellAssumption, SeqRange DEF ReadLoad, TypeLoaded
      <4> QED BY <4>1
    <3>2. p \in Plugins
      BY <3>1, ShellAssumption
    <3>3. \/ UNCHANGED <<plugins, mapped>>
          \/ plugins' = Append(plugins, p) /\ mapped' = mapped \cup {p}
      BY <1>2 DEF ReadLoad
    <3> HIDE DEF p
    <3>4. Range(Append(plugins, p)) = Range(plugins) \cup {p}
      BY <1>1, <3>2, AppendRange DEF TypeLoaded
    <3> QED BY <2>1, <3>3, <3>4
  <2> QED BY <2>1, <2>2 DEF Libraries, Faults
<1>3. CASE Respawn
  <2>1. plugins' = <<>> /\ mapped' = {} /\ phase' \in {"config", "refused"}
    BY <1>3 DEF Respawn
  <2>2. Range(<<>>) = {}
    BY EmptySeq DEF Range
  <2> QED BY <2>1, <2>2 DEF Libraries, Faults
<1>4. CASE Unload
  BY <1>4 DEF Unload, Leave, Libraries, Faults
<1>5. CASE PluginTimer /\ phase' \in Faults
  <2>1. phase \in RootWindow
    BY <1>5 DEF PluginTimer
  <2>2. Called \ mapped # {} /\ Crash("called freed code")
    BY <1>5, <2>1 DEF PluginTimer, RootWindow, Draining, Faults
  <2>3. mapped # Range(plugins) /\ Called # {}
    BY <1>1, <2>2
  <2>4. mapped = {}
    BY <2>1, <2>3 DEF Libraries, RootWindow, Draining
  <2>5. mapped' = mapped /\ plugins' = plugins /\ calls' = calls /\ now' = now
        /\ phase' = "called freed code"
    BY <2>2 DEF Crash, loaded, clock
  <2>6. Called' # {}
    BY <2>3, <2>5 DEF Called, Ready
  <2> QED BY <2>4, <2>5, <2>6 DEF Libraries
<1>6. CASE Hotkey /\ phase' \in Faults
  <2>1. phase \in RootWindow
    BY <1>6 DEF Hotkey
  <2>2. PICK k \in posted \ {"shell"} : HotkeyAsks(k) \/ HotkeyCalls(k)
    BY <1>6 DEF Hotkey
  <2>3. k \in {"switch", "func"} /\ ~(Range(plugins) \subseteq mapped)
        /\ Crash(IF k = "switch" THEN "called through NULL" ELSE "called freed code")
    BY <1>6, <2>1, <2>2 DEF HotkeyAsks, HotkeyCalls, RootWindow, Draining, Faults
  <2>4. mapped = {}
    BY <2>1, <2>3 DEF Libraries, RootWindow, Draining
  <2>5. mapped' = mapped /\ posted' = posted
    BY <2>3 DEF Crash, loaded
  <2>6. k \in {"switch", "func"} \cap posted'
    BY <2>2, <2>3, <2>5
  <2>7. phase' \notin Before \cup After
    BY <1>6 DEF Faults
  <2> QED BY <2>4, <2>5, <2>6, <2>7 DEF Libraries
<1>7. CASE ~ReadLoad /\ ~Respawn /\ ~Unload /\ ~(phase' \in Faults /\ (PluginTimer \/ Hotkey))
  <2>1. mapped' = mapped /\ plugins' = plugins
    BY <1>7, LoadedSteps DEF loaded, ReadHotkey, Unkey
  <2>2. /\ phase' \in Before => phase \in Before
        /\ phase' \in After => phase \in After
        /\ phase' \in Faults => phase' = phase
    BY <1>7, PhaseSteps DEF Start, InitShell, EnterPump, Quit, StopServices, Unhook, Unkey, CloseMutex,
         Leave, Exit, Faults
  <2>3. phase' \in Faults => posted' = posted /\ calls' = calls /\ now' = now
    <3> SUFFICES ASSUME phase \in Faults, phase' = phase
                 PROVE  posted' = posted /\ calls' = calls /\ now' = now
      BY <2>2
    <3>1. CASE UNCHANGED vars
      BY <3>1 DEF vars, input, clock
    <3>2. CASE Next
      <4>1. Answer \/ Ended
        BY <3>2 DEF Faults, Next, Install, Start, ReadLoad, ReadHotkey, EnterPump, StartupItem, PluginTimer,
           ShellMessage, Hotkey, Quit, Leave, StopServices, Unload, Unhook,
           Unkey, CloseMutex, OtherCopy, Respawn, Exit, Arrive, Tick, RootWindow, Draining
      <4> QED BY <4>1 DEF Answer, BoxEnds, Ended, vars, input, clock
    <3> QED BY <3>1, <3>2
  <2>4. phase' \in Faults => ({"switch", "func"} \cap posted' # {} \/ Called' # {})
    BY <2>1, <2>2, <2>3 DEF Libraries, Called, Ready
  <2>5. phase' \in Before => mapped' = Range(plugins')
    BY <2>1, <2>2 DEF Libraries
  <2>6. phase' \in After \cup Faults => mapped' = {}
    BY <2>1, <2>2 DEF Libraries
  <2> QED BY <2>4, <2>5, <2>6 DEF Libraries
<1> QED BY <1>2, <1>3, <1>4, <1>5, <1>6, <1>7

-----------------------------------------------------------------------------
LEMMA InitIInv == Init => IInv
<1> SUFFICES ASSUME Init PROVE IInv
  OBVIOUS
<1>1. /\ Len(Config) \in Nat /\ MaxBoxes \in Nat /\ MaxCalls \in Nat /\ MaxLate \in Nat
      /\ MaxLives \in Nat \ {0}
  BY ShellAssumption, SeqRange
<1>2. Len(<<>>) = 0 /\ Range(<<>>) = {} /\ \A S : <<>> \in Seq(S)
  BY EmptySeq DEF Range
<1>3. TypeStartup
  BY <1>2 DEF Init, TypeStartup
<1>4. \A p \in Plugins : calls[p] = <<>>
  BY DEF Init
<1>5. TypeClock
  <2>1. calls \in [Plugins -> Seq(CALL)]
    BY <1>2 DEF Init
  <2>2. \A p \in Plugins : Len(calls[p]) <= MaxCalls
    BY <1>1, <1>2, <1>4
  <2> QED BY <2>1, <2>2 DEF Init, TypeClock
<1>6. TypeLoaded
  <2>1. line = 0 /\ plugins = <<>> /\ mapped = {} /\ hotkeys = {}
    BY DEF Init
  <2>2. line \in 0..Len(Config) /\ plugins \in Seq(Plugins)
    BY <1>1, <2>1, EmptySeq
  <2> QED BY <2>1, <2>2 DEF TypeLoaded
<1>7. TypeInput
  <2>1. posted = {} /\ late = 0 /\ boxes = <<>>
    BY DEF Init
  <2>2. late \in 0..MaxLate /\ Len(boxes) <= MaxBoxes
    BY <1>1, <2>1, EmptySeq
  <2>3. boxes \in Seq({"version", "token", "execute", "quit", "restart"})
    BY <2>1, EmptySeq
  <2> QED BY <2>1, <2>2, <2>3 DEF TypeInput
<1>8. TypeProcess
  <2>1. lives \in 0..MaxLives
    <3>1. lives = 0
      BY DEF Init
    <3> QED BY <1>1, <3>1
  <2>2. registry \in [mapping : {"SYS", "USR"}, shell : {"explorer", "evil"}, desktop : 0..1]
    <3>1. registry = Fresh
      BY DEF Init
    <3> QED BY <3>1 DEF Fresh
  <2>3. run_startup \in BOOLEAN /\ quit \in BOOLEAN /\ need_to_respawn_shell \in BOOLEAN
    BY Zenon DEF Init
  <2>4. phase = "off" /\ services = "unloaded" /\ mutex = ""
    BY DEF Init
  <2> QED BY <2>1, <2>2, <2>3, <2>4 DEF TypeProcess
<1>9. TypeOK
  BY <1>3, <1>5, <1>6, <1>7, <1>8, TypeParts
<1>10. Queue /\ Logons /\ Services /\ Unvetoed /\ Safe
  <2>1. /\ phase = "off" /\ services = "unloaded"
        /\ items = <<>> /\ handled = <<>> /\ accepted = <<>>
    BY DEF Init
  <2>2. Len(items) = 0 /\ Len(handled) = 0 /\ Len(accepted) = 0
    BY <1>2, <2>1
  <2>3. Queue
    BY <2>2 DEF Queue
  <2>4. Logons /\ Services /\ Unvetoed
    BY <2>1 DEF Logons, Services, Unvetoed
  <2>5. Safe
    BY <2>2 DEF Safe
  <2> QED BY <2>3, <2>4, <2>5
<1>11. OnTime
  <2>1. ~early
    BY DEF Init
  <2>2. AllOnTime(<<>>, now)
    BY <1>2 DEF AllOnTime
  <2> QED BY <1>4, <2>1, <2>2 DEF OnTime
<1>12. Libraries
  BY <1>2 DEF Init, Libraries, Faults
<1>13. Lives
  <2>1. posted = {} /\ boxes = <<>> /\ ~need_to_respawn_shell
    BY DEF Init
  <2>2. Len(boxes) = 0
    BY <1>2, <2>1
  <2> QED BY <2>1, <2>2 DEF Lives, RestartAsked
<1> QED BY <1>9, <1>10, <1>11, <1>12, <1>13 DEF IInv

LEMMA NextIInv == IInv /\ [Next]_vars => IInv'
<1> SUFFICES ASSUME IInv, [Next]_vars PROVE IInv'
  OBVIOUS
<1>1. /\ TypeOK /\ Queue /\ Logons /\ Services /\ Unvetoed /\ Safe
      /\ OnTime /\ Libraries /\ Lives
  BY DEF IInv
<1>2. TypeOK'
  BY <1>1, TypeNext
<1>3. Queue'
  BY <1>1, QueueNext
<1>4. Logons'
  BY <1>1, LogonsNext
<1>5. Services'
  BY <1>1, ServicesNext
<1>6. Unvetoed'
  BY <1>1, UnvetoedNext
<1>7. Safe'
  BY <1>1, SafeNext
<1>8. OnTime'
  BY <1>1, ClockNext
<1>9. Libraries'
  BY <1>1, LibrariesNext
<1>10. Lives'
  BY <1>1, LivesNext
<1> QED BY <1>2, <1>3, <1>4, <1>5, <1>6, <1>7, <1>8, <1>9, <1>10 DEF IInv

(* The handled items and then the queue are the beginning of what was      *)
(* accepted.                                                               *)
LEMMA QueueIsPrefix ==
    ASSUME TypeOK, Queue
    PROVE  IsPrefix(HandledItems \o items, accepted)
<1> DEFINE S == Range(Offered)
           q == HandledItems \o items
<1>1. /\ items \in Seq(S) /\ accepted \in Seq(S)
      /\ handled \in Seq([item : S, how : {"user", "safer", "not"}])
  BY TypeParts DEF TypeStartup
<1>2. /\ Len(items) \in Nat /\ Len(accepted) \in Nat /\ Len(handled) \in Nat
      /\ \A n \in 1..Len(accepted) : accepted[n] \in S
  BY <1>1, SeqRange
<1>3. \A n \in 1..Len(handled) : handled[n].item \in S
  <2> HIDE DEF S
  <2> DEFINE H == [item : S, how : {"user", "safer", "not"}]
  <2>1. \A h \in H : h.item \in S
    OBVIOUS
  <2> HIDE DEF H
  <2>2. \A n \in 1..Len(handled) : handled[n] \in H
    BY <1>1, SeqRange DEF H
  <2> QED BY <2>1, <2>2
<1> HIDE DEF S
<1>4. /\ HandledItems \in Seq(S) /\ Len(HandledItems) = Len(handled)
      /\ \A n \in 1..Len(handled) : HandledItems[n] = accepted[n]
  BY <1>2, <1>3 DEF HandledItems, Queue
<1>5. /\ q \in Seq(S) /\ Len(q) = Len(handled) + Len(items)
      /\ \A n \in 1..(Len(handled) + Len(items)) :
            q[n] = IF n <= Len(handled) THEN HandledItems[n] ELSE items[n - Len(handled)]
  <2> DEFINE h == HandledItems
  <2>1. h \in Seq(S) /\ Len(h) = Len(handled)
    BY <1>4
  <2> HIDE DEF h
  <2>2. /\ h \o items \in Seq(S) /\ Len(h \o items) = Len(h) + Len(items)
        /\ \A n \in 1..(Len(h) + Len(items)) :
              (h \o items)[n] = IF n <= Len(h) THEN h[n] ELSE items[n - Len(h)]
    BY <1>1, <2>1, ConcatProperties
  <2> QED BY <2>1, <2>2 DEF h
<1> HIDE DEF q
<1> DEFINE l == Len(handled) + Len(items)
<1>6. l \in Nat /\ l <= Len(accepted) /\ Len(q) = l
  BY <1>2, <1>5 DEF Queue
<1>7. ASSUME NEW n \in 1..l
      PROVE  q[n] = accepted[n] /\ q[n] \in S
  <2>1. n \in 1..Len(accepted)
    BY <1>2, <1>6
  <2>2. CASE n <= Len(handled)
    BY <1>2, <1>4, <1>5, <2>1, <2>2
  <2>3. CASE ~(n <= Len(handled))
    <3>1. n - Len(handled) \in 1..Len(items) /\ Len(handled) + (n - Len(handled)) = n
      BY <1>2, <2>3
    <3>2. items[n - Len(handled)] = accepted[n]
      BY <3>1 DEF Queue
    <3> QED BY <1>2, <1>5, <2>1, <2>3, <3>2
  <2> QED BY <2>2, <2>3
<1> HIDE DEF l
<1>8. SubSeq(q, 1, l) = SubSeq(accepted, 1, l)
  <2> DEFINE a == SubSeq(q, 1, l)
             b == SubSeq(accepted, 1, l)
  <2>1. (IF 1 <= l THEN l - 1 + 1 ELSE 0) = l /\ l - 1 + 1 = l
    BY <1>6
  <2>2. a \in Seq(S) /\ Len(a) = l /\ \A n \in 1..l : a[n] = q[1 + n - 1]
    BY <1>6, <1>7, <2>1, SubSeqProperties
  <2>3. b \in Seq(S) /\ Len(b) = l /\ \A n \in 1..l : b[n] = accepted[1 + n - 1]
    <3>1. \A n \in 1..l : accepted[n] \in S
      BY <1>7
    <3> QED BY <1>6, <2>1, <3>1, SubSeqProperties
  <2> HIDE DEF a, b
  <2>4. \A n \in 1..l : a[n] = b[n]
    BY <1>6, <1>7, <2>2, <2>3
  <2>5. a = b
    BY <2>2, <2>3, <2>4, SeqEqual
  <2> QED BY <2>5 DEF a, b
<1> QED BY <1>6, <1>8 DEF IsPrefix, q

LEMMA StartsFollow ==
    ASSUME IInv
    PROVE  StartsInOrder
<1>1. TypeOK /\ Queue /\ Services /\ Unvetoed /\ Safe
  BY DEF IInv
<1>2. IsPrefix(HandledItems \o items, accepted)
  BY <1>1, QueueIsPrefix
<1>3. \A h \in Range(handled) :
          h.how = "user" => Len(SaferExec) = 0 \/ h.item \notin SaferExec[1]
  <2>1. \A h \in Range(handled) : \E k \in 1..Len(handled) : handled[k] = h
    BY <1>1, TypeParts, SeqRange DEF TypeStartup
  <2> QED BY <1>1, <2>1 DEF Safe
<1> QED BY <1>1, <1>2, <1>3 DEF StartsInOrder, Services, Unvetoed

LEMMA CallsFollow ==
    ASSUME IInv
    PROVE  CallsInTime
BY DEF IInv, OnTime, Libraries, CallsInTime

(* The inductive invariant holds in every state of the shell's life.       *)
THEOREM Invariance == Spec => []IInv
<1>1. Init => IInv
  BY InitIInv
<1>2. IInv /\ [Next]_vars => IInv'
  BY NextIInv
<1> QED BY <1>1, <1>2, PTL DEF Spec

(* The items of a logon are started once each and in the order of the      *)
(* queue, none that a plugin vetoed is queued, and none that the first     *)
(* SaferExec line matches gets the user's own token (queue_run, run,       *)
(* WM_TIMER 1); the service objects run just as long as the pump and the   *)
(* first drain.                                                            *)
THEOREM StartsAlwaysInOrder == Spec => []StartsInOrder
<1>1. IInv => StartsInOrder
  BY StartsFollow
<1> QED BY <1>1, Invariance, PTL

(* No call-back is called before its time unless that wrapped, and a       *)
(* plugin is only called after its unload for a call-back left in the list *)
(* or a hot key pressed in the drains, never for a shell message.          *)
THEOREM CallsAlwaysInTime == Spec => []CallsInTime
<1>1. IInv => CallsInTime
  BY CallsFollow
<1> QED BY <1>1, Invariance, PTL
=============================================================================
