------------------------- MODULE IncidentClipProofs -------------------------
(***************************************************************************)
(* Theorems about the trigger engine and the clips of its events, for any  *)
(* thresholds, any frames and any recorder: all of it is well typed, the   *)
(* pauses between the events are kept, a poster makes no alarm, a contact  *)
(* is marked when its event was sent, and a clip shows its window and the  *)
(* beginning of its contact, if its ring was recorded for long enough.     *)
(***************************************************************************)
EXTENDS IncidentClip, SequenceTheorems, TLAPS

LEMMA ThresholdTypes ==
  /\ Cooldown \in Nat /\ ClipPre \in Nat /\ ClipPost \in Nat
  /\ Lead \in Nat /\ MaxPre \in Nat /\ MaxTime \in Nat /\ Factor \in Nat
  /\ StaticAge \in Nat /\ MaxEvents \in Nat /\ Never \notin Int
BY TriggerAssumption

USE ThresholdTypes

-----------------------------------------------------------------------------
(* The helpers return what their callers store.                            *)
LEMMA VideoSecondsType == ASSUME NEW d \in Nat PROVE VideoSeconds(d) \in Nat
<1>1. d * Factor \in Nat /\ (d * Factor) * Factor \in Nat
  <2>1. ASSUME NEW a \in Nat, NEW b \in Nat PROVE a * b \in Nat
    OBVIOUS
  <2> QED
    BY <2>1
<1> QED
  BY <1>1 DEF VideoSeconds

LEMMA NextRunType ==
  ASSUME now \in Time, NEW r \in Runs, NEW hit \in BOOLEAN
  PROVE  NextRun(r, hit) \in Runs
BY DEF NextRun, Runs, Moment

LEMMA FilteredType ==
  ASSUME now \in Time, sticky \in [Boxes -> Stick],
         NEW seen, NEW moved, NEW force \in BOOLEAN
  PROVE  Filtered(seen, moved, force) \in [Boxes -> Stick]
<1>1. ASSUME NEW b \in Boxes
      PROVE  FirstTs(b, force, b \in moved) \in Int
  <2> DEFINE m == b \in moved
  <2>1. Seeded(force) \in Int
    BY DEF Seeded, Time
  <2>2. CASE sticky[b] = NoBox \/ m
    BY <2>1, <2>2 DEF FirstTs
  <2>3. CASE ~(sticky[b] = NoBox \/ m)
    <3>1. sticky[b].first \in Int
      BY <2>3 DEF Stick
    <3>2. Smaller(sticky[b].first, Seeded(force)) \in Int
      BY <2>1, <3>1 DEF Smaller
    <3> QED
      BY <2>3, <3>1, <3>2 DEF FirstTs
  <2> QED
    BY <2>2, <2>3
<1>2. ASSUME NEW b \in Boxes
      PROVE  Filtered(seen, moved, force)[b] \in Stick
  <2>1. [first |-> FirstTs(b, force, b \in moved), last |-> now] \in Stick
    BY <1>1 DEF Stick
  <2> QED
    BY <2>1 DEF Filtered, Stick
<1> QED
  BY <1>2 DEF Filtered

LEMMA ContactTypes ==
  ASSUME lastT \in Nat \cup {Never}, pair \in Pairs, NEW t \in Nat,
         NEW touch \in BOOLEAN, NEW angles, NEW fires \in BOOLEAN, NEW sent \in BOOLEAN
  PROVE  /\ ContactEvent(t, touch, angles) \in Pairs
         /\ AfterFrame(t, touch, fires, sent) \in Pairs
<1>1. Before(t) \in Pairs
  BY DEF Before, Pairs
<1>2. Touched(t, touch) \in Pairs
  <2>1. [start |-> t, last |-> t, fired |-> FALSE] \in Pairs
    BY DEF Pairs
  <2>2. Before(t) # NoContact => [Before(t) EXCEPT !.last = t] \in Pairs
    BY <1>1 DEF Pairs
  <2> QED
    BY <1>1, <2>1, <2>2 DEF Touched
<1>3. ContactEvent(t, touch, angles) \in Pairs
  BY <1>1, <1>2 DEF ContactEvent, Pairs
<1>4. Touched(t, touch) # NoContact => AfterEvent(Touched(t, touch), sent) \in Pairs
  BY <1>2 DEF AfterEvent, Pairs
<1>5. AfterFrame(t, touch, fires, sent) \in Pairs
  <2>1. NoContact \in Pairs
    BY DEF Pairs
  <2> QED
    BY <1>2, <1>4, <2>1 DEF AfterFrame
<1> QED
  BY <1>3, <1>5

LEMMA PreOfNat ==
  ASSUME NEW t \in Nat, NEW contact \in Pairs, contact # NoContact
  PROVE  PreOf(t, contact) \in Nat
<1>1. contact.start \in Nat
  BY DEF Pairs
<1>2. t - contact.start + Lead \in Int
  BY <1>1
<1> QED
  BY <1>2 DEF PreOf, Larger, Smaller

-----------------------------------------------------------------------------
LEMMA TriggerInitTypes == TriggerInit => TriggerTypeOK
<1> SUFFICES ASSUME TriggerInit PROVE TriggerTypeOK
  OBVIOUS
<1>1. 0 \in Time /\ Never \in Moment
  BY DEF Time, Moment
<1>2. events \in Seq(EventOf)
  BY DEF TriggerInit
<1>3. [b \in Boxes |-> NoBox] \in [Boxes -> Stick]
  BY DEF Stick
<1>4. \A b \in Boxes : sticky[b] = NoBox /\ NoBox.last = Never
  BY DEF TriggerInit, Fresh, NoBox
<1>5. NoFires \in [TriggerKinds -> Moment] /\ NoRun \in Runs /\ NoFrame \in [last : Moment, warm : Moment]
  BY <1>1 DEF NoFires, NoRun, NoFrame, Runs
<1>6. NoContact \in Pairs /\ NoContact.fired \in BOOLEAN
  BY DEF NoContact, Pairs
<1>7. /\ now = 0 /\ halted = FALSE /\ pts = 0 /\ unseen = FALSE /\ fooled = FALSE
      /\ sticky = [b \in Boxes |-> NoBox] /\ presence = NoRun /\ converge = NoRun
      /\ pair = NoContact /\ lastT = Never /\ frame = NoFrame /\ lastFire = NoFires
  BY DEF TriggerInit, Fresh
<1>8. unseen \in BOOLEAN /\ fooled \in BOOLEAN
  BY <1>7
<1>9. /\ sticky \in [Boxes -> Stick] /\ pair \in Pairs 
      /\ \A b \in Boxes : sticky[b].last \in Moment /\ sticky[b] = NoBox
      /\ presence \in Runs /\ converge \in Runs /\ lastFire \in [TriggerKinds -> Moment]
      /\ frame \in [last : Moment, warm : Moment] /\ lastT = Never /\ halted \in BOOLEAN
  BY <1>1, <1>3, <1>4, <1>5, <1>6, <1>7
<1>10. now \in Time /\ pts \in Time /\ pts <= now
  BY <1>1, <1>7
<1> QED
  BY <1>2, <1>8, <1>9, <1>10 DEF TriggerTypeOK, Runs

-----------------------------------------------------------------------------
(* What a frame sends, and in which engine it does: nothing, in warm-up.   *)
Sends(live, near, vif, t, contact) ==
  /\ contact \in Pairs /\ (vif => contact # NoContact)
  /\ vif => CanFire(Fired(Sent(live, near, FALSE, t, contact)), "vif")
  /\ events' = events \o Sent(live, near, vif, t, contact)
  /\ lastFire' = Fired(Sent(live, near, vif, t, contact))

Quiet == UNCHANGED <<lastFire, events>>

FrameTypes ==
  /\ UNCHANGED <<now, halted, pts>>
  /\ frame' \in [last : Moment, warm : Moment]
  /\ sticky' \in [Boxes -> Stick]
  /\ presence' \in Runs /\ converge' \in Runs
  /\ lastT' \in Nat \cup {Never} /\ pair' \in Pairs
  /\ unseen' \in BOOLEAN /\ fooled' \in BOOLEAN

SomeSends ==
  \/ Quiet
  \/ \E live \in SUBSET Boxes, near \in BOOLEAN, vif \in BOOLEAN, t \in Nat, contact \in Pairs :
       Sends(live, near, vif, t, contact)

LEMMA FrameParts ==
  ASSUME TriggerTypeOK, NEW seen \in SUBSET Boxes, NEW moved, NEW close \in BOOLEAN, NEW touch \in BOOLEAN,
         NEW angles, Frame(seen, moved, close, touch, angles)
  PROVE  FrameTypes /\ SomeSends
<1> DEFINE force   == Warming
           live    == Live(seen, moved, force)
           near    == close /\ live = Boxes
           t       == VideoSeconds(now - pts)
           contact == IF "vif" \in Kinds THEN ContactEvent(t, touch, angles) ELSE NoContact
           others  == Sent(live, near, FALSE, t, contact)
           vif     == contact # NoContact /\ CanFire(Fired(others), "vif")
           fires   == contact # NoContact /\ ~FiresLate(t, touch, angles)
<1>1. now \in Time /\ now - pts \in Nat /\ sticky \in [Boxes -> Stick]
  BY DEF TriggerTypeOK, Time
<1>2. t \in Nat
  BY <1>1, VideoSecondsType
<1>3. force \in BOOLEAN /\ near \in BOOLEAN /\ vif \in BOOLEAN /\ fires \in BOOLEAN
  <2>1. force \in BOOLEAN
    <3>1. CASE frame.warm = Never
      BY <3>1 DEF Warming
    <3>2. CASE frame.warm # Never
      <4>1. Warming = (now - frame.warm < Warmup)
        BY <3>2 DEF Warming
      <4> QED
        BY <4>1
    <3> QED
      BY <3>1, <3>2
  <2>2. near \in BOOLEAN /\ vif \in BOOLEAN /\ fires \in BOOLEAN
    BY Zenon
  <2> QED
    BY <2>1, <2>2
<1>10. live \in SUBSET Boxes
  BY DEF Live
<1>4. contact \in Pairs /\ AfterFrame(t, touch, fires, vif) \in Pairs
  <2>1. lastT \in Nat \cup {Never} /\ pair \in Pairs
    BY DEF TriggerTypeOK
  <2> HIDE DEF t, fires, vif
  <2>2. ContactEvent(t, touch, angles) \in Pairs /\ AfterFrame(t, touch, fires, vif) \in Pairs
    BY <1>2, <1>3, <2>1, ContactTypes
  <2>3. NoContact \in Pairs
    BY DEF Pairs
  <2> QED
    BY <2>2, <2>3
<1>5. Filtered(seen, moved, force) \in [Boxes -> Stick]
  BY <1>1, <1>3, FilteredType
<1>6. /\ NextRun(presence, live # {}) \in Runs /\ NextRun(converge, near) \in Runs
      /\ presence \in Runs /\ converge \in Runs
  BY <1>1, <1>3, NextRunType DEF TriggerTypeOK
<1>7. /\ frame' = [last |-> now, warm |-> IF frame.warm = Never THEN now ELSE frame.warm]
      /\ sticky' = Filtered(seen, moved, force)
      /\ unseen' \in BOOLEAN
      /\ UNCHANGED <<now, halted, pts>>
  BY DEF Frame
<1>8. CASE force
  <2>1. UNCHANGED <<presence, converge, lastT, pair, lastFire, events, fooled>>
    BY <1>8 DEF Frame
  <2> QED
    BY <1>1, <1>5, <1>6, <1>7, <2>1 DEF Quiet, SomeSends, FrameTypes, TriggerTypeOK, Moment
<1>9. CASE ~force
  <2>1. /\ fooled' \in BOOLEAN
        /\ presence' = NextRun(presence, live # {})
        /\ converge' = NextRun(converge, near)
        /\ lastT' = t
        /\ pair' = AfterFrame(t, touch, fires, vif)
        /\ lastFire' = Fired(Sent(live, near, vif, t, contact))
        /\ events' = events \o Sent(live, near, vif, t, contact)
    BY <1>9 DEF Frame
  <2>2. Sends(live, near, vif, t, contact)
    BY <1>4, <2>1 DEF Sends
  <2> HIDE DEF force, live, near, t, contact, vif, fires
  <2>3. \E l \in SUBSET Boxes, n \in BOOLEAN, v \in BOOLEAN, s \in Nat, c \in Pairs : Sends(l, n, v, s, c)
    BY <1>2, <1>3, <1>4, <1>10, <2>2
  <2> QED
    BY <1>1, <1>2, <1>4, <1>5, <1>6, <1>7, <2>1, <2>3 DEF SomeSends, FrameTypes, TriggerTypeOK, Moment
<1> QED
  BY <1>8, <1>9

LEMMA TriggerNextTypes ==
  ASSUME TriggerTypeOK, [EngineStep \/ Tick]_triggerVars, events' \in Seq(EventOf),
         lastFire' \in [TriggerKinds -> Moment]
  PROVE  TriggerTypeOK'
<1>1. CASE AnyFrame
  <2>1. PICK seen \in SUBSET Boxes : \E moved \in SUBSET (seen \ {"poster"}) :
          \E close, touch \in IF seen = Boxes THEN BOOLEAN ELSE {FALSE} :
            \E angles \in IF touch \/ pair # NoContact THEN Angles ELSE {"low"} :
              Frame(seen, moved, close, touch, angles)
    BY <1>1 DEF AnyFrame
  <2>2. PICK moved \in SUBSET Boxes, close \in BOOLEAN, touch \in BOOLEAN, angles \in Angles :
          Frame(seen, moved, close, touch, angles)
    BY <2>1 DEF Angles
  <2>3. FrameTypes
    BY <2>2, FrameParts
  <2> QED
    BY <2>3 DEF FrameTypes, TriggerTypeOK
<1>2. CASE FrameWhileHalted
  BY <1>2 DEF FrameWhileHalted, TriggerTypeOK, Moment
<1>3. CASE StreamSilent
  BY <1>3 DEF StreamSilent, TriggerTypeOK, Moment
<1>4. CASE Halt
  BY <1>4 DEF Halt, engine, TriggerTypeOK
<1>5. CASE EngineDropped
  <2>1. /\ frame' = NoFrame /\ sticky' = [b \in Boxes |-> NoBox] /\ presence' = NoRun
        /\ converge' = NoRun /\ lastT' = Never /\ pair' = NoContact /\ pts' = 0
        /\ UNCHANGED <<now, halted, events, unseen, fooled>>
    BY <1>5 DEF EngineDropped, Fresh
  <2>2. sticky' \in [Boxes -> Stick] /\ pair' \in Pairs
    BY <2>1 DEF Stick, Pairs
  <2>3. presence' \in Runs /\ converge' \in Runs /\ frame' \in [last : Moment, warm : Moment]
    BY <2>1 DEF NoRun, NoFrame, Runs, Moment
  <2>4. pts' \in Time /\ pts' <= now'
    BY <2>1 DEF TriggerTypeOK, Time
  <2> QED
    BY <2>1, <2>2, <2>3, <2>4 DEF TriggerTypeOK
<1>6. CASE StreamRestarts
  <2>1. pts' \in Time /\ pts' <= now'
    BY <1>6 DEF StreamRestarts, TriggerTypeOK, Time
  <2> QED
    BY <1>6, <2>1 DEF StreamRestarts, engine, TriggerTypeOK
<1>7. CASE Tick
  <2>1. now' \in Time /\ pts <= now'
    <3>1. now \in 0..MaxTime /\ pts \in 0..MaxTime /\ pts <= now
      BY DEF TriggerTypeOK, Time
    <3>2. now < MaxTime /\ now' = now + 1
      BY <1>7 DEF Tick
    <3> QED
      BY <3>1, <3>2 DEF Time
  <2> QED
    BY <1>7, <2>1 DEF Tick, engine, TriggerTypeOK
<1>8. CASE UNCHANGED triggerVars
  BY <1>8 DEF triggerVars, TriggerTypeOK
<1> QED
  BY <1>1, <1>2, <1>3, <1>4, <1>5, <1>6, <1>7, <1>8 DEF EngineStep

-----------------------------------------------------------------------------
(* What last_fire knows of the events that were sent while the engine      *)
(* lives, and the pauses between them.                                     *)
Ordered(evs)  == \A i, j \in 1..Len(evs) : i < j => evs[i].at <= evs[j].at
Paused(evs) ==
  \A i, j \in 1..Len(evs) :
    i < j =>
      /\ evs[i].kind = evs[j].kind => evs[j].at - evs[i].at >= Cooldown
      /\ evs[i].kind # evs[j].kind /\ {evs[i].kind, evs[j].kind} = FightTypes =>
           evs[j].at - evs[i].at >= Larger(Cooldown, ClipPre + ClipPost)
Remembered(evs, fires) ==
  \A i \in 1..Len(evs) : fires[evs[i].kind] \in Time /\ evs[i].at <= fires[evs[i].kind]
Recalled(evs, fires) ==
  \A k \in TriggerKinds :
    fires[k] # Never => \E i \in 1..Len(evs) : evs[i].kind = k /\ evs[i].at = fires[k]
NotAhead(fires, time) == \A k \in TriggerKinds : fires[k] # Never => fires[k] <= time

Kept(evs, fires, time) ==
  /\ Ordered(evs) /\ Paused(evs)
  /\ Remembered(evs, fires) /\ Recalled(evs, fires) /\ NotAhead(fires, time)

(* The guard under which the code sends an event of this kind.             *)
MaySend(fires, kind) ==
  IF kind \in FightTypes THEN CanFire(fires, kind) ELSE Elapsed(fires[kind], Cooldown)

(* An event that keeps its pauses leaves all of this true.                 *)
LEMMA OneMore ==
  ASSUME now \in Time, NEW evs \in Seq(EventOf), NEW fires \in [TriggerKinds -> Moment],
         NEW e \in EventOf, e.at = now, Kept(evs, fires, now), MaySend(fires, e.kind)
  PROVE  /\ Append(evs, e) \in Seq(EventOf)
         /\ [fires EXCEPT ![e.kind] = now] \in [TriggerKinds -> Moment]
         /\ Kept(Append(evs, e), [fires EXCEPT ![e.kind] = now], now)
<1> DEFINE more == Append(evs, e)
           then == [fires EXCEPT ![e.kind] = now]
           n    == Len(evs)
<1>1. /\ more \in Seq(EventOf) /\ Len(more) = n + 1 /\ n \in Nat
      /\ \A i \in 1..n : more[i] = evs[i]
      /\ more[n + 1] = e
  BY AppendProperties
<1>2. e.kind \in TriggerKinds
  BY DEF EventOf
<1>3. /\ then \in [TriggerKinds -> Moment]
      /\ then[e.kind] = now
      /\ \A k \in TriggerKinds : k # e.kind => then[k] = fires[k]
  BY <1>2 DEF Moment
<1>4. \A i \in 1..n : evs[i].kind \in TriggerKinds /\ evs[i].at \in Nat /\ evs[i].at <= now
  <2> SUFFICES ASSUME NEW i \in 1..n
               PROVE  evs[i].kind \in TriggerKinds /\ evs[i].at \in Nat /\ evs[i].at <= now
    OBVIOUS
  <2>1. evs[i] \in EventOf
    OBVIOUS
  <2>2. evs[i].kind \in TriggerKinds /\ evs[i].at \in Nat
    <3>1. evs[i].kind \in TriggerKinds /\ evs[i].at \in Time
      BY <2>1 DEF EventOf
    <3> QED
      BY <3>1 DEF Time
  <2>3. fires[evs[i].kind] \in Time /\ evs[i].at <= fires[evs[i].kind]
    BY DEF Kept, Remembered
  <2>4. fires[evs[i].kind] <= now
    <3>1. fires[evs[i].kind] # Never
      BY <2>3 DEF Time
    <3> QED
      BY <2>2, <3>1 DEF Kept, NotAhead
  <2> QED
    BY <2>2, <2>3, <2>4 DEF Time
<1> HIDE DEF more, then, n
<1>5. Ordered(more)
  <2> SUFFICES ASSUME NEW i \in 1..Len(more), NEW j \in 1..Len(more), i < j
               PROVE  more[i].at <= more[j].at
    BY DEF Ordered
  <2>1. i \in 1..n
    BY <1>1
  <2>2. CASE j = n + 1
    BY <1>1, <1>4, <2>1, <2>2
  <2>3. CASE j \in 1..n
    BY <1>1, <2>1, <2>3 DEF Kept, Ordered, n
  <2> QED
    BY <1>1, <2>2, <2>3
<1>6. Remembered(more, then)
  <2> SUFFICES ASSUME NEW i \in 1..Len(more)
               PROVE  then[more[i].kind] \in Time /\ more[i].at <= then[more[i].kind]
    BY DEF Remembered
  <2>1. CASE i = n + 1
    BY <1>1, <1>3, <2>1 DEF Time
  <2>2. CASE i \in 1..n
    <3>1. more[i] = evs[i] /\ fires[evs[i].kind] \in Time /\ evs[i].at <= fires[evs[i].kind]
      BY <1>1, <2>2 DEF Kept, Remembered, n
    <3> QED
      BY <1>3, <1>4, <2>2, <3>1
  <2> QED
    BY <1>1, <2>1, <2>2
<1>7. Recalled(more, then)
  <2> SUFFICES ASSUME NEW k \in TriggerKinds, then[k] # Never
               PROVE  \E i \in 1..Len(more) : more[i].kind = k /\ more[i].at = then[k]
    BY DEF Recalled
  <2>1. CASE k = e.kind
    BY <1>1, <1>3, <2>1
  <2>2. CASE k # e.kind
    <3>1. PICK i \in 1..n : evs[i].kind = k /\ evs[i].at = fires[k]
      BY <1>3, <2>2 DEF Kept, Recalled, n
    <3> QED
      BY <1>1, <1>3, <2>2, <3>1
  <2> QED
    BY <2>1, <2>2
<1>8. NotAhead(then, now)
  BY <1>3 DEF Kept, NotAhead, Time
<1>9. ASSUME NEW i \in 1..n
      PROVE  /\ evs[i].kind = e.kind => now - evs[i].at >= Cooldown
             /\ evs[i].kind # e.kind /\ {evs[i].kind, e.kind} = FightTypes =>
                  now - evs[i].at >= Larger(Cooldown, ClipPre + ClipPost)
  <2> DEFINE k    == evs[i].kind
             own  == fires[e.kind]
             gap  == Larger(Cooldown, ClipPre + ClipPost)
  <2>1. /\ fires[k] \in Nat /\ evs[i].at <= fires[k] /\ fires[k] # Never /\ now \in Nat
        /\ k \in TriggerKinds /\ evs[i].at \in Nat
    BY <1>4 DEF Kept, Remembered, n, Time
  <2>2. gap \in Nat /\ gap >= Cooldown
    BY DEF Larger
  <2>3. CASE e.kind \notin FightTypes
    <3>1. k = e.kind => now - fires[k] >= Cooldown
      BY <2>1, <2>3 DEF MaySend, Elapsed
    <3>2. {k, e.kind} # FightTypes
      BY <2>3
    <3> QED
      BY <2>1, <3>1, <3>2
  <2>4. CASE e.kind \in FightTypes
    <3> DEFINE sib   == Sibling(e.kind)
               other == fires[sib]
    <3>1. sib \in FightTypes /\ sib # e.kind /\ \A f \in FightTypes : f # e.kind => f = sib
      BY <2>4 DEF Sibling, FightTypes
    <3>2. CanFire(fires, e.kind)
      BY <2>4 DEF MaySend
    <3>3. own \in Moment /\ other \in Moment
      BY <1>2, <3>1 DEF FightTypes, TriggerKinds
    <3>4. CASE other # Never /\ (IF own = Never THEN TRUE ELSE other >= own)
      <4>1. now - other >= gap
        BY <3>2, <3>4 DEF CanFire
      <4>2. other \in Nat
        BY <3>3, <3>4 DEF Moment, Time
      <4>3. k = e.kind => now - fires[k] >= gap
        <5>1. ASSUME k = e.kind PROVE other >= fires[k]
          BY <2>1, <3>4, <5>1
        <5> QED
          BY <2>1, <2>2, <4>1, <4>2, <5>1
      <4>4. k # e.kind /\ {k, e.kind} = FightTypes => k = sib
        BY <3>1
      <4> HIDE DEF k, own, gap, sib, other
      <4>5. k = e.kind => now - evs[i].at >= gap
        <5>1. ASSUME NEW a \in Nat, NEW f \in Nat, NEW g \in Nat, a <= f, now - f >= g
              PROVE  now - a >= g
          BY <2>1, <5>1
        <5> HIDE DEF gap
        <5> QED
          BY <2>1, <2>2, <4>3, <5>1
      <4>6. k # e.kind /\ {k, e.kind} = FightTypes => now - evs[i].at >= gap
        BY <2>1, <2>2, <4>1, <4>2, <4>4 DEF other
      <4> QED
        BY <2>1, <2>2, <4>5, <4>6 DEF k, gap
    <3>5. CASE ~(other # Never /\ (IF own = Never THEN TRUE ELSE other >= own))
      <4>1. own # Never => now - own >= Cooldown
        BY <3>2, <3>5 DEF CanFire
      <4>2. CASE k = e.kind
        BY <2>1, <4>1, <4>2
      <4>3. CASE k # e.kind /\ {k, e.kind} = FightTypes
        <5>1. k = sib
          BY <3>1, <4>3
        <5>2. own \in Nat /\ other \in Nat /\ other < own /\ own <= now
          BY <1>2, <2>1, <3>3, <3>5, <5>1 DEF Moment, Time, Kept, NotAhead
        <5>3. PICK j \in 1..n : evs[j].kind = e.kind /\ evs[j].at = own
          <6>1. fires[e.kind] # Never
            BY <5>2
          <6> QED
            BY <1>2, <6>1 DEF Kept, Recalled, n
        <5>4. i < j
          <6>1. ~(j < i)
            BY <2>1, <5>1, <5>2, <5>3 DEF Kept, Ordered, n
          <6>2. i # j
            BY <4>3, <5>3
          <6> QED
            BY <6>1, <6>2, <1>1
        <5>5. evs[j].at - evs[i].at >= gap
          BY <4>3, <5>3, <5>4 DEF Kept, Paused, n
        <5> QED
          BY <2>1, <2>2, <4>3, <5>2, <5>3, <5>5
      <4> QED
        BY <4>2, <4>3
    <3> QED
      BY <3>4, <3>5
  <2> QED
    BY <2>3, <2>4
<1>10. Paused(more)
  <2> SUFFICES ASSUME NEW i \in 1..Len(more), NEW j \in 1..Len(more), i < j
               PROVE  /\ more[i].kind = more[j].kind => more[j].at - more[i].at >= Cooldown
                      /\ more[i].kind # more[j].kind /\ {more[i].kind, more[j].kind} = FightTypes =>
                           more[j].at - more[i].at >= Larger(Cooldown, ClipPre + ClipPost)
    BY DEF Paused
  <2>1. i \in 1..n
    BY <1>1
  <2>2. CASE j = n + 1
    BY <1>1, <1>9, <2>1, <2>2
  <2>3. CASE j \in 1..n
    BY <1>1, <2>1, <2>3 DEF Kept, Paused, n
  <2> QED
    BY <1>1, <2>2, <2>3
<1> QED
  BY <1>1, <1>3, <1>5, <1>6, <1>7, <1>8, <1>10 DEF Kept, more, then

(* The same for an event that a frame may send or not.                     *)
Maybe(cond, e) == IF cond THEN <<e>> ELSE <<>>
HasKind(evs, k) == \E i \in 1..Len(evs) : evs[i].kind = k

Ready(evs, fires, cond, e, next) ==
  /\ now \in Time /\ evs \in Seq(EventOf) /\ fires \in [TriggerKinds -> Moment]
  /\ cond \in BOOLEAN /\ Kept(evs, fires, now)
  /\ cond => e \in EventOf /\ e.at = now /\ MaySend(fires, e.kind)
  /\ next \in [TriggerKinds -> Moment]
  /\ \A k \in TriggerKinds : next[k] = IF cond /\ k = e.kind THEN now ELSE fires[k]

LEMMA MaybeOneMore ==
  ASSUME NEW evs, NEW fires, NEW cond, NEW e, NEW next, Ready(evs, fires, cond, e, next)
  PROVE  /\ Maybe(cond, e) \in Seq(EventOf)
         /\ evs \o Maybe(cond, e) \in Seq(EventOf)
         /\ Kept(evs \o Maybe(cond, e), next, now)
<1> USE DEF Ready
<1>1. CASE cond
  <2>1. Maybe(cond, e) = <<e>> /\ <<e>> \in Seq(EventOf)
    BY <1>1 DEF Maybe
  <2>2. evs \o <<e>> = Append(evs, e)
    BY <1>1, AppendIsConcat
  <2>3. next = [fires EXCEPT ![e.kind] = now]
    BY <1>1
  <2>4. Append(evs, e) \in Seq(EventOf) /\ Kept(Append(evs, e), [fires EXCEPT ![e.kind] = now], now)
    BY <1>1, OneMore
  <2> QED
    BY <2>1, <2>2, <2>3, <2>4
<1>2. CASE ~cond
  <2>1. Maybe(cond, e) = <<>> /\ <<>> \in Seq(EventOf)
    BY <1>2 DEF Maybe
  <2>2. evs \o <<>> = evs
    BY ConcatEmptySeq
  <2>3. next = fires
    BY <1>2
  <2> QED
    BY <2>1, <2>2, <2>3
<1> QED
  BY <1>1, <1>2

LEMMA HasKindOfParts ==
  ASSUME NEW s \in Seq(EventOf), NEW u \in Seq(EventOf), NEW k
  PROVE  HasKind(s \o u, k) <=> HasKind(s, k) \/ HasKind(u, k)
<1> DEFINE m == Len(s)
           n == Len(u)
<1>1. m \in Nat /\ n \in Nat /\ Len(s \o u) = m + n
  BY ConcatProperties
<1>2. \A i \in 1..(m + n) : (s \o u)[i] = IF i <= m THEN s[i] ELSE u[i - m]
  BY ConcatProperties
<1> HIDE DEF m, n
<1>3. ASSUME NEW i \in 1..(m + n), (s \o u)[i].kind = k
      PROVE  (\E j \in 1..m : s[j].kind = k) \/ (\E j \in 1..n : u[j].kind = k)
  <2>1. CASE i <= m
    <3>1. i \in 1..m /\ s[i].kind = k
      BY <1>1, <1>2, <1>3, <2>1
    <3> QED
      BY <3>1
  <2>2. CASE ~(i <= m)
    <3>1. i - m \in 1..n /\ u[i - m].kind = k
      BY <1>1, <1>2, <1>3, <2>2
    <3> QED
      BY <3>1
  <2> QED
    BY <2>1, <2>2
<1>4. ASSUME NEW j \in 1..m, s[j].kind = k
      PROVE  j \in 1..(m + n) /\ (s \o u)[j].kind = k
  BY <1>1, <1>2, <1>4
<1>5. ASSUME NEW j \in 1..n, u[j].kind = k
      PROVE  \E i \in 1..(m + n) : (s \o u)[i].kind = k
  <2>1. j + m \in 1..(m + n) /\ ~(j + m <= m) /\ (j + m) - m = j
    BY <1>1
  <2>2. (s \o u)[j + m].kind = k
    BY <1>2, <1>5, <2>1
  <2> QED
    BY <2>1, <2>2
<1> QED
  BY <1>1, <1>3, <1>4, <1>5 DEF HasKind, m, n

LEMMA KindOfMaybe ==
  ASSUME NEW cond \in BOOLEAN, NEW e, NEW k
  PROVE  HasKind(Maybe(cond, e), k) <=> cond /\ e.kind = k
<1>1. CASE cond
  BY <1>1 DEF HasKind, Maybe
<1>2. CASE ~cond
  BY <1>2 DEF HasKind, Maybe
<1> QED
  BY <1>1, <1>2

(* The events that a frame may send, each of its type.                     *)
LEMMA SentTypes ==
  ASSUME TriggerTypeOK, NEW live, NEW near \in BOOLEAN, NEW vif \in BOOLEAN,
         NEW t \in Nat, NEW contact \in Pairs, vif => contact # NoContact
  PROVE  /\ FiresPresence(live) => Event("presence", ClipPre, presence.since) \in EventOf
         /\ FiresConvergence(near) => Event("convergence", ClipPre, converge.since) \in EventOf
         /\ vif => Event("vif", PreOf(t, contact), contact.start) \in EventOf
<1>1. FiresPresence(live) => presence.since \in Nat
  BY DEF FiresPresence, Ripe, TriggerTypeOK, Runs, Moment, Time
<1>2. FiresConvergence(near) => converge.since \in Nat
  BY DEF FiresConvergence, Ripe, TriggerTypeOK, Runs, Moment, Time
<1>3. vif => PreOf(t, contact) \in Nat /\ contact.start \in Nat
  <2>1. contact # NoContact => contact.start \in Nat
    BY DEF Pairs
  <2> QED
    BY <2>1, PreOfNat
<1>4. ASSUME NEW kind \in TriggerKinds, NEW pre \in Nat, NEW since \in Nat
      PROVE  Event(kind, pre, since) \in EventOf
  BY DEF Event, EventOf, TriggerTypeOK
<1> QED
  BY <1>1, <1>2, <1>3, <1>4 DEF TriggerKinds

(* All a frame sends keeps the pauses: the evaluations come one after the  *)
(* other, and each of them sees what the ones before it have fired.        *)
LEMMA SentKept ==
  ASSUME TriggerTypeOK, Kept(events, lastFire, now),
         NEW live, NEW near \in BOOLEAN, NEW vif \in BOOLEAN, NEW t \in Nat, NEW contact \in Pairs,
         vif => contact # NoContact,
         vif => CanFire(Fired(Sent(live, near, FALSE, t, contact)), "vif")
  PROVE  /\ events \o Sent(live, near, vif, t, contact) \in Seq(EventOf)
         /\ Fired(Sent(live, near, vif, t, contact)) \in [TriggerKinds -> Moment]
         /\ Kept(events \o Sent(live, near, vif, t, contact),
                 Fired(Sent(live, near, vif, t, contact)), now)
<1> DEFINE fp == FiresPresence(live)
           fc == FiresConvergence(near)
           ep == Event("presence", ClipPre, presence.since)
           ec == Event("convergence", ClipPre, converge.since)
           ev == Event("vif", PreOf(t, contact), contact.start)
           p  == Maybe(fp, ep)
           c  == Maybe(fc, ec)
           v  == Maybe(vif, ev)
           f1 == [k \in TriggerKinds |-> IF fp /\ k = "presence" THEN now ELSE lastFire[k]]
           f2 == [k \in TriggerKinds |-> IF fc /\ k = "convergence" THEN now ELSE f1[k]]
           f3 == [k \in TriggerKinds |-> IF vif /\ k = "vif" THEN now ELSE f2[k]]
<1>1. /\ now \in Time /\ now \in Moment /\ events \in Seq(EventOf)
      /\ lastFire \in [TriggerKinds -> Moment]
  BY DEF TriggerTypeOK, Moment
<1>2. fp \in BOOLEAN /\ fc \in BOOLEAN
  BY DEF FiresPresence, FiresConvergence
<1>3. /\ ep.kind = "presence" /\ ec.kind = "convergence" /\ ev.kind = "vif"
      /\ ep.at = now /\ ec.at = now /\ ev.at = now
  BY DEF Event
<1>4. /\ fp => ep \in EventOf
      /\ fc => ec \in EventOf
      /\ vif => ev \in EventOf
  BY SentTypes
<1>5. /\ f1 \in [TriggerKinds -> Moment] /\ f2 \in [TriggerKinds -> Moment]
      /\ f3 \in [TriggerKinds -> Moment]
  BY <1>1
<1>6. /\ Sent(live, near, FALSE, t, contact) = p \o c \o <<>>
      /\ Sent(live, near, vif, t, contact) = p \o c \o v
  BY DEF Sent, Maybe
<1>7. p \in Seq(EventOf) /\ events \o p \in Seq(EventOf) /\ Kept(events \o p, f1, now)
  <2>1. fp => MaySend(lastFire, "presence")
    BY DEF FiresPresence, MaySend, CooledDown, FightTypes
  <2>2. \A k \in TriggerKinds : f1[k] = IF fp /\ k = ep.kind THEN now ELSE lastFire[k]
    BY <1>3
  <2>3. fp => ep \in EventOf /\ ep.at = now /\ MaySend(lastFire, ep.kind)
    BY <1>3, <1>4, <2>1
  <2> HIDE DEF fp, ep, f1
  <2>4. Ready(events, lastFire, fp, ep, f1)
    BY <1>1, <1>2, <1>5, <2>2, <2>3 DEF Ready
  <2> QED
    BY <2>4, MaybeOneMore
<1>8. c \in Seq(EventOf) /\ (events \o p) \o c \in Seq(EventOf) /\ Kept((events \o p) \o c, f2, now)
  <2>1. fc => MaySend(f1, "convergence")
    <3>1. CanFire(lastFire, "convergence") => CanFire(f1, "convergence")
      <4>1. Sibling("convergence") = "vif"
        BY DEF Sibling, FightTypes
      <4>2. f1["vif"] = lastFire["vif"] /\ f1["convergence"] = lastFire["convergence"]
        BY DEF TriggerKinds
      <4> HIDE DEF f1
      <4> QED
        BY <4>1, <4>2 DEF CanFire
    <3> QED
      BY <3>1 DEF FiresConvergence, MaySend, FightTypes
  <2>2. \A k \in TriggerKinds : f2[k] = IF fc /\ k = ec.kind THEN now ELSE f1[k]
    BY <1>3
  <2>3. fc => ec \in EventOf /\ ec.at = now /\ MaySend(f1, ec.kind)
    BY <1>3, <1>4, <2>1
  <2> HIDE DEF fc, ec, f1, f2, p
  <2>4. Ready(events \o p, f1, fc, ec, f2)
    BY <1>1, <1>2, <1>5, <1>7, <2>2, <2>3 DEF Ready
  <2> QED
    BY <2>4, MaybeOneMore
<1>9. Fired(Sent(live, near, FALSE, t, contact)) = f2
  <2>1. p \o c \o <<>> = p \o c
    BY <1>7, <1>8, ConcatProperties, ConcatEmptySeq
  <2>2. ASSUME NEW k \in TriggerKinds
        PROVE  HasKind(p \o c, k) <=> (fp /\ k = "presence") \/ (fc /\ k = "convergence")
    <3>1. HasKind(p \o c, k) <=> HasKind(p, k) \/ HasKind(c, k)
      BY <1>7, <1>8, HasKindOfParts
    <3>2. (HasKind(p, k) <=> fp /\ k = "presence") /\ (HasKind(c, k) <=> fc /\ k = "convergence")
      BY <1>2, <1>3, KindOfMaybe
    <3> QED
      BY <3>1, <3>2
  <2>3. Fired(p \o c) = [k \in TriggerKinds |-> IF HasKind(p \o c, k) THEN now ELSE lastFire[k]]
    BY DEF Fired, HasKind
  <2> HIDE DEF p, c, fp, fc
  <2>4. [k \in TriggerKinds |-> IF HasKind(p \o c, k) THEN now ELSE lastFire[k]] = f2
    BY <2>2
  <2> QED
    BY <1>6, <2>1, <2>3, <2>4
<1>10. /\ v \in Seq(EventOf) /\ ((events \o p) \o c) \o v \in Seq(EventOf)
       /\ Kept(((events \o p) \o c) \o v, f3, now)
  <2>1. vif => MaySend(f2, "vif")
    <3> HIDE DEF f2
    <3> QED
      BY <1>9 DEF MaySend, FightTypes
  <2>2. \A k \in TriggerKinds : f3[k] = IF vif /\ k = ev.kind THEN now ELSE f2[k]
    BY <1>3
  <2>3. vif => ev \in EventOf /\ ev.at = now /\ MaySend(f2, ev.kind)
    BY <1>3, <1>4, <2>1
  <2> HIDE DEF ev, f2, f3, p, c
  <2>4. Ready((events \o p) \o c, f2, vif, ev, f3)
    BY <1>1, <1>5, <1>8, <2>2, <2>3 DEF Ready
  <2> QED
    BY <2>4, MaybeOneMore
<1>11. Fired(Sent(live, near, vif, t, contact)) = f3
  <2>1. ASSUME NEW k \in TriggerKinds
        PROVE  HasKind(p \o c \o v, k)
                 <=> (fp /\ k = "presence") \/ (fc /\ k = "convergence") \/ (vif /\ k = "vif")
    <3>1. p \o c \in Seq(EventOf)
      BY <1>7, <1>8, ConcatProperties
    <3>2. /\ HasKind(p \o c \o v, k) <=> HasKind(p \o c, k) \/ HasKind(v, k)
          /\ HasKind(p \o c, k) <=> HasKind(p, k) \/ HasKind(c, k)
      <4> HIDE DEF p, c, v
      <4> QED
        BY <1>7, <1>8, <1>10, <3>1, HasKindOfParts
    <3>3. /\ HasKind(p, k) <=> fp /\ k = "presence"
          /\ HasKind(c, k) <=> fc /\ k = "convergence"
          /\ HasKind(v, k) <=> vif /\ k = "vif"
      BY <1>2, <1>3, KindOfMaybe
    <3> QED
      BY <3>2, <3>3
  <2>2. Fired(p \o c \o v)
          = [k \in TriggerKinds |-> IF HasKind(p \o c \o v, k) THEN now ELSE lastFire[k]]
    BY DEF Fired, HasKind
  <2> HIDE DEF p, c, v, fp, fc
  <2>3. [k \in TriggerKinds |-> IF HasKind(p \o c \o v, k) THEN now ELSE lastFire[k]] = f3
    BY <2>1
  <2> QED
    BY <1>6, <2>2, <2>3
<1>12. events \o (p \o c \o v) = ((events \o p) \o c) \o v
  <2> HIDE DEF p, c, v
  <2>1. ASSUME NEW a \in Seq(EventOf), NEW b \in Seq(EventOf), NEW d \in Seq(EventOf)
        PROVE  a \o b \in Seq(EventOf) /\ (a \o b) \o d = a \o (b \o d)
    <3>1. a \o b \in Seq(EventOf)
      OBVIOUS
    <3>2. (a \o b) \o d = a \o (b \o d)
      BY ConcatAssociative
    <3> QED
      BY <3>1, <3>2
  <2>2. p \o c \in Seq(EventOf) /\ (events \o p) \o c = events \o (p \o c)
    BY <1>1, <1>7, <1>8, <2>1
  <2>3. (events \o (p \o c)) \o v = events \o ((p \o c) \o v)
    BY <1>1, <1>10, <2>1, <2>2
  <2> QED
    BY <2>2, <2>3
<1> HIDE DEF p, c, v, f3
<1> QED
  BY <1>5, <1>6, <1>10, <1>11, <1>12

-----------------------------------------------------------------------------
(* The inductive invariant.  A dropped engine forgets what it fired, but   *)
(* its halt was set before and it sends nothing more.                      *)
EngineInv ==
  /\ TriggerTypeOK
  /\ Paused(events)
  /\ ~halted => Kept(events, lastFire, now)

LEMMA EngineInvInit == TriggerInit => EngineInv
<1> SUFFICES ASSUME TriggerInit PROVE EngineInv
  OBVIOUS
<1>1. events = <<>> /\ lastFire = NoFires
  BY DEF TriggerInit, Fresh
<1>2. Kept(events, lastFire, now)
  BY <1>1 DEF Kept, Ordered, Paused, Remembered, Recalled, NotAhead, NoFires
<1> QED
  BY <1>2, TriggerInitTypes DEF EngineInv, Kept

LEMMA EngineInvNext == EngineInv /\ [EngineStep \/ Tick]_triggerVars => EngineInv'
<1> SUFFICES ASSUME EngineInv, [EngineStep \/ Tick]_triggerVars PROVE EngineInv'
  OBVIOUS
<1> DEFINE Sound == /\ events' \in Seq(EventOf) /\ lastFire' \in [TriggerKinds -> Moment]
                    /\ Paused(events')
                    /\ ~halted' => Kept(events', lastFire', now')
<1>1. /\ TriggerTypeOK /\ Paused(events) /\ (~halted => Kept(events, lastFire, now))
      /\ events \in Seq(EventOf) /\ lastFire \in [TriggerKinds -> Moment] /\ now \in Time
  BY DEF EngineInv, TriggerTypeOK
<1> SUFFICES Sound
  <2>1. ASSUME Sound PROVE TriggerTypeOK'
    BY <1>1, <2>1, TriggerNextTypes
  <2> QED
    BY <2>1 DEF EngineInv
<1>2. ASSUME UNCHANGED <<events, lastFire, now>>, ~halted' => ~halted
      PROVE  Sound
  BY <1>1, <1>2
<1>3. CASE AnyFrame
  <2>1. PICK seen \in SUBSET Boxes : \E moved \in SUBSET (seen \ {"poster"}) :
          \E close, touch \in IF seen = Boxes THEN BOOLEAN ELSE {FALSE} :
            \E angles \in IF touch \/ pair # NoContact THEN Angles ELSE {"low"} :
              Frame(seen, moved, close, touch, angles)
    BY <1>3 DEF AnyFrame
  <2>2. PICK moved \in SUBSET Boxes, close \in BOOLEAN, touch \in BOOLEAN, angles \in Angles :
          Frame(seen, moved, close, touch, angles)
    BY <2>1 DEF Angles
  <2>3. SomeSends /\ UNCHANGED <<now, halted>>
    BY <1>1, <2>2, FrameParts DEF FrameTypes
  <2>4. CASE Quiet
    BY <1>2, <2>3, <2>4 DEF Quiet
  <2>5. CASE ~Quiet
    <3>1. PICK live \in SUBSET Boxes, near \in BOOLEAN, vif \in BOOLEAN, t \in Nat, contact \in Pairs :
            Sends(live, near, vif, t, contact)
      BY <2>3, <2>5 DEF SomeSends
    <3>2. Kept(events, lastFire, now)
      BY <1>1, <1>3 DEF AnyFrame
    <3>3. /\ events' \in Seq(EventOf) /\ lastFire' \in [TriggerKinds -> Moment]
          /\ Kept(events', lastFire', now)
      BY <1>1, <3>1, <3>2, SentKept DEF Sends
    <3>4. Kept(events', lastFire', now')
      BY <2>3, <3>3
    <3> QED
      BY <3>3, <3>4 DEF Kept
  <2> QED
    BY <2>4, <2>5
<1>4. CASE FrameWhileHalted
  BY <1>2, <1>4 DEF FrameWhileHalted
<1>5. CASE StreamSilent
  <2> DEFINE e == Event("stream_silent", ClipPre, frame.last)
  <2>1. /\ events' = Append(events, e) /\ lastFire' = [lastFire EXCEPT !["stream_silent"] = now]
        /\ UNCHANGED <<now, halted>> /\ Kept(events, lastFire, now)
    BY <1>1, <1>5 DEF StreamSilent
  <2>2. e \in EventOf /\ e.at = now /\ e.kind = "stream_silent"
    <3>1. frame.last \in Time /\ now \in Time /\ pts \in Time
      BY <1>1, <1>5 DEF StreamSilent, TriggerTypeOK, Moment
    <3>2. frame.last \in Nat
      BY <3>1 DEF Time
    <3> QED
      BY <3>1, <3>2 DEF Event, EventOf, TriggerKinds
  <2>3. MaySend(lastFire, e.kind)
    BY <1>5, <2>2 DEF StreamSilent, MaySend, CooledDown, FightTypes
  <2> HIDE DEF e
  <2>4. /\ events' \in Seq(EventOf) /\ lastFire' \in [TriggerKinds -> Moment]
        /\ Kept(events', lastFire', now)
    BY <1>1, <2>1, <2>2, <2>3, OneMore
  <2>5. Kept(events', lastFire', now')
    BY <2>1, <2>4
  <2> QED
    BY <2>4, <2>5 DEF Kept
<1>6. CASE Halt
  BY <1>1, <1>6 DEF Halt, engine
<1>7. CASE EngineDropped
  <2>1. lastFire' = NoFires /\ UNCHANGED events /\ halted' = TRUE
    BY <1>1, <1>7 DEF EngineDropped, Fresh, TriggerTypeOK
  <2>2. NoFires \in [TriggerKinds -> Moment]
    BY DEF NoFires, Moment
  <2> QED
    BY <1>1, <2>1, <2>2
<1>8. CASE StreamRestarts
  BY <1>2, <1>8 DEF StreamRestarts, engine
<1>9. CASE Tick
  <2>1. UNCHANGED <<events, lastFire, halted>> /\ now' = now + 1
    BY <1>9 DEF Tick, engine
  <2>2. NotAhead(lastFire, now) => NotAhead(lastFire', now')
    BY <1>1, <2>1 DEF NotAhead, Moment, Time
  <2> QED
    BY <1>1, <2>1, <2>2 DEF Kept
<1>10. CASE UNCHANGED triggerVars
  BY <1>2, <1>10 DEF triggerVars
<1> QED
  BY <1>3, <1>4, <1>5, <1>6, <1>7, <1>8, <1>9, <1>10 DEF EngineStep

-----------------------------------------------------------------------------
(* The clips of these events.                                              *)
ClipInv == ClipTypeOK /\ EngineInv

LEMMA ClipInvInit == ClipInit => ClipInv
<1> SUFFICES ASSUME ClipInit PROVE ClipInv
  OBVIOUS
<1>1. EngineInv
  BY EngineInvInit DEF ClipInit
<1>2. /\ ring \in RingKinds /\ opened \in Int /\ SegmentS \in Nat /\ outages = 0
      /\ segments \subseteq Int /\ jobs = [i \in Slots |-> Idle]
      /\ MaxOutages \in Nat
  BY ClipAssumption DEF ClipInit, RingAt
<1>3. Idle \in [at : Places, segs : SUBSET Int, when : Moment]
  BY DEF Idle, Places, Moment
<1> QED
  BY <1>1, <1>2, <1>3 DEF ClipInv, ClipTypeOK, EngineInv

LEMMA EngineMoves == [ClipNext]_clipVars => [EngineStep \/ Tick]_triggerVars
<1> SUFFICES ASSUME [ClipNext]_clipVars PROVE [EngineStep \/ Tick]_triggerVars
  OBVIOUS
<1>1. CASE ClipTick
  BY <1>1 DEF ClipTick
<1>2. CASE RingStep
  BY <1>2 DEF RingStep, RecorderFails, RecorderReturns, CollectGarbage
<1>3. CASE ClipStep
  BY <1>3 DEF ClipStep, DirectoryMissing, ListSegments, Concat
<1> QED
  BY <1>1, <1>2, <1>3 DEF ClipNext, clipVars

LEMMA ClipInvNext == ClipInv /\ [ClipNext]_clipVars => ClipInv'
<1> SUFFICES ASSUME ClipInv, [ClipNext]_clipVars PROVE ClipInv'
  OBVIOUS
<1>1. /\ EngineInv /\ TriggerTypeOK /\ now \in Time
      /\ ring \in RingKinds /\ opened \in Int \cup {Never} /\ outages \in 0..MaxOutages
      /\ segments \subseteq Int
      /\ jobs \in [Slots -> [at : Places, segs : SUBSET Int, when : Moment]]
      /\ MaxOutages \in Nat
  BY ClipAssumption DEF ClipInv, ClipTypeOK, TriggerTypeOK
<1>2. [EngineStep \/ Tick]_triggerVars
  BY EngineMoves
<1>3. EngineInv' /\ TriggerTypeOK' /\ now' \in Time
  BY <1>1, <1>2, EngineInvNext DEF EngineInv, TriggerTypeOK
<1>4. now \in Int /\ now' \in Int
  BY <1>1, <1>3 DEF Time
<1> DEFINE Jobs == [Slots -> [at : Places, segs : SUBSET Int, when : Moment]]
<1> SUFFICES /\ ring' \in RingKinds /\ opened' \in Int \cup {Never} /\ outages' \in 0..MaxOutages
             /\ segments' \subseteq Int /\ jobs' \in Jobs
  BY <1>3 DEF ClipInv, ClipTypeOK
<1>5. CASE UNCHANGED <<ringVars, jobs>>
  BY <1>1, <1>5 DEF ringVars
<1>6. CASE ClipTick
  BY <1>1, <1>4, <1>6 DEF ClipTick
<1>7. CASE RingStep
  <2>1. CASE RecorderFails
    <3>1. outages' \in 0..MaxOutages
      BY <1>1, <2>1 DEF RecorderFails
    <3> QED
      BY <1>1, <2>1, <3>1 DEF RecorderFails
  <2>2. CASE RecorderReturns
    BY <1>1, <1>4, <2>2 DEF RecorderReturns
  <2>3. CASE CollectGarbage
    BY <1>1, <2>3 DEF CollectGarbage
  <2> QED
    BY <1>7, <2>1, <2>2, <2>3 DEF RingStep
<1>8. ASSUME NEW i \in Slots, DirectoryMissing(i) \/ ListSegments(i) \/ Concat(i)
      PROVE  UNCHANGED ringVars /\ jobs' \in Jobs
  <2>1. UNCHANGED ringVars
    BY <1>8 DEF DirectoryMissing, ListSegments, Concat
  <2>2. CASE DirectoryMissing(i)
    BY <1>1, <2>2 DEF DirectoryMissing, Places
  <2>3. CASE Concat(i)
    BY <1>1, <2>3 DEF Concat, Places
  <2>4. CASE ListSegments(i)
    <3>1. SegmentsInWindow(events[i]) \subseteq Int
      BY <1>1 DEF SegmentsInWindow, InDirectory
    <3>2. PICK place \in Places :
            jobs' = [jobs EXCEPT ![i] =
                       [at |-> place, segs |-> SegmentsInWindow(events[i]), when |-> now]]
      BY <2>4 DEF ListSegments, Places
    <3>3. [at |-> place, segs |-> SegmentsInWindow(events[i]), when |-> now]
            \in [at : Places, segs : SUBSET Int, when : Moment]
      BY <1>1, <3>1 DEF Moment
    <3> DEFINE job == [at |-> place, segs |-> SegmentsInWindow(events[i]), when |-> now]
    <3>4. jobs' = [jobs EXCEPT ![i] = job] /\ job \in [at : Places, segs : SUBSET Int, when : Moment]
      BY <3>2, <3>3
    <3>5. UNCHANGED <<ring, opened, outages, segments>>
      BY <2>1 DEF ringVars
    <3> HIDE DEF job
    <3>6. jobs' \in Jobs
      BY <1>1, <3>4
    <3> QED
      BY <2>1, <3>6
  <2> QED
    BY <1>8, <2>1, <2>2, <2>3, <2>4
<1>9. CASE ClipStep
  BY <1>1, <1>8, <1>9 DEF ClipStep, ringVars
<1> QED
  BY <1>5, <1>6, <1>7, <1>9 DEF ClipNext, clipVars

-----------------------------------------------------------------------------
(* The state of the engine, of the ring-buffer and of the clips is well    *)
(* typed in every behaviour.                                               *)
THEOREM ClipTypeCorrect == ClipSpec => []ClipTypeOK
<1>1. ClipInv => ClipTypeOK
  BY DEF ClipInv
<1> QED
  BY ClipInvInit, ClipInvNext, <1>1, PTL DEF ClipSpec

(* CameraTriggerState.last_fire and _can_fire keep the events of a camera  *)
(* apart: those of one kind by their cool-down, two fights of different    *)
(* kinds by the length of a clip, whichever is later, for any thresholds.  *)
THEOREM FightsCorrect == ClipSpec => []FightsApart
<1>1. ClipInv => FightsApart
  BY DEF ClipInv, EngineInv, Paused, FightsApart
<1> QED
  BY ClipInvInit, ClipInvNext, <1>1, PTL DEF ClipSpec

-----------------------------------------------------------------------------
(* The inductive invariant of the static filter: a poster that it learnt   *)
(* in warm-up is old, and stays so for as long as it is remembered.        *)
PosterOld ==
  ~unseen => sticky["poster"] = NoBox \/ now - sticky["poster"].first >= StaticAge

FurnitureInv == NoFurnitureAlarm /\ PosterOld

LEMMA FurnitureInit == TriggerInit => FurnitureInv
BY DEF TriggerInit, Fresh, FurnitureInv, NoFurnitureAlarm, PosterOld, Boxes

(* What a frame does with the poster, which never moves.                   *)
LEMMA PosterFrame ==
  ASSUME TriggerTypeOK, FurnitureInv, NEW seen \in SUBSET Boxes,
         NEW moved \in SUBSET (seen \ {"poster"}), NEW close, NEW touch, NEW angles,
         Frame(seen, moved, close, touch, angles)
  PROVE  FurnitureInv'
<1> DEFINE force == Warming
           live  == Live(seen, moved, force)
           first == FirstTs("poster", force, "poster" \in moved)
           box   == [first |-> first, last |-> now]
<1>1. /\ now' = now /\ now \in Nat /\ "poster" \in Boxes /\ "poster" \notin moved
      /\ sticky["poster"] \in Stick /\ unseen \in BOOLEAN /\ fooled \in BOOLEAN
  BY DEF Frame, TriggerTypeOK, Time, Boxes
<1>2. /\ sticky' = Filtered(seen, moved, force)
      /\ unseen' = (unseen \/ (~force /\ "poster" \in seen /\ sticky["poster"] = NoBox))
      /\ fooled' = (fooled \/ (~force /\ FiresPresence(live) /\ live = {"poster"}))
  BY <1>1 DEF Frame
<1>3. ASSUME ~unseen, "poster" \in seen, force \/ sticky["poster"] # NoBox
      PROVE  first \in Int /\ now - first >= StaticAge
  <2>1. sticky["poster"] # NoBox =>
          sticky["poster"].first \in Int /\ now - sticky["poster"].first >= StaticAge
    BY <1>1, <1>3 DEF FurnitureInv, PosterOld, Stick
  <2>2. CASE force
    BY <1>1, <2>1, <2>2 DEF FirstTs, Seeded, Smaller
  <2>3. CASE ~force
    BY <1>1, <1>3, <2>1, <2>3 DEF FirstTs
  <2> QED
    BY <2>2, <2>3
<1>4. "poster" \in seen => sticky'["poster"] = box
  BY <1>1, <1>2 DEF Filtered
<1>5. PosterOld'
  <2> SUFFICES ASSUME ~unseen', NEW s, s = sticky'["poster"]
               PROVE  s = NoBox \/ now - s.first >= StaticAge
    BY <1>1 DEF PosterOld
  <2>1. CASE "poster" \in seen
    <3>1. s = box /\ ~unseen /\ (force \/ sticky["poster"] # NoBox)
      BY <1>2, <1>4, <2>1
    <3>2. now - first >= StaticAge
      BY <1>3, <2>1, <3>1
    <3> HIDE DEF first
    <3> QED
      BY <3>1, <3>2
  <2>2. CASE "poster" \notin seen
    <3>1. s \in {sticky["poster"], NoBox} /\ ~unseen
      BY <1>1, <1>2, <2>2 DEF Filtered
    <3> QED
      BY <3>1 DEF FurnitureInv, PosterOld
  <2> QED
    BY <2>1, <2>2
<1>6. NoFurnitureAlarm'
  <2> SUFFICES ASSUME fooled', ~unseen' PROVE FALSE
    BY DEF NoFurnitureAlarm
  <2>1. ~unseen /\ ~fooled /\ ~force /\ live = {"poster"}
    BY <1>1, <1>2 DEF FurnitureInv, NoFurnitureAlarm
  <2>2. "poster" \in seen /\ now - first < StaticAge
    BY <2>1 DEF Live
  <2>3. sticky["poster"] # NoBox
    BY <1>2, <2>1, <2>2
  <2>4. now - first >= StaticAge /\ first \in Int
    BY <1>3, <2>1, <2>2, <2>3
  <2> HIDE DEF first
  <2> QED
    BY <1>1, <2>2, <2>4
<1> QED
  BY <1>5, <1>6 DEF FurnitureInv

LEMMA FurnitureNext ==
  TriggerTypeOK /\ FurnitureInv /\ [EngineStep \/ Tick]_triggerVars => FurnitureInv'
<1> SUFFICES ASSUME TriggerTypeOK, FurnitureInv, [EngineStep \/ Tick]_triggerVars
             PROVE  FurnitureInv'
  OBVIOUS
<1>1. CASE AnyFrame
  <2>1. PICK seen \in SUBSET Boxes : \E moved \in SUBSET (seen \ {"poster"}) :
          \E close, touch \in IF seen = Boxes THEN BOOLEAN ELSE {FALSE} :
            \E angles \in IF touch \/ pair # NoContact THEN Angles ELSE {"low"} :
              Frame(seen, moved, close, touch, angles)
    BY <1>1 DEF AnyFrame
  <2> QED
    BY <2>1, PosterFrame
<1>2. ASSUME UNCHANGED <<sticky, unseen, fooled, now>> PROVE FurnitureInv'
  BY <1>2 DEF FurnitureInv, NoFurnitureAlarm, PosterOld
<1>3. CASE EngineDropped
  <2>1. sticky'["poster"] = NoBox /\ UNCHANGED <<unseen, fooled>>
    BY <1>3 DEF EngineDropped, Fresh, Boxes
  <2> QED
    BY <2>1 DEF FurnitureInv, NoFurnitureAlarm, PosterOld
<1>4. CASE Tick
  <2>1. UNCHANGED <<sticky, unseen, fooled>> /\ now' = now + 1 /\ now \in Nat
    BY <1>4 DEF Tick, engine, TriggerTypeOK, Time
  <2>2. sticky["poster"] # NoBox => sticky["poster"].first \in Int
    BY DEF TriggerTypeOK, Stick, Boxes
  <2> QED
    BY <2>1, <2>2 DEF FurnitureInv, NoFurnitureAlarm, PosterOld
<1> QED
  BY <1>1, <1>2, <1>3, <1>4
     DEF EngineStep, FrameWhileHalted, StreamSilent, Halt, StreamRestarts, engine, triggerVars

(* filter_live_people: the poster that was in view during warm-up never    *)
(* makes an alarm of presence by itself, unless the detector lost it for   *)
(* so long that its sticky box went, for any thresholds and any frames.    *)
THEOREM FurnitureCorrect == ClipSpec => []NoFurnitureAlarm
<1>1. ClipInit => ClipInv /\ FurnitureInv
  BY ClipInvInit, FurnitureInit DEF ClipInit
<1>2. ClipInv /\ FurnitureInv /\ [ClipNext]_clipVars => (ClipInv /\ FurnitureInv)'
  BY ClipInvNext, EngineMoves, FurnitureNext DEF ClipInv, ClipTypeOK
<1>3. FurnitureInv => NoFurnitureAlarm
  BY DEF FurnitureInv
<1> QED
  BY <1>1, <1>2, <1>3, PTL DEF ClipSpec

(* The events of a sequence, and which ones a frame adds.                  *)
EventsOf(evs) == {evs[i] : i \in 1..Len(evs)}

LEMMA EventsOfParts ==
  ASSUME NEW s \in Seq(EventOf), NEW u \in Seq(EventOf)
  PROVE  EventsOf(s \o u) = EventsOf(s) \cup EventsOf(u)
<1> DEFINE m == Len(s)
           n == Len(u)
<1>1. m \in Nat /\ n \in Nat /\ Len(s \o u) = m + n
  BY ConcatProperties
<1>2. \A i \in 1..(m + n) : (s \o u)[i] = IF i <= m THEN s[i] ELSE u[i - m]
  BY ConcatProperties
<1> HIDE DEF m, n
<1>3. ASSUME NEW i \in 1..(m + n)
      PROVE  (\E j \in 1..m : s[j] = (s \o u)[i]) \/ (\E j \in 1..n : u[j] = (s \o u)[i])
  <2>1. CASE i <= m
    <3>1. i \in 1..m /\ s[i] = (s \o u)[i]
      BY <1>1, <1>2, <2>1
    <3> QED
      BY <3>1
  <2>2. CASE ~(i <= m)
    <3>1. i - m \in 1..n /\ u[i - m] = (s \o u)[i]
      BY <1>1, <1>2, <2>2
    <3> QED
      BY <3>1
  <2> QED
    BY <2>1, <2>2
<1>4. ASSUME NEW j \in 1..m PROVE j \in 1..(m + n) /\ (s \o u)[j] = s[j]
  BY <1>1, <1>2
<1>5. ASSUME NEW j \in 1..n PROVE \E i \in 1..(m + n) : (s \o u)[i] = u[j]
  <2>1. j + m \in 1..(m + n) /\ ~(j + m <= m) /\ (j + m) - m = j
    BY <1>1
  <2>2. (s \o u)[j + m] = u[j]
    BY <1>2, <2>1
  <2> QED
    BY <2>1, <2>2
<1>6. /\ EventsOf(s \o u) = {(s \o u)[i] : i \in 1..(m + n)}
      /\ EventsOf(s) = {s[i] : i \in 1..m} /\ EventsOf(u) = {u[i] : i \in 1..n}
  BY <1>1 DEF EventsOf, m, n
<1>7. ASSUME NEW e
      PROVE  e \in EventsOf(s \o u) <=> e \in EventsOf(s) \/ e \in EventsOf(u)
  <2>1. e \in EventsOf(s \o u) <=> \E i \in 1..(m + n) : e = (s \o u)[i]
    BY <1>6
  <2>2. e \in EventsOf(s) <=> \E i \in 1..m : e = s[i]
    BY <1>6
  <2>3. e \in EventsOf(u) <=> \E i \in 1..n : e = u[i]
    BY <1>6
  <2>4. m + n \in Nat /\ 1..m \subseteq 1..(m + n)
    BY <1>1
  <2> QED
    BY <1>3, <1>4, <1>5, <2>1, <2>2, <2>3, <2>4
<1> QED
  BY <1>7

LEMMA EventsOfMaybe ==
  ASSUME NEW cond \in BOOLEAN, NEW e
  PROVE  EventsOf(Maybe(cond, e)) = IF cond THEN {e} ELSE {}
<1>1. CASE cond
  BY <1>1 DEF EventsOf, Maybe
<1>2. CASE ~cond
  BY <1>2 DEF EventsOf, Maybe
<1> QED
  BY <1>1, <1>2

(* Which events a frame adds to those of before.                           *)
Added(e, live, near, vif, t, contact) ==
  \/ FiresPresence(live) /\ e = Event("presence", ClipPre, presence.since)
  \/ FiresConvergence(near) /\ e = Event("convergence", ClipPre, converge.since)
  \/ vif /\ e = Event("vif", PreOf(t, contact), contact.start)

LEMMA SentEvents ==
  ASSUME TriggerTypeOK, NEW live, NEW near \in BOOLEAN, NEW vif \in BOOLEAN,
         NEW t \in Nat, NEW contact \in Pairs, vif => contact # NoContact
  PROVE  /\ Sent(live, near, vif, t, contact) \in Seq(EventOf)
         /\ \A e : e \in EventsOf(events \o Sent(live, near, vif, t, contact)) <=>
                   e \in EventsOf(events) \/ Added(e, live, near, vif, t, contact)
<1> DEFINE fp == FiresPresence(live)
           fc == FiresConvergence(near)
           ep == Event("presence", ClipPre, presence.since)
           ec == Event("convergence", ClipPre, converge.since)
           ev == Event("vif", PreOf(t, contact), contact.start)
           p  == Maybe(fp, ep)
           c  == Maybe(fc, ec)
           v  == Maybe(vif, ev)
<1>1. fp \in BOOLEAN /\ fc \in BOOLEAN
  BY DEF FiresPresence, FiresConvergence
<1>2. /\ fp => ep \in EventOf
      /\ fc => ec \in EventOf
      /\ vif => ev \in EventOf
  BY SentTypes
<1>3. Sent(live, near, vif, t, contact) = p \o c \o v
  BY DEF Sent, Maybe
<1>4. ASSUME NEW cond \in BOOLEAN, NEW e, cond => e \in EventOf
      PROVE  Maybe(cond, e) \in Seq(EventOf)
  BY <1>4 DEF Maybe
<1>5. events \in Seq(EventOf)
  BY DEF TriggerTypeOK
<1> HIDE DEF fp, fc, ep, ec, ev
<1>6. /\ p \in Seq(EventOf) /\ c \in Seq(EventOf) /\ v \in Seq(EventOf)
      /\ EventsOf(p) = IF fp THEN {ep} ELSE {}
      /\ EventsOf(c) = IF fc THEN {ec} ELSE {}
      /\ EventsOf(v) = IF vif THEN {ev} ELSE {}
  BY <1>1, <1>2, <1>4, EventsOfMaybe
<1> HIDE DEF p, c, v
<1>7. /\ p \o c \in Seq(EventOf) /\ p \o c \o v \in Seq(EventOf)
  <2>1. p \o c \in Seq(EventOf)
    BY <1>6
  <2> QED
    BY <1>6, <2>1
<1>8. EventsOf(events \o (p \o c \o v)) = EventsOf(events) \cup EventsOf(p) \cup EventsOf(c) \cup EventsOf(v)
  <2>1. EventsOf(p \o c) = EventsOf(p) \cup EventsOf(c)
    BY <1>6, EventsOfParts
  <2>2. EventsOf(p \o c \o v) = EventsOf(p \o c) \cup EventsOf(v)
    BY <1>6, <1>7, EventsOfParts
  <2>3. EventsOf(events \o (p \o c \o v)) = EventsOf(events) \cup EventsOf(p \o c \o v)
    BY <1>5, <1>7, EventsOfParts
  <2> QED
    BY <2>1, <2>2, <2>3
<1>9. ASSUME NEW e
      PROVE  e \in EventsOf(events \o (p \o c \o v)) <=>
               e \in EventsOf(events) \/ (fp /\ e = ep) \/ (fc /\ e = ec) \/ (vif /\ e = ev)
  BY <1>6, <1>8
<1> QED
  BY <1>3, <1>7, <1>9 DEF Added, fp, fc, ep, ec, ev

(* All that a frame after warm-up does with the events and with the pair.  *)
Acts(live, near, touch, angles, t, contact, vif) ==
  /\ Sends(live, near, vif, t, contact)
  /\ t = VideoSeconds(now - pts)
  /\ contact \in {NoContact, ContactEvent(t, touch, angles)}
  /\ lastT' = t
  /\ pair' = AfterFrame(t, touch, contact # NoContact /\ ~FiresLate(t, touch, angles), vif)
  /\ Len(events) + Len(Sent(live, near, vif, t, contact)) <= MaxEvents

SomeActs ==
  \/ UNCHANGED <<lastT, pair, lastFire, events>>
  \/ \E live \in SUBSET Boxes, near, vif, touch \in BOOLEAN, angles \in Angles,
        t \in Nat, contact \in Pairs :
       Acts(live, near, touch, angles, t, contact, vif)

LEMMA FrameActs ==
  ASSUME TriggerTypeOK, AnyFrame
  PROVE  /\ ~halted /\ frame.last # now /\ UNCHANGED <<now, halted, pts>>
         /\ frame'.last = now /\ SomeActs
<1>1. ~halted /\ frame.last # now
  BY DEF AnyFrame
<1>2. PICK seen \in SUBSET Boxes : \E moved \in SUBSET (seen \ {"poster"}) :
        \E close, touch \in IF seen = Boxes THEN BOOLEAN ELSE {FALSE} :
          \E angles \in IF touch \/ pair # NoContact THEN Angles ELSE {"low"} :
            Frame(seen, moved, close, touch, angles)
  BY DEF AnyFrame
<1>3. PICK moved \in SUBSET Boxes, close \in BOOLEAN, touch \in BOOLEAN, angles \in Angles :
        Frame(seen, moved, close, touch, angles)
  BY <1>2 DEF Angles
<1> DEFINE live    == Live(seen, moved, Warming)
           near    == close /\ live = Boxes
           t       == VideoSeconds(now - pts)
           contact == IF "vif" \in Kinds THEN ContactEvent(t, touch, angles) ELSE NoContact
           others  == Sent(live, near, FALSE, t, contact)
           vif     == contact # NoContact /\ CanFire(Fired(others), "vif")
           fires   == contact # NoContact /\ ~FiresLate(t, touch, angles)
<1>4. UNCHANGED <<now, halted, pts>> /\ frame'.last = now
  BY <1>3 DEF Frame
<1>5. CASE Warming
  BY <1>1, <1>3, <1>4, <1>5 DEF Frame, SomeActs
<1>6. CASE ~Warming
  <2>1. /\ lastT' = t
        /\ pair' = AfterFrame(t, touch, fires, vif)
        /\ lastFire' = Fired(Sent(live, near, vif, t, contact))
        /\ events' = events \o Sent(live, near, vif, t, contact)
        /\ Len(events) + Len(Sent(live, near, vif, t, contact)) <= MaxEvents
    BY <1>3, <1>6 DEF Frame
  <2>2. now - pts \in Nat
    BY DEF TriggerTypeOK, Time
  <2>3. t \in Nat
    BY <2>2, VideoSecondsType
  <2>4. live \in SUBSET Boxes /\ near \in BOOLEAN /\ vif \in BOOLEAN
    BY DEF Live
  <2>5. contact \in Pairs
    <3>1. lastT \in Nat \cup {Never} /\ pair \in Pairs /\ NoContact \in Pairs
      BY DEF TriggerTypeOK, Pairs
    <3> HIDE DEF t
    <3> QED
      BY <2>3, <2>4, <3>1, ContactTypes
  <2>6. Acts(live, near, touch, angles, t, contact, vif)
    BY <2>1, <2>5 DEF Acts, Sends
  <2> HIDE DEF live, near, t, contact, vif
  <2> QED
    BY <1>1, <1>4, <2>3, <2>4, <2>5, <2>6 DEF SomeActs
<1> QED
  BY <1>5, <1>6

-----------------------------------------------------------------------------
(* The inductive invariant of the contact rules, while an engine lives.    *)
ContactInOrder ==
  pair # NoContact => lastT \in Nat /\ pair.start <= pair.last /\ pair.last <= lastT

(* A pair after a frame is a new contact or the one of before.             *)
NewOrKept(next, t, contact, vif) ==
  /\ contact # NoContact => contact.start \in Nat /\ contact.start <= t
  /\ next # NoContact =>
       /\ next.start \in Nat /\ next.start <= next.last /\ next.last <= t
       /\ \/ /\ next.start = t
             /\ next.fired => vif /\ contact.start = t
             /\ ~next.fired /\ vif => contact.start < t
          \/ /\ pair # NoContact /\ next.start = pair.start /\ pair.last <= t
             /\ next.fired => pair.fired \/ (vif /\ contact.start = pair.start)
             /\ ~next.fired => ~pair.fired /\ ~vif

LEMMA PairAfter ==
  ASSUME lastT \in Nat \cup {Never}, pair \in Pairs, ContactInOrder,
         NEW t \in Nat, NEW touch \in BOOLEAN, NEW angles, NEW contact, NEW vif \in BOOLEAN,
         contact \in {NoContact, ContactEvent(t, touch, angles)}, vif => contact # NoContact,
         NEW next,
         next = AfterFrame(t, touch, contact # NoContact /\ ~FiresLate(t, touch, angles), vif)
  PROVE  NewOrKept(next, t, contact, vif)
<1> DEFINE b == Before(t)
           p == Touched(t, touch)
           fires == contact # NoContact /\ ~FiresLate(t, touch, angles)
<1>1. /\ b \in Pairs /\ b \in {NoContact, pair}
      /\ b # NoContact => b = pair /\ b.start \in Nat /\ b.last \in Nat
                          /\ b.start <= b.last /\ b.last <= t /\ b.fired \in BOOLEAN
  <2>1. CASE Reset(t)
    BY <2>1 DEF Before, Pairs
  <2>2. CASE ~Reset(t)
    <3>1. b = pair
      BY <2>2 DEF Before
    <3>2. pair # NoContact => pair.start \in Nat /\ pair.last \in Nat /\ pair.fired \in BOOLEAN
      BY DEF Pairs
    <3>3. pair # NoContact => lastT <= t /\ lastT \in Nat
      BY <2>2 DEF Reset, ContactInOrder
    <3> QED
      BY <3>1, <3>2, <3>3 DEF ContactInOrder
  <2> QED
    BY <2>1, <2>2
<1>2. FiresLate(t, touch, angles) => b # NoContact /\ Expired(b, t) /\ b.start < t /\ b.last < t
  <2> HIDE DEF b
  <2>1. FiresLate(t, touch, angles) => Expired(b, t)
    BY DEF FiresLate, b
  <2>2. Expired(b, t) => b # NoContact /\ t - b.last > Gap /\ Gap \in Nat
    BY TriggerAssumption DEF Expired
  <2> QED
    BY <1>1, <2>1, <2>2
<1>3. /\ p = b \/ p = [start |-> t, last |-> t, fired |-> FALSE]
         \/ (b # NoContact /\ ~Expired(b, t) /\ p = [b EXCEPT !.last = t])
      /\ touch => p # NoContact /\ p.last = t
      /\ ~touch => p = b
  <2>1. [b EXCEPT !.last = t] # NoContact /\ (b # NoContact => [b EXCEPT !.last = t].last = t)
    BY <1>1 DEF NoContact, Pairs
  <2> QED
    BY <2>1 DEF Touched, NoContact
<1> HIDE DEF b, p
<1>4. contact # NoContact => (FiresLate(t, touch, angles) /\ contact = b)
                             \/ (~FiresLate(t, touch, angles) /\ contact = p /\ ~p.fired)
  BY DEF ContactEvent, FiresNow, b, p
<1>5. p # NoContact => /\ p \in [start : Nat, last : Nat, fired : BOOLEAN]
                       /\ p.start <= p.last /\ p.last <= t
  <2>1. b # NoContact => b \in [start : Nat, last : Nat, fired : BOOLEAN]
    BY <1>1 DEF Pairs
  <2>2. CASE p = b
    BY <1>1, <2>1, <2>2
  <2>3. CASE p = [start |-> t, last |-> t, fired |-> FALSE]
    BY <2>3
  <2>4. CASE b # NoContact /\ p = [b EXCEPT !.last = t]
    BY <1>1, <2>1, <2>4
  <2> QED
    BY <1>3, <2>2, <2>3, <2>4
<1>6. contact # NoContact => contact.start \in Nat /\ contact.start <= t
  BY <1>1, <1>2, <1>4, <1>5
<1>7. ASSUME next # NoContact
      PROVE  /\ p # NoContact /\ ~Expired(p, t)
             /\ next = IF fires THEN [p EXCEPT !.fired = vif] ELSE p
  BY <1>7 DEF AfterFrame, AfterEvent, p
<1>8. ASSUME next # NoContact
      PROVE  /\ next.start = p.start /\ next.last = p.last
             /\ next.fired = IF fires THEN vif ELSE p.fired
  <2>1. p \in [start : Nat, last : Nat, fired : BOOLEAN]
    BY <1>5, <1>7, <1>8
  <2> HIDE DEF fires
  <2> QED
    BY <1>7, <1>8, <2>1
<1>9. ASSUME next # NoContact, p = [start |-> t, last |-> t, fired |-> FALSE]
      PROVE  /\ next.start = t
             /\ next.fired => vif /\ contact.start = t
             /\ ~next.fired /\ vif => contact.start < t
  <2>1. CASE fires
    BY <1>4, <1>8, <1>9, <2>1
  <2>2. CASE ~fires
    BY <1>2, <1>4, <1>8, <1>9, <2>2
  <2> QED
    BY <2>1, <2>2
<1>10. ASSUME next # NoContact, b # NoContact, ~Expired(b, t), p = b \/ p = [b EXCEPT !.last = t]
       PROVE  /\ pair # NoContact /\ next.start = pair.start /\ pair.last <= t
              /\ next.fired => pair.fired \/ (vif /\ contact.start = pair.start)
              /\ ~next.fired => ~pair.fired /\ ~vif
  <2>1. p.start = b.start /\ p.fired = b.fired /\ b = pair
    BY <1>1, <1>10 DEF Pairs
  <2>2. ~FiresLate(t, touch, angles)
    BY <1>2, <1>10
  <2>3. CASE fires
    BY <1>1, <1>4, <1>8, <1>10, <2>1, <2>2, <2>3
  <2>4. CASE ~fires
    <3>1. ~vif
      BY <2>2, <2>4
    <3> QED
      BY <1>1, <1>8, <1>10, <2>1, <2>4, <3>1
  <2> QED
    BY <2>3, <2>4
<1>11. next # NoContact =>
         \/ p = [start |-> t, last |-> t, fired |-> FALSE]
         \/ b # NoContact /\ ~Expired(b, t) /\ (p = b \/ p = [b EXCEPT !.last = t])
  BY <1>3, <1>7
<1> HIDE DEF fires
<1>12. next # NoContact => next.start \in Nat /\ next.start <= next.last /\ next.last <= t
  BY <1>5, <1>7, <1>8
<1> QED
  BY <1>6, <1>9, <1>10, <1>11, <1>12 DEF NewOrKept

(* contact_rules.py: "t in seconds, increasing".                           *)
ClockIncreases == \A s, u \in Nat : s < u => VideoSeconds(s) < VideoSeconds(u)

Alive    == ~halted \/ pair # NoContact
OnStream == {e \in EventsOf(events) : e.kind = "vif" /\ e.stream = pts}

FramesPast == frame.last # Never => frame.last <= now
SentBefore ==
  Alive => \A e \in OnStream :
    /\ lastT \in Nat /\ frame.last \in Nat /\ pts <= frame.last
    /\ e.since \in Nat /\ e.since <= lastT /\ lastT <= VideoSeconds(frame.last - pts)
TwoStreams == Alive => \A e \in EventsOf(events) : e.stream \in {0, pts}
Marked ==
  pair # NoContact =>
    /\ pair.fired => \E e \in EventsOf(events) : e.kind = "vif" /\ e.since = pair.start
    /\ ~pair.fired => \A e \in OnStream : e.since # pair.start

MarkInv == FramesPast /\ ContactInOrder /\ SentBefore /\ TwoStreams /\ Marked

LEMMA MarkInit == TriggerInit => MarkInv
<1> SUFFICES ASSUME TriggerInit PROVE MarkInv
  OBVIOUS
<1>1. frame.last = Never /\ pair = NoContact /\ events = <<>>
  BY DEF TriggerInit, Fresh, NoFrame
<1>2. EventsOf(events) = {}
  BY <1>1 DEF EventsOf
<1> QED
  BY <1>1, <1>2 DEF MarkInv, FramesPast, ContactInOrder, SentBefore, TwoStreams, Marked, OnStream

(* The clock does not go back in a stream.                                 *)
LEMMA ClockKeeps ==
  ASSUME ClockIncreases, NEW s \in Nat, NEW u \in Nat, s <= u
  PROVE  VideoSeconds(s) <= VideoSeconds(u)
<1>1. VideoSeconds(s) \in Nat /\ VideoSeconds(u) \in Nat
  BY VideoSecondsType
<1>2. s < u \/ s = u
  OBVIOUS
<1>3. s < u => VideoSeconds(s) < VideoSeconds(u)
  BY DEF ClockIncreases
<1> HIDE DEF VideoSeconds
<1> QED
  BY <1>1, <1>2, <1>3

(* A frame that is not of warm-up comes later than every event of its      *)
(* stream, also on the clock of the stream.                                *)
LEMMA LaterThanSent ==
  ASSUME ClockIncreases, TriggerTypeOK, MarkInv, ~halted, frame.last # now,
         NEW t, t = VideoSeconds(now - pts), NEW e \in OnStream
  PROVE  lastT \in Nat /\ lastT < t /\ e.since \in Nat /\ e.since <= lastT
<1>1. /\ lastT \in Nat /\ frame.last \in Nat /\ pts <= frame.last
      /\ e.since \in Nat /\ e.since <= lastT /\ lastT <= VideoSeconds(frame.last - pts)
  BY DEF MarkInv, SentBefore, Alive
<1>2. frame.last < now /\ pts \in Nat /\ now \in Nat
  BY <1>1 DEF MarkInv, FramesPast, TriggerTypeOK, Time
<1>3. frame.last - pts \in Nat /\ now - pts \in Nat /\ frame.last - pts < now - pts
  BY <1>1, <1>2
<1>4. VideoSeconds(frame.last - pts) < t
  BY <1>3 DEF ClockIncreases
<1>5. VideoSeconds(frame.last - pts) \in Nat /\ t \in Nat
  BY <1>3, VideoSecondsType
<1> HIDE DEF VideoSeconds
<1> QED
  BY <1>1, <1>4, <1>5

LEMMA MarkActs ==
  ASSUME ClockIncreases, TriggerTypeOK, MarkInv, ~halted, frame.last # now,
         UNCHANGED <<now, halted, pts>>, frame'.last = now,
         NEW live \in SUBSET Boxes, NEW near \in BOOLEAN, NEW touch \in BOOLEAN, NEW angles,
         NEW t \in Nat, NEW contact \in Pairs, NEW vif \in BOOLEAN,
         Acts(live, near, touch, angles, t, contact, vif)
  PROVE  MarkInv'
<1> DEFINE next == AfterFrame(t, touch, contact # NoContact /\ ~FiresLate(t, touch, angles), vif)
           ev   == Event("vif", PreOf(t, contact), contact.start)
           old  == EventsOf(events)
<1>1. /\ t = VideoSeconds(now - pts) /\ lastT' = t /\ pair' = next
      /\ contact \in {NoContact, ContactEvent(t, touch, angles)}
      /\ vif => contact # NoContact
      /\ events' = events \o Sent(live, near, vif, t, contact)
  BY DEF Acts, Sends
<1>2. /\ now \in Nat /\ pts \in Nat /\ pts <= now /\ lastT \in Nat \cup {Never} /\ pair \in Pairs
      /\ ContactInOrder
  BY DEF TriggerTypeOK, Time, MarkInv
<1>3. /\ old \subseteq EventsOf(events') /\ (vif => ev \in EventsOf(events'))
      /\ \A e \in EventsOf(events') : e \in old \/ (e.stream = pts /\ (e.kind = "vif" => vif /\ e = ev))
  <2>1. ASSUME NEW e
        PROVE  e \in EventsOf(events') <=> e \in old \/ Added(e, live, near, vif, t, contact)
    BY <1>1, SentEvents
  <2>2. vif => Added(ev, live, near, vif, t, contact)
    BY DEF Added
  <2>3. ASSUME NEW e, Added(e, live, near, vif, t, contact)
        PROVE  e.stream = pts /\ (e.kind = "vif" => vif /\ e = ev)
    BY <2>3 DEF Added, Event
  <2> HIDE DEF ev, old
  <2> QED
    BY <2>1, <2>2, <2>3
<1>4. ev.kind = "vif" /\ ev.since = contact.start /\ ev.stream = pts
  BY DEF Event
<1> HIDE DEF ev, old
<1>5. NewOrKept(next, t, contact, vif)
  <2>1. next = AfterFrame(t, touch, contact # NoContact /\ ~FiresLate(t, touch, angles), vif)
    OBVIOUS
  <2>2. contact \in {NoContact, ContactEvent(t, touch, angles)} /\ (vif => contact # NoContact)
    BY <1>1
  <2>3. lastT \in Nat \cup {Never} /\ pair \in Pairs /\ ContactInOrder
    BY <1>2
  <2> HIDE DEF next
  <2> QED
    BY <2>1, <2>2, <2>3, PairAfter
<1> HIDE DEF next
<1>6. \A e \in OnStream : e.since < t /\ e.since <= lastT /\ lastT < t /\ lastT \in Nat /\ e.since \in Nat
  <2> SUFFICES ASSUME NEW e \in OnStream
               PROVE  e.since < t /\ e.since <= lastT /\ lastT < t /\ lastT \in Nat /\ e.since \in Nat
    OBVIOUS
  <2>1. t = VideoSeconds(now - pts)
    BY <1>1
  <2>2. lastT \in Nat /\ lastT < t /\ e.since \in Nat /\ e.since <= lastT
    BY <2>1, LaterThanSent
  <2> QED
    BY <1>1, <2>2
<1>7. (FramesPast /\ ContactInOrder)'
  BY <1>1, <1>2, <1>5 DEF FramesPast, ContactInOrder, NewOrKept
<1>8. (OnStream)' = {e \in EventsOf(events') : e.kind = "vif" /\ e.stream = pts}
  BY DEF OnStream
<1>9. \A e \in (OnStream)' : e \in OnStream \/ (vif /\ e = ev)
  BY <1>3, <1>8 DEF OnStream, old
<1>10. SentBefore'
  <2> SUFFICES ASSUME NEW e, e \in (OnStream)'
               PROVE  /\ t \in Nat /\ now \in Nat /\ pts <= now
                      /\ e.since \in Nat /\ e.since <= t /\ t <= VideoSeconds(now - pts)
    BY <1>1 DEF SentBefore
  <2>1. e.since \in Nat /\ e.since <= t
    BY <1>1, <1>4, <1>5, <1>6, <1>9 DEF NewOrKept
  <2> QED
    BY <1>1, <1>2, <2>1
<1>11. TwoStreams'
  BY <1>3 DEF TwoStreams, MarkInv, Alive, old
<1>12. Marked'
  <2> SUFFICES ASSUME next # NoContact
               PROVE  /\ next.fired => \E e \in EventsOf(events') : e.kind = "vif" /\ e.since = next.start
                      /\ ~next.fired => \A e \in (OnStream)' : e.since # next.start
    BY <1>1 DEF Marked
  <2>1. pair # NoContact =>
          /\ pair.fired => \E e \in EventsOf(events') : e.kind = "vif" /\ e.since = pair.start
          /\ ~pair.fired => \A e \in OnStream : e.since # pair.start
    BY <1>3 DEF MarkInv, Marked, old
  <2>2. CASE next.start = t /\ (next.fired => vif /\ contact.start = t)
             /\ (~next.fired /\ vif => contact.start < t)
    BY <1>1, <1>3, <1>4, <1>6, <1>9, <2>2
  <2>3. CASE pair # NoContact /\ next.start = pair.start
             /\ (next.fired => pair.fired \/ (vif /\ contact.start = pair.start))
             /\ (~next.fired => ~pair.fired /\ ~vif)
    BY <1>3, <1>4, <1>9, <2>1, <2>3
  <2> QED
    BY <1>5, <2>2, <2>3 DEF NewOrKept
<1> QED
  BY <1>7, <1>10, <1>11, <1>12 DEF MarkInv

(* A step that leaves the pair alone: time passes, a frame is only noted.  *)
LEMMA MarkStays ==
  ASSUME ClockIncreases, TriggerTypeOK, MarkInv, UNCHANGED <<pts, pair, lastT>>,
         now' \in {now, now + 1}, frame'.last \in {frame.last, now}, halted => halted',
         EventsOf(events) \subseteq EventsOf(events'),
         \A e \in EventsOf(events') : e \in EventsOf(events) \/ (e.kind # "vif" /\ e.stream = pts)
  PROVE  MarkInv'
<1>1. now \in Nat /\ pts \in Nat /\ frame.last \in Nat \cup {Never} /\ (Alive' => Alive)
  BY DEF TriggerTypeOK, Time, Moment, Alive
<1>2. FramesPast'
  BY <1>1 DEF MarkInv, FramesPast
<1>3. ContactInOrder'
  BY DEF MarkInv, ContactInOrder
<1>4. \A e \in (OnStream)' : e \in OnStream
  BY DEF OnStream
<1>5. SentBefore'
  <2> SUFFICES ASSUME Alive', NEW e, e \in (OnStream)', NEW last, last = frame'.last
               PROVE  /\ lastT \in Nat /\ last \in Nat /\ pts <= last
                      /\ e.since \in Nat /\ e.since <= lastT /\ lastT <= VideoSeconds(last - pts)
    BY DEF SentBefore
  <2>1. /\ lastT \in Nat /\ frame.last \in Nat /\ pts <= frame.last
        /\ e.since \in Nat /\ e.since <= lastT /\ lastT <= VideoSeconds(frame.last - pts)
    BY <1>1, <1>4 DEF MarkInv, SentBefore
  <2>2. frame.last <= now
    BY <2>1 DEF MarkInv, FramesPast
  <2>3. last \in Nat /\ pts <= last /\ frame.last <= last
    BY <1>1, <2>1, <2>2
  <2>4. frame.last - pts \in Nat /\ last - pts \in Nat /\ frame.last - pts <= last - pts
    BY <1>1, <2>1, <2>3
  <2>5. VideoSeconds(frame.last - pts) <= VideoSeconds(last - pts)
    BY <2>4, ClockKeeps
  <2>6. VideoSeconds(frame.last - pts) \in Nat /\ VideoSeconds(last - pts) \in Nat
    BY <2>4, VideoSecondsType
  <2> HIDE DEF VideoSeconds
  <2> QED
    BY <2>1, <2>3, <2>5, <2>6
<1>6. TwoStreams'
  BY <1>1 DEF MarkInv, TwoStreams
<1>7. Marked'
  BY <1>4 DEF MarkInv, Marked
<1> QED
  BY <1>2, <1>3, <1>5, <1>6, <1>7 DEF MarkInv

LEMMA MarkNext ==
  ASSUME ClockIncreases
  PROVE  TriggerTypeOK /\ MarkInv /\ [EngineStep \/ Tick]_triggerVars => MarkInv'
<1> SUFFICES ASSUME TriggerTypeOK, MarkInv, [EngineStep \/ Tick]_triggerVars PROVE MarkInv'
  OBVIOUS
<1>1. CASE AnyFrame
  <2>1. /\ ~halted /\ frame.last # now /\ UNCHANGED <<now, halted, pts>>
        /\ frame'.last = now /\ SomeActs
    BY <1>1, FrameActs
  <2>2. CASE UNCHANGED <<lastT, pair, lastFire, events>>
    BY <2>1, <2>2, MarkStays
  <2>3. CASE ~UNCHANGED <<lastT, pair, lastFire, events>>
    <3>1. PICK live \in SUBSET Boxes, near \in BOOLEAN, vif \in BOOLEAN, touch \in BOOLEAN,
               angles \in Angles, t \in Nat, contact \in Pairs :
                 Acts(live, near, touch, angles, t, contact, vif)
      BY <2>1, <2>3 DEF SomeActs
    <3> QED
      BY <2>1, <3>1, MarkActs
  <2> QED
    BY <2>2, <2>3
<1>2. CASE FrameWhileHalted
  <2>1. frame'.last = now /\ UNCHANGED <<pts, pair, lastT, now, halted, events>>
    BY <1>2 DEF FrameWhileHalted
  <2> QED
    BY <2>1, MarkStays
<1>3. CASE StreamSilent
  <2> DEFINE e == Event("stream_silent", ClipPre, frame.last)
  <2>1. /\ events' = Append(events, e) /\ UNCHANGED <<pts, pair, lastT, now, halted>>
        /\ frame' = [frame EXCEPT !.last = now] /\ frame \in [last : Moment, warm : Moment]
        /\ frame.last # Never /\ events \in Seq(EventOf)
    BY <1>3 DEF StreamSilent, TriggerTypeOK
  <2>2. e.kind = "stream_silent" /\ e.stream = pts
    BY DEF Event
  <2>3. e \in EventOf
    <3>1. frame.last \in Nat /\ now \in Time /\ pts \in Time
      BY <2>1 DEF TriggerTypeOK, Moment, Time
    <3> QED
      BY <3>1 DEF Event, EventOf, TriggerKinds
  <2> HIDE DEF e
  <2>4. events' = events \o <<e>> /\ <<e>> \in Seq(EventOf)
    BY <2>1, <2>3, AppendIsConcat
  <2>5. EventsOf(events') = EventsOf(events) \cup EventsOf(<<e>>)
    BY <2>1, <2>4, EventsOfParts
  <2>6. EventsOf(<<e>>) = {e}
    BY DEF EventsOf
  <2>7. frame'.last = now
    BY <2>1
  <2> QED
    BY <2>1, <2>2, <2>5, <2>6, <2>7, MarkStays
<1>4. CASE Halt
  <2>1. halted' = TRUE /\ frame' = frame /\ UNCHANGED <<pts, pair, lastT, now, events>>
    BY <1>4 DEF Halt, engine
  <2> QED
    BY <2>1, MarkStays
<1>5. CASE EngineDropped
  <2>1. frame'.last = Never /\ pair' = NoContact /\ halted'
    BY <1>5 DEF EngineDropped, Fresh, NoFrame
  <2> QED
    BY <2>1 DEF MarkInv, FramesPast, ContactInOrder, SentBefore, TwoStreams, Marked, Alive
<1>6. CASE StreamRestarts
  <2>1. /\ pts = 0 /\ pts' = now /\ frame.last # Never /\ now - frame.last > 1
        /\ UNCHANGED <<now, halted, frame, pair, lastT, events>>
    BY <1>6 DEF StreamRestarts, engine
  <2>2. now > 0 /\ now \in Nat
    BY <2>1 DEF TriggerTypeOK, Moment, Time
  <2>3. Alive => \A e \in EventsOf(events) : e.stream = 0
    BY <2>1 DEF MarkInv, TwoStreams
  <2>4. (FramesPast /\ ContactInOrder)'
    BY <2>1 DEF MarkInv, FramesPast, ContactInOrder
  <2>5. Alive' => Alive /\ \A e : e \notin (OnStream)'
    BY <2>1, <2>2, <2>3 DEF Alive, OnStream
  <2>6. SentBefore'
    BY <2>5 DEF SentBefore
  <2>7. TwoStreams'
    BY <2>1, <2>3, <2>5 DEF TwoStreams
  <2>8. Marked'
    BY <2>1, <2>5 DEF MarkInv, Marked, Alive
  <2> QED
    BY <2>4, <2>6, <2>7, <2>8 DEF MarkInv
<1>7. CASE Tick
  <2>1. now' = now + 1 /\ frame' = frame /\ UNCHANGED <<pts, pair, lastT, halted, events>>
    BY <1>7 DEF Tick, engine
  <2> QED
    BY <2>1, MarkStays
<1>8. CASE UNCHANGED triggerVars
  <2>1. frame' = frame /\ UNCHANGED <<pts, pair, lastT, halted, events, now>>
    BY <1>8 DEF triggerVars
  <2> QED
    BY <2>1, MarkStays
<1> QED
  BY <1>1, <1>2, <1>3, <1>4, <1>5, <1>6, <1>7, <1>8 DEF EngineStep

(* ContactRules.evaluate, confirm and release: a contact of the pair is    *)
(* marked exactly when its event was sent, whatever the pauses between     *)
(* fights, restarts of the stream and reloads do, provided that the media  *)
(* time increases while one stream plays, as contact_rules.py asks.        *)
THEOREM MarkCorrect == ASSUME ClockIncreases PROVE ClipSpec => []MarkedIffSent
<1>1. ClipInit => ClipInv /\ MarkInv
  BY ClipInvInit, MarkInit DEF ClipInit
<1>2. ClipInv /\ MarkInv /\ [ClipNext]_clipVars => (ClipInv /\ MarkInv)'
  BY ClipInvNext, EngineMoves, MarkNext DEF ClipInv, ClipTypeOK
<1>3. MarkInv => MarkedIffSent
  BY DEF MarkInv, Marked, MarkedIffSent, OnStream, EventsOf
<1> QED
  BY <1>1, <1>2, <1>3, PTL DEF ClipSpec

(* The events of a step: they come behind those of before, at this moment  *)
(* and on this stream.                                                     *)
Grows == /\ Len(events) <= Len(events')
         /\ \A i \in 1..Len(events) : events'[i] = events[i]

NewEvent(e) ==
  /\ e.at = now /\ e.stream = pts
  /\ \/ e.kind # "vif" /\ e.pre = ClipPre
     \/ /\ e.kind = "vif" /\ e.since \in Nat
        /\ ContactInOrder => e.since <= VideoSeconds(now - pts)
        /\ e.pre = Larger(ClipPre, Smaller(MaxPre, VideoSeconds(now - pts) - e.since + Lead))

StepsEvents ==
  /\ Grows /\ (Len(events) <= MaxEvents => Len(events') <= MaxEvents)
  /\ \A e \in EventsOf(events') : e \in EventsOf(events) \/ NewEvent(e)

LEMMA MoreGrows ==
  ASSUME events \in Seq(EventOf), NEW more \in Seq(EventOf), events' = events \o more
  PROVE  Grows /\ Len(events') = Len(events) + Len(more)
<1>1. /\ Len(events) \in Nat /\ Len(more) \in Nat /\ Len(events') = Len(events) + Len(more)
      /\ \A i \in 1..(Len(events) + Len(more)) :
           events'[i] = IF i <= Len(events) THEN events[i] ELSE more[i - Len(events)]
  BY ConcatProperties
<1> QED
  BY <1>1 DEF Grows

LEMMA ActsEvents ==
  ASSUME TriggerTypeOK,
         NEW live \in SUBSET Boxes, NEW near \in BOOLEAN, NEW touch \in BOOLEAN, NEW angles,
         NEW t \in Nat, NEW contact \in Pairs, NEW vif \in BOOLEAN,
         Acts(live, near, touch, angles, t, contact, vif)
  PROVE  StepsEvents
<1> DEFINE next == AfterFrame(t, touch, contact # NoContact /\ ~FiresLate(t, touch, angles), vif)
<1>1. /\ t = VideoSeconds(now - pts)
      /\ contact \in {NoContact, ContactEvent(t, touch, angles)}
      /\ vif => contact # NoContact
      /\ events' = events \o Sent(live, near, vif, t, contact)
      /\ events \in Seq(EventOf)
  BY DEF Acts, Sends, TriggerTypeOK
<1>2. Sent(live, near, vif, t, contact) \in Seq(EventOf)
  BY <1>1, SentEvents
<1>3. Grows /\ Len(events') <= MaxEvents
  <2>1. Len(events) + Len(Sent(live, near, vif, t, contact)) <= MaxEvents
    BY DEF Acts
  <2> QED
    BY <1>1, <1>2, <2>1, MoreGrows
<1>4. ContactInOrder /\ contact # NoContact => contact.start <= t
  <2> SUFFICES ASSUME ContactInOrder, contact # NoContact PROVE contact.start <= t
    OBVIOUS
  <2>1. next = AfterFrame(t, touch, contact # NoContact /\ ~FiresLate(t, touch, angles), vif)
    OBVIOUS
  <2>2. contact \in {NoContact, ContactEvent(t, touch, angles)} /\ (vif => contact # NoContact)
    BY <1>1
  <2>3. lastT \in Nat \cup {Never} /\ pair \in Pairs
    BY DEF TriggerTypeOK
  <2> HIDE DEF next
  <2>4. NewOrKept(next, t, contact, vif)
    BY <2>1, <2>2, <2>3, PairAfter
  <2> QED
    BY <2>4 DEF NewOrKept
<1>5. ASSUME NEW e, Added(e, live, near, vif, t, contact)
      PROVE  NewEvent(e)
  <2>1. CASE vif /\ e = Event("vif", PreOf(t, contact), contact.start)
    <3>1. contact.start \in Nat
      BY <1>1, <2>1 DEF Pairs
    <3>2. /\ e.kind = "vif" /\ e.at = now /\ e.stream = pts /\ e.since = contact.start
          /\ e.pre = PreOf(t, contact)
      BY <2>1 DEF Event
    <3>3. e.pre = Larger(ClipPre, Smaller(MaxPre, t - contact.start + Lead))
      BY <3>2 DEF PreOf
    <3> QED
      BY <1>1, <1>4, <2>1, <3>1, <3>2, <3>3 DEF NewEvent
  <2>2. CASE e = Event("presence", ClipPre, presence.since) \/ e = Event("convergence", ClipPre, converge.since)
    BY <2>2 DEF NewEvent, Event
  <2> QED
    BY <1>5, <2>1, <2>2 DEF Added
<1>6. \A e : e \in EventsOf(events') => e \in EventsOf(events) \/ Added(e, live, near, vif, t, contact)
  BY <1>1, SentEvents
<1> QED
  BY <1>3, <1>5, <1>6 DEF StepsEvents

LEMMA StepEvents ==
  TriggerTypeOK /\ [EngineStep \/ Tick]_triggerVars => StepsEvents
<1> SUFFICES ASSUME TriggerTypeOK, [EngineStep \/ Tick]_triggerVars PROVE StepsEvents
  OBVIOUS
<1>1. CASE UNCHANGED events
  <2>1. Len(events) \in Nat
    BY DEF TriggerTypeOK
  <2> QED
    BY <1>1, <2>1 DEF StepsEvents, Grows
<1>2. CASE AnyFrame
  <2>1. SomeActs
    BY <1>2, FrameActs
  <2>2. CASE UNCHANGED <<lastT, pair, lastFire, events>>
    BY <1>1, <2>2
  <2>3. CASE ~UNCHANGED <<lastT, pair, lastFire, events>>
    <3>1. PICK live \in SUBSET Boxes, near \in BOOLEAN, vif \in BOOLEAN, touch \in BOOLEAN,
               angles \in Angles, t \in Nat, contact \in Pairs :
                 Acts(live, near, touch, angles, t, contact, vif)
      BY <2>1, <2>3 DEF SomeActs
    <3> QED
      BY <3>1, ActsEvents
  <2> QED
    BY <2>2, <2>3
<1>3. CASE StreamSilent
  <2> DEFINE e == Event("stream_silent", ClipPre, frame.last)
  <2>1. /\ events' = Append(events, e) /\ events \in Seq(EventOf) /\ frame.last # Never
        /\ Len(events) < MaxEvents /\ Len(events) \in Nat
    BY <1>3 DEF StreamSilent, TriggerTypeOK
  <2>2. e \in EventOf
    <3>1. frame.last \in Nat /\ now \in Time /\ pts \in Time
      BY <2>1 DEF TriggerTypeOK, Moment, Time
    <3> QED
      BY <3>1 DEF Event, EventOf, TriggerKinds
  <2>3. NewEvent(e)
    BY DEF NewEvent, Event
  <2> HIDE DEF e
  <2>4. events' = events \o <<e>> /\ <<e>> \in Seq(EventOf)
    BY <2>1, <2>2, AppendIsConcat
  <2>5. EventsOf(events') = EventsOf(events) \cup EventsOf(<<e>>)
    BY <2>1, <2>4, EventsOfParts
  <2>6. EventsOf(<<e>>) = {e}
    BY DEF EventsOf
  <2>7. Grows /\ Len(events') = Len(events) + 1
    BY <2>1, <2>4, MoreGrows
  <2> QED
    BY <2>1, <2>3, <2>5, <2>6, <2>7 DEF StepsEvents
<1> QED
  BY <1>1, <1>2, <1>3
     DEF EngineStep, FrameWhileHalted, Halt, EngineDropped, StreamRestarts, Tick, triggerVars

-----------------------------------------------------------------------------
(* How far back the clip of an event begins.                               *)
PreBounded ==
  \A e \in EventsOf(events) : ClipPre <= e.pre /\ e.pre <= Larger(ClipPre, MaxPre)

LEMMA PreInit == TriggerInit => EventsOf(events) = {}
BY DEF TriggerInit, EventsOf

LEMMA PreNext ==
  TriggerTypeOK /\ PreBounded /\ [EngineStep \/ Tick]_triggerVars => PreBounded'
<1> SUFFICES ASSUME TriggerTypeOK, PreBounded, StepsEvents, NEW e \in EventsOf(events')
             PROVE  ClipPre <= e.pre /\ e.pre <= Larger(ClipPre, MaxPre)
  BY StepEvents DEF PreBounded
<1>1. CASE e \in EventsOf(events)
  BY <1>1 DEF PreBounded
<1>2. CASE e \notin EventsOf(events)
  <2>1. NewEvent(e)
    BY <1>2 DEF StepsEvents
  <2>2. CASE e.pre = ClipPre
    BY <2>2 DEF Larger
  <2>3. CASE e.kind = "vif"
    <3> DEFINE d == VideoSeconds(now - pts) - e.since + Lead
    <3>1. now - pts \in Nat
      BY DEF TriggerTypeOK, Time
    <3>2. VideoSeconds(now - pts) \in Nat /\ e.since \in Nat
      BY <2>1, <2>3, <3>1, VideoSecondsType DEF NewEvent
    <3> HIDE DEF VideoSeconds
    <3>3. d \in Int
      BY <3>2
    <3>4. e.pre = Larger(ClipPre, Smaller(MaxPre, d))
      BY <2>1, <2>3 DEF NewEvent
    <3> HIDE DEF d
    <3> QED
      BY <3>3, <3>4 DEF Larger, Smaller
  <2> QED
    BY <2>1, <2>2, <2>3 DEF NewEvent
<1> QED
  BY <1>1, <1>2

(* Seconds of media time are seconds of the clock, so that the age of a    *)
(* contact is known and its clip can reach back to it.                     *)
SecondsClock == \A s \in Nat : VideoSeconds(s) = s

LEMMA SecondsIncrease == SecondsClock => ClockIncreases
BY DEF SecondsClock, ClockIncreases

PreReaches ==
  \A e \in EventsOf(events) :
    e.kind = "vif" =>
      /\ e.since \in Nat /\ e.since + e.stream <= e.at
      /\ e.at - (e.since + e.stream) + Lead <= MaxPre =>
           e.pre >= e.at - (e.since + e.stream) + Lead

LEMMA ReachNext ==
  ASSUME SecondsClock
  PROVE  TriggerTypeOK /\ ContactInOrder /\ PreReaches /\ [EngineStep \/ Tick]_triggerVars
           => PreReaches'
<1> SUFFICES ASSUME TriggerTypeOK, ContactInOrder, PreReaches, StepsEvents,
                    NEW e \in EventsOf(events'), e.kind = "vif"
             PROVE  /\ e.since \in Nat /\ e.since + e.stream <= e.at
                    /\ e.at - (e.since + e.stream) + Lead <= MaxPre =>
                         e.pre >= e.at - (e.since + e.stream) + Lead
  BY StepEvents DEF PreReaches
<1>1. CASE e \in EventsOf(events)
  BY <1>1 DEF PreReaches
<1>2. CASE e \notin EventsOf(events)
  <2>1. now \in Nat /\ pts \in Nat /\ now - pts \in Nat
    BY DEF TriggerTypeOK, Time
  <2>2. VideoSeconds(now - pts) = now - pts
    BY <2>1 DEF SecondsClock
  <2>3. /\ e.at = now /\ e.stream = pts /\ e.since \in Nat
        /\ e.since <= now - pts
        /\ e.pre = Larger(ClipPre, Smaller(MaxPre, now - pts - e.since + Lead))
    BY <1>2, <2>2 DEF StepsEvents, NewEvent
  <2> QED
    BY <2>1, <2>3 DEF Larger, Smaller
<1> QED
  BY <1>1, <1>2

LEMMA RingTypes ==
  /\ SegmentS \in Nat /\ SegmentS > 0 /\ MarginS \in Nat /\ KeepS \in Nat
  /\ Recorded \in Nat /\ MaxOutages \in Nat
BY ClipAssumption

USE RingTypes

-----------------------------------------------------------------------------
(* The inductive invariant of the ring: as long as the recorder did not    *)
(* fail, every second that it finished and the collector may not take yet  *)
(* is in a segment.                                                        *)
Shown(segs, s) == \E m \in segs : m - SegmentS < s /\ s <= m
Covered ==
  outages = 0 =>
    /\ opened \in Int /\ opened <= now /\ now - opened < SegmentS
    /\ \A s \in Int : s <= opened /\ s >= now - KeepS /\ s >= -Recorded => Shown(segments, s)

(* The segment of a second, counted back from the newest one.              *)
LEMMA SegmentOf ==
  ASSUME NEW d \in Nat
  PROVE  \E n \in 0..d : n * SegmentS <= d /\ d < n * SegmentS + SegmentS
<1> DEFINE n == d \div SegmentS
<1>1. n \in Int /\ n * SegmentS <= d /\ d < n * SegmentS + SegmentS
  OBVIOUS
<1>2. n >= 0 /\ n <= d
  OBVIOUS
<1> HIDE DEF n
<1> QED
  BY <1>1, <1>2

LEMMA CoveredInit == ClipInit => Covered
<1> SUFFICES ASSUME ClipInit PROVE Covered
  OBVIOUS
<1>1. /\ opened \in (1 - SegmentS)..0 /\ now = 0 /\ outages = 0
      /\ segments = RingAt(opened)
  BY DEF ClipInit, TriggerInit
<1>2. ASSUME NEW s \in Int, s <= opened, s >= -Recorded
      PROVE  Shown(segments, s)
  <2>1. opened - s \in Nat
    BY <1>1, <1>2
  <2>2. PICK n \in 0..(opened - s) : n * SegmentS <= opened - s /\ opened - s < n * SegmentS + SegmentS
    BY <2>1, SegmentOf
  <2> DEFINE m == opened - n * SegmentS
  <2>3. m \in Int /\ n * SegmentS \in Nat
    <3>1. ASSUME NEW a \in Nat, NEW b \in Nat PROVE a * b \in Nat
      OBVIOUS
    <3> QED
      BY <1>1, <2>1, <2>2, <3>1
  <2>4. s <= m /\ m - SegmentS < s /\ m <= opened /\ opened - m = n * SegmentS
    BY <1>1, <1>2, <2>2, <2>3
  <2>5. n \in 0..Recorded /\ m \in (-Recorded)..opened
    BY <1>1, <1>2, <2>1, <2>2, <2>3, <2>4
  <2> HIDE DEF m
  <2>6. m \in segments
    BY <1>1, <2>4, <2>5 DEF RingAt
  <2> QED
    BY <2>4, <2>6 DEF Shown
<1> QED
  BY <1>1, <1>2 DEF Covered

LEMMA CoveredNext == ClipTypeOK /\ Covered /\ [ClipNext]_clipVars => Covered'
<1> SUFFICES ASSUME ClipTypeOK, Covered, [ClipNext]_clipVars PROVE Covered'
  OBVIOUS
<1>1. now \in Nat /\ outages \in Nat /\ segments \subseteq Int
  BY DEF ClipTypeOK, TriggerTypeOK, Time
<1>2. CASE UNCHANGED <<now, opened, outages, segments>>
  BY <1>2 DEF Covered
<1>3. CASE ClipTick
  <2>1. /\ now' = now + 1 /\ outages' = outages
        /\ opened # Never /\ now' - opened = SegmentS => opened' = now' /\ segments' = segments \cup {now'}
        /\ ~(opened # Never /\ now' - opened = SegmentS) => opened' = opened /\ segments' = segments
    BY <1>3 DEF ClipTick, Tick
  <2> SUFFICES ASSUME outages = 0
               PROVE  /\ opened' \in Int /\ opened' <= now' /\ now' - opened' < SegmentS
                      /\ \A s \in Int : s <= opened' /\ s >= now' - KeepS /\ s >= -Recorded => Shown(segments', s)
    BY <2>1 DEF Covered
  <2>2. /\ opened \in Int /\ opened <= now /\ now - opened < SegmentS /\ opened # Never
        /\ \A s \in Int : s <= opened /\ s >= now - KeepS /\ s >= -Recorded => Shown(segments, s)
    BY DEF Covered
  <2>3. segments \subseteq segments'
    BY <2>1
  <2>4. ASSUME NEW s \in Int, s <= opened, s >= now' - KeepS, s >= -Recorded
        PROVE  Shown(segments', s)
    <3>1. Shown(segments, s)
      BY <1>1, <2>1, <2>2, <2>4
    <3> QED
      BY <2>3, <3>1 DEF Shown
  <2>5. CASE now' - opened = SegmentS
    <3>1. opened' = now' /\ now' \in segments' /\ now' \in Int
      BY <1>1, <2>1, <2>2, <2>5
    <3>2. ASSUME NEW s \in Int, s <= now', s > opened
          PROVE  Shown(segments', s)
      <4>1. now' - SegmentS < s /\ s <= now'
        BY <1>1, <2>1, <2>2, <2>5, <3>2
      <4> QED
        BY <3>1, <4>1 DEF Shown
    <3> QED
      BY <1>1, <2>1, <2>2, <2>4, <3>1, <3>2
  <2>6. CASE now' - opened # SegmentS
    BY <1>1, <2>1, <2>2, <2>4, <2>6
  <2> QED
    BY <2>5, <2>6
<1>4. CASE RecorderFails
  <2>1. outages' # 0
    BY <1>1, <1>4 DEF RecorderFails
  <2> QED
    BY <2>1 DEF Covered
<1>5. CASE RecorderReturns
  <2>1. outages' = outages /\ opened = Never
    BY <1>5 DEF RecorderReturns
  <2> QED
    BY <2>1 DEF Covered
<1>6. CASE CollectGarbage
  <2>1. UNCHANGED <<now, opened, outages>> /\ segments' = segments \ Old
    BY <1>6 DEF CollectGarbage, triggerVars
  <2>2. ASSUME NEW s \in Int, s >= now - KeepS, Shown(segments, s)
        PROVE  Shown(segments', s)
    <3>1. PICK m \in segments : m - SegmentS < s /\ s <= m
      BY <2>2 DEF Shown
    <3>2. m \notin Old
      BY <1>1, <2>2, <3>1 DEF Old
    <3> QED
      BY <2>1, <3>1, <3>2 DEF Shown
  <2> QED
    BY <2>1, <2>2 DEF Covered
<1>7. CASE EngineStep /\ UNCHANGED <<ringVars, jobs>>
  <2>1. UNCHANGED now
    <3>1. AnyFrame => UNCHANGED now
      BY FrameActs DEF ClipTypeOK
    <3> QED
      BY <1>7, <3>1
         DEF EngineStep, FrameWhileHalted, StreamSilent, Halt, EngineDropped, StreamRestarts
  <2> QED
    BY <1>2, <1>7, <2>1 DEF ringVars
<1>8. CASE ClipStep
  BY <1>2, <1>8 DEF ClipStep, DirectoryMissing, ListSegments, Concat, ringVars, triggerVars
<1>9. CASE UNCHANGED clipVars
  BY <1>2, <1>9 DEF clipVars, ringVars, triggerVars
<1> QED
  BY <1>3, <1>4, <1>5, <1>6, <1>7, <1>8, <1>9 DEF ClipNext, RingStep

(* The ring was recorded for long enough to hold the first window, and a   *)
(* segment that begins in a window is finished before its margin ends.     *)
RingReaches == Larger(ClipPre, MaxPre) <= Recorded + 1
SegmentFits == SegmentS <= ClipPre + ClipPost + MarginS

(* What the segments of a clip show, and what remains of them on disk.     *)
WindowShown(e, job) ==
  job.when - KeepS <= StartTs(e) =>
    \A s \in (StartTs(e) + 1)..(EndTs(e) - EdgeLoss) : Shown(job.segs, s)
OnDisk(e, job, segs, time) ==
  \A m \in job.segs : StartTs(e) - MarginS <= m /\ (m \in segs \/ m < time - KeepS)
Missed(e, time) == time - KeepS > StartTs(e) - MarginS

JobSound(i, e) ==
  /\ jobs[i].at # "wait" => i \in 1..Len(events)
  /\ jobs[i].at \in {"cut", "done"} /\ outages = 0 => WindowShown(e, jobs[i])
  /\ jobs[i].at = "cut" => OnDisk(e, jobs[i], segments, now)
  /\ jobs[i].at = "failed" /\ outages = 0 /\ ring \in {"own", "shared"} /\ SegmentFits => Missed(e, now)
JobInv == \A i \in Slots : JobSound(i, events[i])

(* A second of the window that is old enough to be finished and not yet    *)
(* for the collector is in a segment that the worker lists.                *)
LEMMA SecondListed ==
  ASSUME RingReaches, ClipTypeOK, Covered, PreBounded, outages = 0, ring \in {"own", "shared"},
         NEW e \in EventsOf(events), now >= WaitUntil(e),
         NEW s \in Int, StartTs(e) < s, s <= EndTs(e) + 2, s - 1 + SegmentS <= EndTs(e) + MarginS,
         now - KeepS <= s
  PROVE  Shown(SegmentsInWindow(e), s)
<1>1. now \in Nat /\ segments \subseteq Int /\ e.at \in Nat /\ e.pre \in Nat
  <2>1. e \in EventOf
    BY DEF ClipTypeOK, TriggerTypeOK, EventsOf
  <2> QED
    BY <2>1 DEF ClipTypeOK, TriggerTypeOK, Time, EventOf
<1>2. StartTs(e) \in Int /\ EndTs(e) \in Int /\ StartTs(e) >= -e.pre
  BY <1>1 DEF StartTs, EndTs
<1>3. e.pre <= Recorded + 1
  <2>1. Larger(ClipPre, MaxPre) \in Nat /\ e.pre <= Larger(ClipPre, MaxPre)
    BY DEF PreBounded, Larger
  <2> QED
    BY <1>1, <2>1 DEF RingReaches
<1>4. s >= -Recorded
  BY <1>1, <1>2, <1>3
<1>5. opened \in Int /\ s <= opened
  <2>1. opened \in Int /\ now - opened < SegmentS /\ now >= EndTs(e) + SegmentS + 1
    BY DEF Covered, WaitUntil
  <2> QED
    BY <1>1, <1>2, <2>1
<1>6. PICK m \in segments : m - SegmentS < s /\ s <= m
  BY <1>4, <1>5 DEF Covered, Shown
<1>7. m \in SegmentsInWindow(e)
  <2>1. m \in InDirectory
    BY <1>6 DEF InDirectory
  <2>2. m \in Int /\ StartTs(e) - MarginS <= m /\ m <= EndTs(e) + MarginS
    BY <1>1, <1>2, <1>6
  <2> QED
    BY <2>1, <2>2 DEF SegmentsInWindow
<1> QED
  BY <1>6, <1>7 DEF Shown

LEMMA WindowListed ==
  ASSUME RingReaches, ClipTypeOK, Covered, PreBounded, outages = 0, ring \in {"own", "shared"},
         NEW e \in EventsOf(events), now >= WaitUntil(e),
         NEW job, job.when = now, job.segs = SegmentsInWindow(e)
  PROVE  WindowShown(e, job)
<1>1. now \in Nat /\ e.at \in Nat /\ e.pre \in Nat
  <2>1. e \in EventOf
    BY DEF ClipTypeOK, TriggerTypeOK, EventsOf
  <2> QED
    BY <2>1 DEF ClipTypeOK, TriggerTypeOK, Time, EventOf
<1>2. StartTs(e) \in Int /\ EndTs(e) \in Int
  BY <1>1 DEF StartTs, EndTs
<1>3. EdgeLoss \in Nat /\ EdgeLoss >= SegmentS - MarginS
  BY DEF EdgeLoss, Larger
<1> SUFFICES ASSUME now - KeepS <= StartTs(e), NEW s \in (StartTs(e) + 1)..(EndTs(e) - EdgeLoss)
             PROVE  Shown(SegmentsInWindow(e), s)
  BY DEF WindowShown
<1>4. /\ s \in Int /\ StartTs(e) < s /\ s <= EndTs(e) + 2 /\ s - 1 + SegmentS <= EndTs(e) + MarginS
      /\ now - KeepS <= s
  BY <1>1, <1>2, <1>3
<1> QED
  BY <1>4, SecondListed

(* The listing is empty only when the ring does not hold the window, or    *)
(* the first of it may be gone.                                            *)
LEMMA EmptyMissed ==
  ASSUME RingReaches, SegmentFits, ClipTypeOK, Covered, PreBounded, outages = 0,
         ring \in {"own", "shared"},
         NEW e \in EventsOf(events), now >= WaitUntil(e), SegmentsInWindow(e) = {}
  PROVE  Missed(e, now)
<1>1. now \in Nat /\ e.at \in Nat /\ e.pre \in Nat /\ ClipPre <= e.pre
  <2>1. e \in EventOf
    BY DEF ClipTypeOK, TriggerTypeOK, EventsOf
  <2> QED
    BY <2>1 DEF ClipTypeOK, TriggerTypeOK, Time, EventOf, PreBounded
<1>2. StartTs(e) \in Int /\ EndTs(e) = StartTs(e) + e.pre + ClipPost
  BY <1>1 DEF StartTs, EndTs
<1> SUFFICES ASSUME now - KeepS <= StartTs(e) - MarginS PROVE FALSE
  BY <1>1, <1>2 DEF Missed
<1> DEFINE s == StartTs(e) + 1
<1>3. /\ s \in Int /\ StartTs(e) < s /\ s <= EndTs(e) + 2 /\ s - 1 + SegmentS <= EndTs(e) + MarginS
      /\ now - KeepS <= s
  BY <1>1, <1>2 DEF SegmentFits
<1> HIDE DEF s
<1>4. Shown(SegmentsInWindow(e), s)
  BY <1>3, SecondListed
<1> QED
  BY <1>4 DEF Shown

-----------------------------------------------------------------------------
(* The jobs keep what they have while the others go on.                    *)
LEMMA JobsStay ==
  ASSUME ClipTypeOK, JobInv, Grows, UNCHANGED <<jobs, ring>>,
         outages' = 0 => outages = 0, now' \in {now, now + 1},
         \A m \in segments : m \in segments' \/ m < now - KeepS
  PROVE  JobInv'
<1>1. now \in Nat /\ now' \in Nat /\ now <= now' /\ segments \subseteq Int /\ Len(events) \in Nat
      /\ events \in Seq(EventOf)
      /\ jobs \in [Slots -> [at : Places, segs : SUBSET Int, when : Moment]]
  BY DEF ClipTypeOK, TriggerTypeOK, Time
<1> SUFFICES ASSUME NEW i \in Slots, NEW e, e = events'[i]
             PROVE  JobSound(i, e)'
  BY DEF JobInv
<1>2. JobSound(i, events[i])
  BY DEF JobInv
<1>3. CASE jobs[i].at = "wait"
  BY <1>3 DEF JobSound
<1>4. CASE jobs[i].at # "wait"
  <2>1. i \in 1..Len(events) /\ i \in 1..Len(events')
    BY <1>1, <1>2, <1>4 DEF JobSound, Grows
  <2>2. e = events[i] /\ e \in EventOf
    BY <1>1, <2>1 DEF Grows
  <2>3. StartTs(e) \in Int
    BY <2>2 DEF StartTs, EventOf, Time
  <2>4. OnDisk(e, jobs[i], segments, now) => OnDisk(e, jobs[i], segments', now')
    <3> SUFFICES ASSUME OnDisk(e, jobs[i], segments, now), NEW m \in jobs[i].segs
                 PROVE  StartTs(e) - MarginS <= m /\ (m \in segments' \/ m < now' - KeepS)
      BY DEF OnDisk
    <3>1. StartTs(e) - MarginS <= m /\ (m \in segments \/ m < now - KeepS) /\ m \in Int
      BY <1>1 DEF OnDisk
    <3>2. now \in Nat /\ now' \in Nat /\ now <= now' /\ m \in Int
      BY <1>1, <3>1
    <3>3. m < now - KeepS => m < now' - KeepS
      BY <3>2
    <3> QED
      BY <3>1, <3>3
  <2>5. Missed(e, now) => Missed(e, now')
    BY <1>1, <2>3 DEF Missed
  <2> QED
    BY <1>2, <2>1, <2>2, <2>4, <2>5 DEF JobSound
<1> QED
  BY <1>3, <1>4

(* A worker's step changes its own job.                                    *)
LEMMA JobMoves ==
  ASSUME ClipTypeOK, JobInv, UNCHANGED <<triggerVars, ringVars>>, NEW i \in Slots,
         i \in 1..Len(events), NEW job, jobs' = [jobs EXCEPT ![i] = job],
         job.at \in {"cut", "done"} /\ outages = 0 => WindowShown(events[i], job),
         job.at = "cut" => OnDisk(events[i], job, segments, now),
         job.at = "failed" /\ outages = 0 /\ ring \in {"own", "shared"} /\ SegmentFits => Missed(events[i], now)
  PROVE  JobInv'
<1>1. /\ UNCHANGED <<events, outages, segments, now, ring>>
      /\ jobs \in [Slots -> [at : Places, segs : SUBSET Int, when : Moment]]
  BY DEF ClipTypeOK, triggerVars, ringVars
<1> SUFFICES ASSUME NEW k \in Slots, NEW e, e = events'[k]
             PROVE  JobSound(k, e)'
  BY DEF JobInv
<1>2. e = events[k]
  BY <1>1
<1>3. CASE k = i
  BY <1>1, <1>2, <1>3 DEF JobSound
<1>4. CASE k # i
  <2>1. JobSound(k, e) /\ jobs'[k] = jobs[k]
    BY <1>1, <1>2, <1>4 DEF JobInv
  <2> QED
    BY <1>1, <2>1 DEF JobSound
<1> QED
  BY <1>3, <1>4

LEMMA JobsInit == ClipInit => JobInv
BY DEF ClipInit, JobInv, JobSound, Idle, Slots

LEMMA JobsNext ==
  ASSUME RingReaches
  PROVE  ClipTypeOK /\ Covered /\ PreBounded /\ JobInv /\ [ClipNext]_clipVars => JobInv'
<1> SUFFICES ASSUME ClipTypeOK, Covered, PreBounded, JobInv, [ClipNext]_clipVars PROVE JobInv'
  OBVIOUS
<1>1. TriggerTypeOK /\ now \in Nat /\ outages \in Nat /\ segments \subseteq Int
      /\ jobs \in [Slots -> [at : Places, segs : SUBSET Int, when : Moment]]
  BY DEF ClipTypeOK, TriggerTypeOK, Time
<1>2. Grows
  <2>1. StepsEvents
    BY <1>1, EngineMoves, StepEvents
  <2> QED
    BY <2>1 DEF StepsEvents
<1>3. CASE EngineStep /\ UNCHANGED <<ringVars, jobs>>
  <2>1. UNCHANGED now
    <3>1. AnyFrame => UNCHANGED now
      BY <1>1, FrameActs
    <3> QED
      BY <1>3, <3>1
         DEF EngineStep, FrameWhileHalted, StreamSilent, Halt, EngineDropped, StreamRestarts
  <2> QED
    BY <1>2, <1>3, <2>1, JobsStay DEF ringVars
<1>4. CASE ClipTick
  <2>1. now' = now + 1 /\ UNCHANGED <<ring, outages, jobs>> /\ segments \subseteq segments'
    BY <1>4 DEF ClipTick, Tick
  <2> QED
    BY <1>2, <2>1, JobsStay
<1>5. CASE RecorderFails
  <2>1. outages' # 0 /\ UNCHANGED <<now, ring, segments, jobs>>
    BY <1>1, <1>5 DEF RecorderFails, triggerVars
  <2> QED
    BY <1>2, <2>1, JobsStay
<1>6. CASE RecorderReturns
  <2>1. UNCHANGED <<now, ring, outages, segments, jobs>>
    BY <1>6 DEF RecorderReturns, triggerVars
  <2> QED
    BY <1>2, <2>1, JobsStay
<1>7. CASE CollectGarbage
  <2>1. UNCHANGED <<now, ring, outages, jobs>> /\ segments' = segments \ Old
    BY <1>7 DEF CollectGarbage, triggerVars
  <2>2. \A m \in segments : m \in segments' \/ m < now - KeepS
    BY <2>1 DEF Old
  <2> QED
    BY <1>2, <2>1, <2>2, JobsStay
<1>8. ASSUME NEW i \in Slots, DirectoryMissing(i) PROVE JobInv'
  <2>1. /\ i \in 1..Len(events) /\ ring = "missing" /\ UNCHANGED <<triggerVars, ringVars>>
        /\ jobs' = [jobs EXCEPT ![i].at = "failed"]
    BY <1>8 DEF DirectoryMissing, Job
  <2> DEFINE job == [jobs[i] EXCEPT !.at = "failed"]
  <2>2. jobs' = [jobs EXCEPT ![i] = job] /\ job.at = "failed"
    BY <1>1, <2>1
  <2> HIDE DEF job
  <2> QED
    BY <1>1, <2>1, <2>2, JobMoves
<1>9. ASSUME NEW i \in Slots, ListSegments(i) PROVE JobInv'
  <2> DEFINE e    == events[i]
             segs == SegmentsInWindow(e)
             job  == [at |-> IF segs = {} THEN "failed" ELSE "cut", segs |-> segs, when |-> now]
  <2>1. /\ i \in 1..Len(events) /\ now >= WaitUntil(e) /\ UNCHANGED <<triggerVars, ringVars>>
        /\ jobs' = [jobs EXCEPT ![i] = job]
    BY <1>9 DEF ListSegments, Job
  <2>2. e \in EventsOf(events) /\ e \in EventOf
    BY <1>1, <2>1 DEF EventsOf, TriggerTypeOK
  <2>3. /\ job.at = IF segs = {} THEN "failed" ELSE "cut"
        /\ job.segs = segs /\ job.when = now
    OBVIOUS
  <2>4. segs # {} => ring \in {"own", "shared"}
    BY DEF SegmentsInWindow, InDirectory
  <2>5. \A m \in segs : StartTs(e) - MarginS <= m /\ m \in segments
    BY DEF SegmentsInWindow, InDirectory
  <2> HIDE DEF e, segs, job
  <2>6. job.at \in {"cut", "done"} /\ outages = 0 => WindowShown(e, job)
    BY <2>1, <2>2, <2>3, <2>4, WindowListed DEF segs
  <2>7. job.at = "cut" => OnDisk(e, job, segments, now)
    BY <2>3, <2>5 DEF OnDisk
  <2>8. job.at = "failed" /\ outages = 0 /\ ring \in {"own", "shared"} /\ SegmentFits => Missed(e, now)
    BY <2>1, <2>2, <2>3, EmptyMissed DEF segs
  <2> QED
    BY <2>1, <2>6, <2>7, <2>8, JobMoves DEF e
<1>10. ASSUME NEW i \in Slots, Concat(i) PROVE JobInv'
  <2> DEFINE e   == events[i]
             job == [jobs[i] EXCEPT !.at = IF jobs[i].segs \subseteq segments THEN "done" ELSE "failed"]
  <2>1. /\ i \in 1..Len(events) /\ jobs[i].at = "cut" /\ UNCHANGED <<triggerVars, ringVars>>
        /\ jobs' = [jobs EXCEPT ![i] = job]
    BY <1>1, <1>10 DEF Concat, Job
  <2>2. /\ job.at = IF jobs[i].segs \subseteq segments THEN "done" ELSE "failed"
        /\ job.segs = jobs[i].segs /\ job.when = jobs[i].when /\ jobs[i].segs \subseteq Int
    BY <1>1
  <2>3. /\ outages = 0 => WindowShown(e, jobs[i])
        /\ OnDisk(e, jobs[i], segments, now)
    BY <2>1 DEF JobInv, JobSound
  <2>4. e \in EventOf
    BY <1>1, <2>1 DEF TriggerTypeOK
  <2>5. StartTs(e) \in Int
    BY <2>4 DEF StartTs, EventOf, Time
  <2> HIDE DEF e, job
  <2>6. outages = 0 => WindowShown(e, job)
    BY <2>2, <2>3 DEF WindowShown
  <2>7. job.at = "failed" => Missed(e, now)
    <3> SUFFICES ASSUME job.at = "failed" PROVE Missed(e, now)
      OBVIOUS
    <3>1. PICK m \in jobs[i].segs : m \notin segments
      BY <2>2
    <3>2. m \in Int /\ StartTs(e) - MarginS <= m /\ m < now - KeepS
      BY <2>2, <2>3, <3>1 DEF OnDisk
    <3> QED
      BY <1>1, <2>5, <3>2 DEF Missed
  <2>8. job.at # "cut"
    BY <2>2
  <2> QED
    BY <2>1, <2>6, <2>7, <2>8, JobMoves DEF e
<1>11. CASE UNCHANGED clipVars
  <2>1. UNCHANGED <<now, ring, outages, segments, jobs>>
    BY <1>11 DEF clipVars, triggerVars, ringVars
  <2> QED
    BY <1>2, <2>1, JobsStay
<1> QED
  BY <1>3, <1>4, <1>5, <1>6, <1>7, <1>8, <1>9, <1>10, <1>11 DEF ClipNext, RingStep, ClipStep

(* All of it together.                                                     *)
CutInv == ClipInv /\ Covered /\ PreBounded /\ JobInv /\ Len(events) <= MaxEvents

LEMMA CutInit == ClipInit => CutInv
<1> SUFFICES ASSUME ClipInit PROVE CutInv
  OBVIOUS
<1>1. PreBounded /\ Len(events) <= MaxEvents
  BY PreInit DEF ClipInit, TriggerInit, PreBounded
<1> QED
  BY <1>1, ClipInvInit, CoveredInit, JobsInit DEF CutInv

LEMMA CutNext ==
  ASSUME RingReaches
  PROVE  CutInv /\ [ClipNext]_clipVars => CutInv'
<1> SUFFICES ASSUME CutInv, [ClipNext]_clipVars PROVE CutInv'
  OBVIOUS
<1>1. ClipInv /\ ClipTypeOK /\ TriggerTypeOK /\ Covered /\ PreBounded /\ JobInv
  BY DEF CutInv, ClipInv, ClipTypeOK
<1>2. Len(events') <= MaxEvents
  <2>1. StepsEvents
    BY <1>1, EngineMoves, StepEvents
  <2> QED
    BY <2>1 DEF StepsEvents, CutInv
<1> QED
  BY <1>1, <1>2, ClipInvNext, CoveredNext, EngineMoves, PreNext, JobsNext DEF CutInv

LEMMA DoneShows ==
  ASSUME CutInv, NEW i \in 1..Len(events), Job(i, "done"), outages = 0, Prompt(i)
  PROVE  \A s \in (StartTs(events[i]) + 1)..(EndTs(events[i]) - EdgeLoss) : Shows(i, s)
<1>1. i \in Slots /\ jobs[i].at = "done"
  <2>1. jobs[i].at = "done"
    BY DEF Job
  <2>2. Len(events) \in Nat /\ Len(events) <= MaxEvents
    BY DEF CutInv, ClipInv, ClipTypeOK, TriggerTypeOK
  <2> QED
    BY <2>1, <2>2 DEF Slots
<1> QED
  BY <1>1 DEF CutInv, JobInv, JobSound, WindowShown, Shown, Shows, Prompt

LEMMA FailedMissed ==
  ASSUME SegmentFits, CutInv, NEW i \in 1..Len(events), Job(i, "failed"), ring \in {"own", "shared"}, outages = 0
  PROVE  Missed(events[i], now)
<1>1. i \in Slots /\ jobs[i].at = "failed"
  <2>1. jobs[i].at = "failed"
    BY DEF Job
  <2>2. Len(events) \in Nat /\ Len(events) <= MaxEvents
    BY DEF CutInv, ClipInv, ClipTypeOK, TriggerTypeOK
  <2> QED
    BY <2>1, <2>2 DEF Slots
<1> QED
  BY <1>1 DEF CutInv, JobInv, JobSound

(* build_clip_from_payload: the clip of an event whose recorder did not    *)
(* fail shows every second of its window, but what the margin cuts off at  *)
(* the end, provided that the ring was recorded for the longest window     *)
(* when the engine started.                                                *)
THEOREM WindowCorrect ==
  ASSUME RingReaches PROVE ClipSpec => []ClipShowsWindow
<1>1. CutInv => ClipShowsWindow
  BY DoneShows DEF ClipShowsWindow
<1> QED
  BY <1>1, CutInit, CutNext, PTL DEF ClipSpec

(* A prompt worker gets its clip: the ring holds every window until the    *)
(* clip has been joined.                                                   *)
THEOREM PromptCorrect ==
  ASSUME RingReaches, SegmentFits PROVE ClipSpec => []PromptEventGetsClip
<1>1. CutInv => PromptEventGetsClip
  BY FailedMissed DEF PromptEventGetsClip, Missed
<1> QED
  BY <1>1, CutInit, CutNext, PTL DEF ClipSpec

(* The end of the window that the margin cuts off is after the event.      *)
EdgeInClip == EdgeLoss <= ClipPost

LEMMA SecondsInWindow ==
  ASSUME NEW e \in EventOf, NEW b \in Nat, b <= e.at, e.pre >= e.at - b + Lead,
         EdgeLoss <= ClipPost, NEW s \in (b - Lead + 1)..b
  PROVE  s \in (StartTs(e) + 1)..(EndTs(e) - EdgeLoss)
<1>1. ASSUME NEW at \in Nat, NEW pre \in Nat, NEW loss \in Nat,
             b <= at, pre >= at - b + Lead, loss <= ClipPost
      PROVE  s \in (at - pre + 1)..(at + ClipPost - loss)
  BY <1>1
<1>2. e.at \in Nat /\ e.pre \in Nat /\ EdgeLoss \in Nat
  BY DEF EventOf, Time, EdgeLoss, Larger
<1>3. StartTs(e) = e.at - e.pre /\ EndTs(e) = e.at + ClipPost
  BY DEF StartTs, EndTs
<1> QED
  BY <1>1, <1>2, <1>3

(* PreOf: the clip of a contact that the ring can still hold begins Lead   *)
(* before the contact, also for a late event or one that met the pause.    *)
THEOREM ContactCorrect ==
  ASSUME RingReaches, SecondsClock, EdgeInClip
  PROVE  ClipSpec => []ClipShowsContact
<1> DEFINE Inv == CutInv /\ MarkInv /\ PreReaches
<1>1. ClipInit => Inv
  <2>1. ClipInit => PreReaches
    BY PreInit DEF ClipInit, PreReaches
  <2> QED
    BY <2>1, CutInit, MarkInit DEF ClipInit
<1>2. Inv /\ [ClipNext]_clipVars => Inv'
  <2> SUFFICES ASSUME Inv, [ClipNext]_clipVars PROVE Inv'
    OBVIOUS
  <2>1. TriggerTypeOK /\ ContactInOrder
    BY DEF CutInv, ClipInv, ClipTypeOK, MarkInv
  <2>2. CutInv'
    BY CutNext
  <2>3. MarkInv'
    BY <2>1, EngineMoves, MarkNext, SecondsIncrease
  <2>4. PreReaches'
    BY <2>1, EngineMoves, ReachNext
  <2> QED
    BY <2>2, <2>3, <2>4
<1>3. Inv => ClipShowsContact
  <2> DEFINE Begin(e) == e.since + e.stream
  <2> SUFFICES ASSUME Inv, NEW i \in 1..Len(events),
                      Job(i, "done"), events[i].kind = "vif", outages = 0, Prompt(i),
                      events[i].at - Begin(events[i]) + Lead <= MaxPre
               PROVE  \A s \in (Begin(events[i]) - Lead + 1)..Begin(events[i]) : Shows(i, s)
    BY DEF ClipShowsContact
  <2> DEFINE e == events[i]
             b == Begin(e)
  <2>1. e \in EventsOf(events) /\ e \in EventOf
    BY DEF EventsOf, CutInv, ClipInv, ClipTypeOK, TriggerTypeOK
  <2>2. /\ b \in Nat /\ b <= e.at /\ e.pre >= e.at - b + Lead
        /\ e.at \in Nat /\ e.pre \in Nat
    BY <2>1 DEF PreReaches, EventOf, Time
  <2>3. EdgeLoss <= ClipPost
    BY DEF EdgeInClip
  <2> HIDE DEF e, b
  <2>4. ASSUME NEW s \in (b - Lead + 1)..b
        PROVE  s \in (StartTs(e) + 1)..(EndTs(e) - EdgeLoss)
    BY <2>1, <2>2, <2>3, SecondsInWindow
  <2>5. \A s \in (StartTs(e) + 1)..(EndTs(e) - EdgeLoss) : Shows(i, s)
    BY DoneShows DEF e
  <2> QED
    BY <2>4, <2>5 DEF e, b
<1> QED
  BY <1>1, <1>2, <1>3, PTL DEF ClipSpec
=============================================================================
