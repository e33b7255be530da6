----------------------------- MODULE Triggers -----------------------------
(***************************************************************************)
(* The trigger engine of one camera (ds/triggers.py), with the filter of   *)
(* still boxes (ds/static_filter.py) and the contact rules of one pair     *)
(* (ds/contact_rules.py).  The probe thread gives it every frame; the      *)
(* watchdog thread looks for a silent stream; a reload raises the halt.    *)
(*                                                                         *)
(* The camera sees two boxes: a poster, which never moves, and a kid.  How *)
(* joint angles are measured is abstracted to what the rules make of them: *)
(* all conditions met, one of them low, or none low but one never          *)
(* measured.  Time is a count of ticks.                                    *)
(***************************************************************************)
EXTENDS Integers, Sequences

CONSTANTS
  Warmup,       (* WARMUP_S                                                *)
  StaticAge,    (* STATIC_AGE_S                                            *)
  StickyTtl,    (* STICKY_TTL_S                                            *)
  Sustain,      (* presence_sustain_s, sustain_s                           *)
  MissHold,     (* _miss_hold_s                                            *)
  Cooldown,     (* cooldown_s                                              *)
  SilentS,      (* stream_silent_s                                         *)
  ClipPre,      (* clip_pre_s                                              *)
  ClipPost,     (* clip_post_s                                             *)
  Lead,         (* CONTACT_LEAD_S                                          *)
  MaxPre,       (* CONTACT_MAX_PRE_S                                       *)
  Gap,          (* gap_s                                                   *)
  MinContact,   (* vif_sustain_s                                           *)
  MicroFrom,    (* the media time from which probe.py takes a PTS for      *)
  NanoFrom,     (* micro- and for nanoseconds, and the factor by which it  *)
  Factor,       (* is wrong below                                          *)
  Kinds,        (* the enabled triggers                                    *)
  Never,        (* no time                                                 *)
  MaxTime,      (* BOUND: the clock stops here                             *)
  MaxEvents     (* BOUND: events of a behaviour                            *)

TriggerKinds == {"presence", "convergence", "vif", "stream_silent"}
FightTypes   == {"convergence", "vif"}
Boxes        == {"poster", "kid"}
Time         == 0..MaxTime
Moment       == Time \cup {Never}
Angles       == {"met", "low", "unmeasured"}

ASSUME TriggerAssumption ==
  /\ \A c \in {Warmup, StaticAge, StickyTtl, Sustain, MissHold, Cooldown, SilentS, ClipPre,
               ClipPost, Lead, MaxPre, Gap, MinContact, MicroFrom, NanoFrom, Factor,
               MaxTime, MaxEvents} : c \in Nat
  /\ Kinds \subseteq TriggerKinds /\ Never \notin Int

VARIABLES
  now,       (* the clock                                                  *)
  halted,    (* the halt of the engine is set                              *)
  frame,     (* last_frame_ts, warmup_from                                 *)
  pts,       (* media time of the stream at the clock's zero: it restarts  *)
  sticky,    (* the sticky box of each box: first and last time, or Never  *)
  presence,  (* presence_since, presence_last_hit                          *)
  converge,  (* converge_since, converge_last_hit                          *)
  lastT,     (* ContactRules.last_t                                        *)
  pair,      (* the contact of the two boxes: start, last, fired           *)
  lastFire,  (* last_fire                                                  *)
  events,    (* the events sent to the sink                                *)
  unseen,    (* history: the filter had to learn the poster after warm-up  *)
  fooled     (* history: presence fired for the poster alone               *)

engine      == <<frame, sticky, presence, converge, lastT, pair, lastFire, unseen, fooled>>
triggerVars == <<now, halted, frame, pts, sticky, presence, converge, lastT, pair,
                 lastFire, events, unseen, fooled>>

NoBox      == [first |-> Never, last |-> Never]
NoRun      == [since |-> Never, hit |-> Never]
NoContact  == [start |-> Never, last |-> Never, fired |-> FALSE]
NoFrame    == [last |-> Never, warm |-> Never]
NoFires    == [k \in TriggerKinds |-> Never]
Larger(a, b)  == IF a >= b THEN a ELSE b
Smaller(a, b) == IF a <= b THEN a ELSE b

-----------------------------------------------------------------------------
(* probe.py: frame_video_seconds guesses the unit of a PTS by its size.    *)

VideoSeconds(t) ==
  IF t >= NanoFrom THEN t
  ELSE IF t >= MicroFrom THEN t * Factor
  ELSE t * Factor * Factor

-----------------------------------------------------------------------------
(* static_filter.py: filter_live_people                                    *)

Warming == IF frame.warm = Never THEN TRUE ELSE now - frame.warm < Warmup

Seeded(force)    == IF force THEN now - StaticAge ELSE now
NotSeeded(b, force, moved) ==                                      (* mutant *)
  IF sticky[b] = NoBox \/ moved THEN now ELSE sticky[b].first
FirstTs(b, force, moved) ==
  IF sticky[b] = NoBox \/ moved THEN Seeded(force)
  ELSE IF force THEN Smaller(sticky[b].first, Seeded(force))
  ELSE sticky[b].first

(* The sticky boxes after a frame with these boxes, and the live ones.     *)
Filtered(seen, moved, force) ==
  [b \in Boxes |->
     IF b \in seen THEN [first |-> FirstTs(b, force, b \in moved), last |-> now]
     ELSE IF sticky[b] # NoBox /\ now - sticky[b].last < StickyTtl THEN sticky[b]
     ELSE NoBox]

Live(seen, moved, force) ==
  IF force THEN {}
  ELSE {b \in seen : now - FirstTs(b, force, b \in moved) < StaticAge}

-----------------------------------------------------------------------------
(* Cooldowns.                                                              *)

Elapsed(since, span) == IF since = Never THEN TRUE ELSE now - since >= span
CooledDown(kind) == Elapsed(lastFire[kind], Cooldown)

(* _can_fire: a fight also waits out the clip of its sibling.              *)
Sibling(kind)   == CHOOSE k \in FightTypes : k # kind
OwnPause(fires, kind) == Elapsed(fires[kind], Cooldown)            (* mutant *)
CanFire(fires, kind) ==
  LET other == fires[Sibling(kind)]
      own   == fires[kind]
  IN  IF other # Never /\ (IF own = Never THEN TRUE ELSE other >= own)
      THEN now > other /\ now - other >= Larger(Cooldown, ClipPre + ClipPost)
      ELSE own # Never => now > own /\ now - own >= Cooldown

-----------------------------------------------------------------------------
(* _eval_presence, _eval_convergence: a run of hits, with short misses.    *)

StillHeld(run) == run.hit # Never /\ now - run.hit < MissHold
Ripe(run)      == run.since # Never /\ now - run.since >= Sustain

NextRun(run, hit) ==
  IF hit THEN [since |-> IF run.since = Never \/ Ripe(run) THEN now ELSE run.since, hit |-> now]
  ELSE IF StillHeld(run) THEN run
  ELSE [run EXCEPT !.since = Never]

FiresPresence(live) ==
  live # {} /\ "presence" \in Kinds /\ Ripe(presence) /\ CooledDown("presence")

FiresConvergence(close) ==
  close /\ "convergence" \in Kinds /\ Ripe(converge) /\ CanFire(lastFire, "convergence")

-----------------------------------------------------------------------------
(* contact_rules.py: one frame of the pair.                                *)

Length(p)   == p.last - p.start
Expired(p, t) == p # NoContact /\ t - p.last > Gap

(* The pair that is closed because a new contact begins in this frame ...  *)
Reset(t)    == lastT # Never /\ t < lastT
Before(t)   == IF Reset(t) THEN NoContact ELSE pair
Touched(t, touch) ==
  LET p == Before(t)
  IN  IF ~touch THEN p
      ELSE IF p = NoContact \/ Expired(p, t) THEN [start |-> t, last |-> t, fired |-> FALSE]
      ELSE [p EXCEPT !.last = t]

(* ... or because it was not seen for longer than the gap.                 *)
LateEvent(p, angles) == Length(p) >= MinContact /\ ~p.fired /\ angles # "low"

FiresLate(t, touch, angles) ==
  /\ Expired(Before(t), t) /\ LateEvent(Before(t), angles)
FiresNow(t, touch, angles) ==
  LET p == Touched(t, touch)
  IN  p # NoContact /\ ~p.fired /\ Length(p) >= MinContact /\ angles = "met"

(* The contact an event of this frame is about, if there is one.           *)
ContactEvent(t, touch, angles) ==
  IF FiresLate(t, touch, angles) THEN Before(t)
  ELSE IF FiresNow(t, touch, angles) THEN Touched(t, touch)
  ELSE NoContact

(* The pair after the frame: an expired one is deleted; release() puts     *)
(* back the one whose event was not sent.                                  *)
NotReleased(p, sent) == [p EXCEPT !.fired = TRUE]                  (* mutant *)
AfterEvent(p, sent) == [p EXCEPT !.fired = sent]
AfterFrame(t, touch, fires, sent) ==
  LET p == Touched(t, touch)
  IN  IF p = NoContact \/ Expired(p, t) THEN NoContact
      ELSE IF fires THEN AfterEvent(p, sent)
      ELSE p

-----------------------------------------------------------------------------
(* process_detections, after note_frame                                    *)

PreOfType(t, contact) == ClipPre                                   (* mutant *)
PreOf(t, contact) == Larger(ClipPre, Smaller(MaxPre, t - contact.start + Lead))
Event(kind, pre, since) ==
  [kind |-> kind, at |-> now, pre |-> pre, since |-> since, stream |-> pts]

(* _emit: the evaluations of a frame may each send one.                    *)
Sent(live, close, fires, t, contact) ==
  (IF FiresPresence(live)
   THEN <<Event("presence", ClipPre, presence.since)>> ELSE <<>>)
  \o (IF FiresConvergence(close)
      THEN <<Event("convergence", ClipPre, converge.since)>> ELSE <<>>)
  \o (IF fires THEN <<Event("vif", PreOf(t, contact), contact.start)>> ELSE <<>>)

Fired(sent) ==
  [k \in TriggerKinds |->
     IF \E i \in 1..Len(sent) : sent[i].kind = k THEN now ELSE lastFire[k]]

(* What the detector saw: which boxes, whether the kid moved, whether the  *)
(* two came close or touch, and what their joints show.                    *)
Frame(seen, moved, close, touch, angles) ==
  LET force   == Warming
      live    == Live(seen, moved, force)
      near    == close /\ live = Boxes
      t       == VideoSeconds(now - pts)
      contact == IF "vif" \in Kinds THEN ContactEvent(t, touch, angles) ELSE NoContact
      others  == Sent(live, near, FALSE, t, contact)
      vif     == contact # NoContact /\ CanFire(Fired(others), "vif")
      sent    == Sent(live, near, vif, t, contact)
      fires   == contact # NoContact /\ ~FiresLate(t, touch, angles)
  IN  /\ frame' = [last |-> now, warm |-> IF frame.warm = Never THEN now ELSE frame.warm]
      /\ sticky' = Filtered(seen, moved, force)
      /\ unseen' = (unseen \/ (~force /\ "poster" \in seen /\ sticky["poster"] = NoBox))
      /\ IF force
         THEN UNCHANGED <<presence, converge, lastT, pair, lastFire, events, fooled>>
         ELSE /\ fooled' = (fooled \/ (FiresPresence(live) /\ live = {"poster"}))
              /\ presence' = NextRun(presence, live # {})
              /\ converge' = NextRun(converge, near)
              /\ lastT' = t
              /\ pair' = AfterFrame(t, touch, fires, vif)
              /\ Len(events) + Len(sent) <= MaxEvents
              /\ lastFire' = Fired(sent)
              /\ events' = events \o sent
      /\ UNCHANGED <<now, halted, pts>>

AnyFrame ==
  /\ ~halted /\ frame.last # now               \* BOUND: a frame in a tick
  /\ \E seen \in SUBSET Boxes : \E moved \in SUBSET (seen \ {"poster"}) :
       \E close, touch \in IF seen = Boxes THEN BOOLEAN ELSE {FALSE} :
         \E angles \in IF touch \/ pair # NoContact THEN Angles ELSE {"low"} :
           Frame(seen, moved, close, touch, angles)

(* process_detections returns at once, but note_frame has marked it.       *)
FrameWhileHalted ==
  /\ halted /\ frame.last # now
  /\ frame' = [last |-> now, warm |-> IF frame.warm = Never THEN now ELSE frame.warm]
  /\ UNCHANGED <<now, halted, pts, sticky, presence, converge, lastT, pair,
                 lastFire, events, unseen, fooled>>

(* check_stream_silent, every 5 s on the watchdog thread: it also moves    *)
(* last_frame_ts, so that it counts the silence anew.                      *)
StreamSilent ==
  /\ ~halted /\ "stream_silent" \in Kinds
  /\ frame.last # Never
  /\ now - frame.last >= SilentS
  /\ CooledDown("stream_silent")
  /\ Len(events) < MaxEvents
  /\ events' = Append(events, Event("stream_silent", ClipPre, frame.last))
  /\ lastFire' = [lastFire EXCEPT !["stream_silent"] = now]
  /\ frame' = [frame EXCEPT !.last = now]
  /\ UNCHANGED <<now, halted, pts, sticky, presence, converge, lastT, pair, unseen, fooled>>

(* CameraTriggerState of a new engine.                                     *)
Fresh(f, s, p, c, t, r, l) ==
  /\ f = NoFrame /\ s = [b \in Boxes |-> NoBox] /\ p = NoRun /\ c = NoRun
  /\ t = Never /\ r = NoContact /\ l = NoFires

(* A reload halts the engine and, when the flow has returned, drops it:    *)
(* the next pipeline has an engine of its own.                             *)
Halt ==
  /\ ~halted
  /\ halted' = TRUE
  /\ UNCHANGED <<now, pts, engine, events>>

EngineDropped ==
  /\ halted /\ frame # NoFrame
  /\ Fresh(frame', sticky', presence', converge', lastT', pair', lastFire')
  /\ pts' = 0
  /\ UNCHANGED <<now, halted, events, unseen, fooled>>

(* The source reconnects after a silence: its media time starts again.     *)
StreamRestarts ==
  /\ pts = 0                                     \* BOUND: once
  /\ frame.last # Never
  /\ now - frame.last > 1
  /\ pts' = now
  /\ UNCHANGED <<now, halted, engine, events>>

EngineStep ==
  \/ AnyFrame \/ FrameWhileHalted \/ StreamSilent
  \/ Halt \/ EngineDropped \/ StreamRestarts

Tick ==
  /\ now < MaxTime
  /\ now' = now + 1
  /\ UNCHANGED <<halted, pts, engine, events>>

TriggerInit ==
  /\ now = 0 /\ halted = FALSE /\ pts = 0
  /\ Fresh(frame, sticky, presence, converge, lastT, pair, lastFire)
  /\ events = <<>> /\ unseen = FALSE /\ fooled = FALSE

TriggerSpec == TriggerInit /\ [][EngineStep \/ Tick]_triggerVars

-----------------------------------------------------------------------------
(* Properties                                                              *)

EventOf == [kind : TriggerKinds, at : Time, pre : Nat, since : Nat \cup {Never},
            stream : Time]
Runs    == [since : Moment, hit : Moment]
Stick   == {NoBox} \cup [first : Int, last : Time]
Pairs   == {NoContact} \cup [start : Nat, last : Nat, fired : BOOLEAN]

TriggerTypeOK ==
  /\ now \in Time /\ halted \in BOOLEAN /\ pts \in Time /\ pts <= now
  /\ unseen \in BOOLEAN /\ fooled \in BOOLEAN
  /\ frame \in [last : Moment, warm : Moment]
  /\ sticky \in [Boxes -> Stick]
  /\ presence \in Runs /\ converge \in Runs
  /\ lastT \in Nat \cup {Never} /\ pair \in Pairs
  /\ lastFire \in [TriggerKinds -> Moment]
  /\ events \in Seq(EventOf)

(* Two events of one kind are a cooldown apart; two fights of different    *)
(* kinds also the length of a clip, so that the second does not tell of    *)
(* the scene that the first one's clip ends with.                          *)
FightsApart ==
  \A i, j \in 1..Len(events) :
    i < j =>
      LET a == events[i]
          b == events[j]
      IN  /\ a.kind = b.kind => b.at - a.at >= Cooldown
          /\ a.kind # b.kind /\ {a.kind, b.kind} = FightTypes =>
               b.at - a.at >= Larger(Cooldown, ClipPre + ClipPost)

(* The mark of a contact says whether its event was sent: a contact is     *)
(* sent once at most, and one that met the pause can be sent after it.     *)
MarkedIffSent ==
  pair # NoContact =>
    LET about(i) == events[i].kind = "vif" /\ events[i].since = pair.start
    IN  /\ pair.fired => \E i \in 1..Len(events) : about(i)
        /\ ~pair.fired => \A i \in 1..Len(events) : about(i) => events[i].stream # pts

(* The poster that hung there during warm-up never passes for a person,    *)
(* until the detector lost it for so long that the filter forgot it.       *)
NoFurnitureAlarm == fooled => unseen

(* contact_rules.py: "t in seconds, increasing", while one stream plays.   *)
MediaTimeIncreases ==
  [][IF Never \in {lastT, lastT'} \/ pts # 0 THEN TRUE ELSE lastT' >= lastT]_triggerVars
=============================================================================
