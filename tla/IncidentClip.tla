--------------------------- MODULE IncidentClip ---------------------------
(***************************************************************************)
(* The clips of the events of Triggers (ds/clip.py), cut from the ring     *)
(* buffer of the camera on the same clock: splitmuxsink finishes a segment *)
(* every SegmentS, the supervisor's collector removes what is older than   *)
(* KeepS, and a sink worker waits until the last segment of its event must *)
(* be there, lists the segments by their mtime and lets ffmpeg join them.  *)
(* EventPath has the worker's other steps, RingBuffer the recorder's life. *)
(***************************************************************************)
EXTENDS Triggers, FiniteSets

CONSTANTS
  SegmentS,     (* segment_dur_sec                                         *)
  MarginS,      (* edge_margin_s                                           *)
  KeepS,        (* keep_buffer_s                                           *)
  Recorded,     (* BOUND: how far back the segments reach at the start     *)
  Rings,        (* whose directory the recorder of this address may fill   *)
  MaxFrame,     (* BOUND: the engine is halted and dropped at this tick    *)
  MaxOutages    (* BOUND: failures of the recorder                         *)

(* "own": the camera is recorded.  "shared": it never was, but a camera    *)
(* with the same address is.  "stale": another one is, and this camera     *)
(* still has the directory of an earlier recording.  "missing": none.      *)
RingKinds == {"own", "shared", "stale", "missing"}

ASSUME ClipAssumption ==
  /\ SegmentS \in Nat \ {0}
  /\ \A c \in {MarginS, KeepS, Recorded, MaxFrame, MaxOutages} : c \in Nat
  /\ Rings \subseteq RingKinds

VARIABLES
  ring,      (* whose directory the recorder fills                         *)
  opened,    (* when the recorder opened its current segment, or Never     *)
  outages,   (* how often it failed                                        *)
  segments,  (* finished segments on disk, each by its mtime               *)
  jobs       (* the clip of each event: its worker's place, the segments   *)
             (* it listed, and when                                        *)

ringVars == <<ring, opened, outages, segments>>
clipVars == <<triggerVars, ringVars, jobs>>

Slots  == 1..MaxEvents
Idle   == [at |-> "wait", segs |-> {}, when |-> Never]
Places == {"wait", "cut", "done", "failed"}

-----------------------------------------------------------------------------
(* Which segments a clip takes.                                            *)

StartTs(e) == e.at - e.pre
EndTs(e)   == e.at + ClipPost
WaitsForPost(e) == EndTs(e)                                        (* mutant *)
WaitUntil(e) == EndTs(e) + SegmentS + 1

(* _ring_for_camera prefers the camera's own directory, whoever records.   *)
InDirectory == IF ring \in {"own", "shared"} THEN segments ELSE {}

SegmentsInWindow(e) ==
  {m \in InDirectory : StartTs(e) - MarginS <= m /\ m <= EndTs(e) + MarginS}

(* gc_old_segments                                                         *)
OldAtHalf == {m \in segments : 2 * m < 2 * now - KeepS}             (* mutant *)
Old == {m \in segments : m < now - KeepS}

NeedsClip(e) == e.kind # "stream_silent"
Job(i, place) == i \in 1..Len(events) /\ NeedsClip(events[i]) /\ jobs[i].at = place

-----------------------------------------------------------------------------
(* The recorder and the collector.                                         *)

ClipTick ==
  /\ Tick
  /\ now < MaxFrame \/ (halted /\ frame = NoFrame)
  /\ LET closes == opened # Never /\ now' - opened = SegmentS
     IN  /\ opened' = IF closes THEN now' ELSE opened
         /\ segments' = IF closes THEN segments \cup {now'} ELSE segments
  /\ UNCHANGED <<ring, outages, jobs>>

RecorderFails ==
  /\ opened # Never /\ outages < MaxOutages
  /\ opened' = Never
  /\ outages' = outages + 1
  /\ UNCHANGED <<triggerVars, ring, segments, jobs>>

RecorderReturns ==
  /\ opened = Never
  /\ opened' = now
  /\ UNCHANGED <<triggerVars, ring, outages, segments, jobs>>

CollectGarbage ==
  /\ Old # {}
  /\ segments' = segments \ Old
  /\ UNCHANGED <<triggerVars, ring, opened, outages, jobs>>

-----------------------------------------------------------------------------
(* _build_clip_locked in a sink worker, which may come to it late.         *)

DirectoryMissing(i) ==
  /\ Job(i, "wait") /\ ring = "missing"
  /\ jobs' = [jobs EXCEPT ![i].at = "failed"]
  /\ UNCHANGED <<triggerVars, ringVars>>

ListSegments(i) ==
  /\ Job(i, "wait") /\ ring # "missing"
  /\ now >= WaitUntil(events[i])
  /\ LET segs == SegmentsInWindow(events[i])
     IN  jobs' = [jobs EXCEPT ![i] =
                    [at |-> IF segs = {} THEN "failed" ELSE "cut", segs |-> segs, when |-> now]]
  /\ UNCHANGED <<triggerVars, ringVars>>

(* concat_segments: the collector may have been faster.                    *)
Concat(i) ==
  /\ Job(i, "cut")
  /\ jobs' = [jobs EXCEPT ![i].at = IF jobs[i].segs \subseteq segments THEN "done" ELSE "failed"]
  /\ UNCHANGED <<triggerVars, ringVars>>

ClipStep == \E i \in Slots : DirectoryMissing(i) \/ ListSegments(i) \/ Concat(i)
RingStep == RecorderFails \/ RecorderReturns \/ CollectGarbage

-----------------------------------------------------------------------------
(* A recorder that opened a segment at m and runs for some time.           *)
RingAt(m) == {s \in (-Recorded)..m : \E n \in 0..Recorded : m - s = n * SegmentS}

ClipInit ==
  /\ TriggerInit
  /\ ring \in Rings /\ opened \in (1 - SegmentS)..0 /\ outages = 0
  /\ segments = RingAt(opened)
  /\ jobs = [i \in Slots |-> Idle]

ClipNext ==
  \/ EngineStep /\ UNCHANGED <<ringVars, jobs>>
  \/ ClipTick \/ RingStep \/ ClipStep

ClipSpec == ClipInit /\ [][ClipNext]_clipVars

-----------------------------------------------------------------------------
(* Properties                                                              *)

ClipTypeOK ==
  /\ TriggerTypeOK
  /\ ring \in RingKinds /\ opened \in Int \cup {Never} /\ outages \in 0..MaxOutages
  /\ segments \subseteq Int
  /\ jobs \in [Slots -> [at : Places, segs : SUBSET Int, when : Moment]]

Shows(i, s) == \E m \in jobs[i].segs : m - SegmentS < s /\ s <= m
Prompt(i)   == jobs[i].when - KeepS <= StartTs(events[i])
EdgeLoss    == Larger(0, SegmentS - MarginS)

(* The clip of an event whose recorder did not fail, cut before the        *)
(* collector can reach its first second, shows every second of the window  *)
(* but the last EdgeLoss: the segment with the end of the window is        *)
(* finished later than the margin reaches.                                 *)
ClipShowsWindow ==
  \A i \in 1..Len(events) :
    Job(i, "done") /\ outages = 0 /\ Prompt(i) =>
      \A s \in (StartTs(events[i]) + 1)..(EndTs(events[i]) - EdgeLoss) : Shows(i, s)

(* A worker ends without a clip only after the collector could reach the   *)
(* first segment of its window, if the camera or its twin is recorded and  *)
(* no directory of its own is in the way: the ring holds every window      *)
(* until its clip has been joined.                                         *)
PromptEventGetsClip ==
  \A i \in 1..Len(events) :
    Job(i, "failed") /\ ring \in {"own", "shared"} /\ outages = 0 =>
      now - KeepS > StartTs(events[i]) - MarginS

(* The clip of a contact that the ring can still hold begins Lead before   *)
(* the contact did, also when its event was late or met the fight pause.   *)
ClipShowsContact ==
  \A i \in 1..Len(events) :
    LET e     == events[i]
        begin == e.since + e.stream
    IN  Job(i, "done") /\ e.kind = "vif" /\ outages = 0 /\ Prompt(i)
        /\ e.at - begin + Lead <= MaxPre =>
          \A s \in (begin - Lead + 1)..begin : Shows(i, s)
=============================================================================
