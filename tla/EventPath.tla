----------------------------- MODULE EventPath -----------------------------
(***************************************************************************)
(* The way of a trigger event through the video process: the pipeline and  *)
(* its stream watchdog put it on the queue of AsyncSink; a sink worker     *)
(* cuts its clip from the ring-buffer (ds/clip.py), uploads it, puts the   *)
(* trigger on the history queue and hands it to the outbound queue         *)
(* (ds/sinks/*.py); HistoryWriter writes batches to Postgres (history.py). *)
(* The manager thread closes the sink when the pipeline ends, and the      *)
(* lifespan of the process stops them all.                                 *)
(*                                                                         *)
(* One sink lives as long as its pipeline: the model follows one of them.  *)
(* How a clip is cut is in IncidentClip; here cutting it takes any time    *)
(* and may fail.  Event ids are fresh UUIDs, so the lock that clip.py puts *)
(* on an event never refuses one.                                          *)
(***************************************************************************)
EXTENDS Integers, Sequences, FiniteSets

CONSTANTS
  Incidents,    (* events that need a clip                                 *)
  Silents,      (* stream_silent events, which the watchdog thread emits   *)
  NoEvent,
  Workers,      (* sink workers (sink_workers)                             *)
  SinkQueue,    (* capacity of the sink queue (sink_queue)                 *)
  HistoryQueue, (* capacity of the history queue (history_queue)           *)
  HistoryBatch, (* rows of one flush (history_batch)                       *)
  MinioOn,      (* MinIO is configured                                     *)
  Budget        (* BOUND: faults, timeouts, and both, of a behaviour       *)

Events == Incidents \cup Silents
BudgetKinds == {"fault", "timeout", "any"}

ASSUME PathAssumption ==
  /\ Incidents \cap Silents = {} /\ NoEvent \notin Events
  /\ SinkQueue \in Nat \ {0} /\ HistoryQueue \in Nat \ {0} /\ HistoryBatch \in Nat \ {0}
  /\ MinioOn \in BOOLEAN
  /\ Budget \in [BudgetKinds -> Nat]

VARIABLES
  halted,   (* the interrupt of the pipeline is set                        *)
  hand,     (* the event the watchdog is about to send                     *)
  fired,    (* the events that were triggered                              *)
  queue,    (* AsyncSink._queue                                            *)
  stopping, (* AsyncSink._stop                                             *)
  manager,  (* where the pipeline thread is: in the flow or in close()     *)
  at,       (* where each sink worker is                                   *)
  cur,      (* the event of each sink worker                               *)
  clips,    (* events with a clip file                                     *)
  hist,     (* HistoryWriter._queue                                        *)
  writer,   (* where the history thread is                                 *)
  flushing, (* rows taken from the queue by the thread and by stop()       *)
  rows,     (* history rows in Postgres                                    *)
  outbox,   (* events handed to the outbound queue                         *)
  life,     (* the lifespan of the process                                 *)
  left,     (* what is left of Budget                                      *)
  gone,     (* history: what became of the events that were not handed on  *)
  missed    (* history: history rows that were dropped                     *)

sink     == <<halted, hand, fired, queue, stopping, manager>>
worker   == <<at, cur, clips>>
history  == <<hist, writer, flushing, rows, missed>>
pathVars == <<halted, hand, fired, queue, stopping, manager, at, cur, clips,
              hist, writer, flushing, rows, outbox, life, left, gone, missed>>

-----------------------------------------------------------------------------
WorkerPc  == {"get", "clip", "upload", "record", "skip", "forward", "exit"}
ManagerPc == {"flow", "draining", "joining", "closed"}
LifePc    == {"up", "stopping", "writer", "flush", "exit"}
Sends     == {"clip error", "minio ok", "minio error", "webhook skipped"}
Entry     == (Sends \cup {"trigger"}) \X Events
Reasons   == {"queue full", "no clip", "enqueue failed"}

Range(s)  == {s[i] : i \in 1..Len(s)}
Spend(kind) == /\ left[kind] > 0 /\ left["any"] > 0
               /\ left' = [left EXCEPT ![kind] = @ - 1, !["any"] = @ - 1]
Running   == life # "exit"
At(w, place)   == Running /\ at[w] = place
Goto(w, place) == at' = [at EXCEPT ![w] = place]

-----------------------------------------------------------------------------
(* history.py: put() never blocks, it drops.                               *)

Put(entry) ==
  IF Len(hist) < HistoryQueue
  THEN hist' = Append(hist, entry) /\ UNCHANGED missed
  ELSE missed' = missed \cup {entry} /\ UNCHANGED hist

-----------------------------------------------------------------------------
(* The pipeline: AsyncSink.send() of the probe thread and of the watchdog. *)

UnchangedOutsideSink == UNCHANGED <<worker, history, outbox, life, left>>

Send(e) ==
  IF Len(queue) < SinkQueue
  THEN queue' = Append(queue, e) /\ UNCHANGED gone
  ELSE gone' = [gone EXCEPT ![e] = "queue full"] /\ UNCHANGED queue

Trigger(e) ==
  /\ Running /\ manager = "flow" /\ ~halted
  /\ e \notin fired
  /\ fired' = fired \cup {e}
  /\ Send(e)
  /\ UNCHANGED <<halted, hand, stopping, manager>> /\ UnchangedOutsideSink

(* _emit checks the interrupt, then sends: the sink may close in between.  *)
WatchdogEmits(e) ==
  /\ Running /\ ~halted /\ hand = NoEvent
  /\ e \notin fired
  /\ fired' = fired \cup {e}
  /\ hand' = e
  /\ UNCHANGED <<halted, queue, stopping, manager, gone>> /\ UnchangedOutsideSink

WatchdogSends ==
  /\ Running /\ hand # NoEvent
  /\ hand' = NoEvent
  /\ Send(hand)
  /\ UNCHANGED <<halted, fired, stopping, manager>> /\ UnchangedOutsideSink

(* PipelineManager.request_reload; a crash of the flow does without it.    *)
Interrupt ==
  /\ Running /\ ~halted
  /\ halted' = TRUE
  /\ UNCHANGED <<hand, fired, queue, stopping, manager, gone>> /\ UnchangedOutsideSink

(* AsyncSink.close(), called when run_pipeline has returned: drain, then   *)
(* stop and join the workers, both up to a deadline.                       *)
FlowEnds ==
  /\ Running /\ manager = "flow"
  /\ manager' = "draining"
  /\ UNCHANGED <<halted, hand, fired, queue, stopping, gone>> /\ UnchangedOutsideSink

Drained == queue = <<>>

StopWorkers ==
  /\ Running /\ manager = "draining"
  /\ IF Drained THEN UNCHANGED left ELSE Spend("timeout")
  /\ stopping' = TRUE
  /\ manager' = "joining"
  /\ UNCHANGED <<halted, hand, fired, queue, worker, history, outbox, life, gone>>

JoinedAtOnce == TRUE                                               (* mutant *)
Joined == \A w \in Workers : at[w] = "exit"

CloseReturns ==
  /\ Running /\ manager = "joining"
  /\ IF Joined THEN UNCHANGED left ELSE Spend("timeout")
  /\ manager' = "closed"
  /\ UNCHANGED <<halted, hand, fired, queue, stopping, worker, history,
                 outbox, life, gone>>

-----------------------------------------------------------------------------
(* The sink workers: AsyncSink._loop and IncidentClipSink.send.            *)

UnchangedOutsideWorker == UNCHANGED <<halted, hand, fired, stopping, manager,
                                      writer, flushing, rows, life>>

(* The loop looks at _stop before each get(), which waits 0.2 s at most.   *)
GoesOn(w) == Goto(w, IF stopping THEN "exit" ELSE "get")

GetTimesOut(w) ==
  /\ At(w, "get") /\ queue = <<>> /\ stopping
  /\ GoesOn(w)
  /\ UNCHANGED <<cur, clips, queue, hist, missed, outbox, left, gone>>
  /\ UnchangedOutsideWorker

(* _should_clip: the category of a silent stream is "error".               *)
ShouldClip(e) == e \in Incidents

DropsIfStopping(w, e) ==                                           (* mutant *)
  IF stopping THEN Goto(w, "exit") /\ UNCHANGED cur
  ELSE cur' = [cur EXCEPT ![w] = e] /\ Goto(w, IF ShouldClip(e) THEN "clip" ELSE "record")

Takes(w, e) ==
  /\ cur' = [cur EXCEPT ![w] = e]
  /\ Goto(w, IF ShouldClip(e) THEN "clip" ELSE "record")

Get(w) ==
  /\ At(w, "get") /\ queue # <<>>
  /\ queue' = Tail(queue)
  /\ Takes(w, Head(queue))
  /\ UNCHANGED <<clips, hist, missed, outbox, left, gone>>
  /\ UnchangedOutsideWorker

(* build_clip_from_payload: the wait for the post-roll and ffmpeg.         *)
CutClip(w) ==
  /\ At(w, "clip")
  /\ clips' = clips \cup {cur[w]}
  /\ Goto(w, IF MinioOn THEN "upload" ELSE "record")
  /\ UNCHANGED <<cur, queue, hist, missed, outbox, left, gone>>
  /\ UnchangedOutsideWorker

ClipFails(w) ==
  /\ At(w, "clip")
  /\ Put(<<"clip error", cur[w]>>)
  /\ Goto(w, "record")
  /\ UNCHANGED <<cur, clips, queue, outbox, left, gone>> /\ UnchangedOutsideWorker

(* MinioStore.upload_file: the webhook can still attach the local file.    *)
Upload(w) ==
  /\ At(w, "upload")
  /\ \/ Put(<<"minio ok", cur[w]>>) /\ UNCHANGED left
     \/ Put(<<"minio error", cur[w]>>) /\ Spend("fault")
  /\ Goto(w, "record")
  /\ UNCHANGED <<cur, clips, queue, outbox, gone>>
  /\ UnchangedOutsideWorker

(* missing_video_reason                                                    *)
MissesNothing(e) == FALSE                                          (* mutant *)
MissesVideo(e) == e \in Incidents \ clips

RecordTrigger(w) ==
  /\ At(w, "record")
  /\ Put(<<"trigger", cur[w]>>)
  /\ Goto(w, IF MissesVideo(cur[w]) THEN "skip" ELSE "forward")
  /\ UNCHANGED <<cur, clips, queue, outbox, left, gone>>
  /\ UnchangedOutsideWorker

SkipWebhook(w) ==
  /\ At(w, "skip")
  /\ Put(<<"webhook skipped", cur[w]>>)
  /\ gone' = [gone EXCEPT ![cur[w]] = "no clip"]
  /\ cur' = [cur EXCEPT ![w] = NoEvent]
  /\ GoesOn(w)
  /\ UNCHANGED <<clips, queue, outbox, left>> /\ UnchangedOutsideWorker

(* OutboundEnqueueSink.send: an exception of enqueue_payload is logged.    *)
Forward(w) ==
  /\ At(w, "forward")
  /\ \/ outbox' = outbox \cup {cur[w]} /\ UNCHANGED <<left, gone>>
     \/ /\ Spend("fault")
        /\ gone' = [gone EXCEPT ![cur[w]] = "enqueue failed"]
        /\ UNCHANGED outbox
  /\ cur' = [cur EXCEPT ![w] = NoEvent]
  /\ GoesOn(w)
  /\ UNCHANGED <<clips, queue, hist, missed>> /\ UnchangedOutsideWorker

WorkerStep(w) ==
  \/ GetTimesOut(w) \/ Get(w)
  \/ CutClip(w) \/ ClipFails(w) \/ Upload(w) \/ RecordTrigger(w) \/ SkipWebhook(w) \/ Forward(w)

-----------------------------------------------------------------------------
(* history.py: the thread and stop() both flush.                           *)

UnchangedOutsideHistory == UNCHANGED <<sink, worker, outbox, gone>>

Drain(f) ==
  /\ flushing[f] = <<>> /\ hist # <<>>
  /\ LET n == IF Len(hist) < HistoryBatch THEN Len(hist) ELSE HistoryBatch
     IN  /\ flushing' = [flushing EXCEPT ![f] = SubSeq(hist, 1, n)]
         /\ hist' = SubSeq(hist, n + 1, Len(hist))

(* One transaction: all rows of a batch, or none.                          *)
Commit(f) ==
  /\ flushing[f] # <<>>
  /\ flushing' = [flushing EXCEPT ![f] = <<>>]
  /\ \/ rows' = rows \cup Range(flushing[f]) /\ UNCHANGED <<missed, left>>
     \/ missed' = missed \cup Range(flushing[f]) /\ UNCHANGED rows /\ Spend("fault")

WriterDrains ==
  /\ Running /\ writer = "run" /\ Drain("thread")
  /\ UNCHANGED <<writer, rows, missed, life, left>> /\ UnchangedOutsideHistory

WriterCommits ==
  /\ Running /\ writer = "run" /\ Commit("thread")
  /\ UNCHANGED <<hist, writer, life>> /\ UnchangedOutsideHistory

WriterExits ==
  /\ Running /\ writer = "run" /\ life \in {"writer", "flush"}
  /\ flushing["thread"] = <<>>
  /\ writer' = "exit"
  /\ UNCHANGED <<hist, flushing, rows, missed, life, left>> /\ UnchangedOutsideHistory

-----------------------------------------------------------------------------
(* The lifespan of the video process: PipelineManager.stop(), then         *)
(* HistoryWriter.stop(), then the daemon threads die with the process.     *)

UnchangedOutsideLife == UNCHANGED <<hand, fired, queue, stopping, manager,
                                    worker, outbox, gone>>

StopProcess ==
  /\ life = "up"
  /\ life' = "stopping"
  /\ halted' = TRUE
  /\ UNCHANGED <<history, left>> /\ UnchangedOutsideLife

ManagerStopped ==
  /\ life = "stopping"
  /\ IF manager = "closed" THEN UNCHANGED left ELSE Spend("timeout")
  /\ life' = "writer"
  /\ UNCHANGED <<halted, history>> /\ UnchangedOutsideLife

WriterJoined ==
  /\ life = "writer"
  /\ IF writer = "exit" THEN UNCHANGED left ELSE Spend("timeout")
  /\ life' = "flush"
  /\ UNCHANGED <<halted, history>> /\ UnchangedOutsideLife

StopDrains ==
  /\ life = "flush" /\ Drain("stop")
  /\ UNCHANGED <<halted, writer, rows, missed, life, left>> /\ UnchangedOutsideLife

StopCommits ==
  /\ life = "flush" /\ Commit("stop")
  /\ life' = "exit"
  /\ UNCHANGED <<halted, hist, writer>> /\ UnchangedOutsideLife

LeavesTheRest ==                                                   (* mutant *)
  /\ life = "flush" /\ flushing["stop"] = <<>>
  /\ life' = "exit"
  /\ UNCHANGED <<halted, history, left>> /\ UnchangedOutsideLife

NothingToFlush ==
  /\ life = "flush" /\ hist = <<>> /\ flushing["stop"] = <<>>
  /\ life' = "exit"
  /\ UNCHANGED <<halted, history, left>> /\ UnchangedOutsideLife

(* os._exit(75) of a hung pipeline, or the machine.                        *)
ProcessDies ==
  /\ Running
  /\ life' = "exit"
  /\ Spend("fault")
  /\ UNCHANGED <<halted, history>> /\ UnchangedOutsideLife

-----------------------------------------------------------------------------
PathInit ==
  /\ halted = FALSE /\ hand = NoEvent
  /\ fired = {}
  /\ queue = <<>> /\ stopping = FALSE /\ manager = "flow"
  /\ at = [w \in Workers |-> "get"]
  /\ cur = [w \in Workers |-> NoEvent]
  /\ clips = {}
  /\ hist = <<>> /\ writer = "run"
  /\ flushing = [f \in {"thread", "stop"} |-> <<>>]
  /\ rows = {} /\ missed = {}
  /\ outbox = {} /\ life = "up" /\ left = Budget
  /\ gone = [e \in Events |-> "no"]

PipelineStep == \/ \E e \in Incidents : Trigger(e)
                \/ \E e \in Silents : WatchdogEmits(e)
                \/ WatchdogSends \/ Interrupt
CloseStep    == FlowEnds \/ StopWorkers \/ CloseReturns
WriterStep   == WriterDrains \/ WriterCommits \/ WriterExits
LifeStep     == \/ StopProcess \/ ManagerStopped \/ WriterJoined \/ StopDrains
                \/ StopCommits \/ NothingToFlush \/ ProcessDies

PathNext ==
  \/ PipelineStep \/ CloseStep
  \/ \E w \in Workers : WorkerStep(w)
  \/ WriterStep \/ LifeStep

PathSpec == PathInit /\ [][PathNext]_pathVars

(***************************************************************************)
(* The fairness of the threads: a sink worker that can go on goes on, and  *)
(* close() gets through.  Nothing obliges the pipeline to emit or to end,  *)
(* the process to stop, or a failure to happen.                            *)
(***************************************************************************)
PathFairSpec ==
  /\ PathSpec
  /\ \A w \in Workers : WF_pathVars(WorkerStep(w))
  /\ WF_pathVars(StopWorkers) /\ WF_pathVars(CloseReturns)

-----------------------------------------------------------------------------
(* Properties                                                              *)

PathTypeOK ==
  /\ halted \in BOOLEAN /\ stopping \in BOOLEAN
  /\ hand \in Silents \cup {NoEvent}
  /\ fired \subseteq Events /\ clips \subseteq Incidents
  /\ queue \in Seq(Events) /\ Len(queue) <= SinkQueue
  /\ manager \in ManagerPc /\ at \in [Workers -> WorkerPc]
  /\ cur \in [Workers -> Events \cup {NoEvent}]
  /\ hist \in Seq(Entry) /\ Len(hist) <= HistoryQueue
  /\ writer \in {"run", "exit"} /\ flushing \in [{"thread", "stop"} -> Seq(Entry)]
  /\ rows \subseteq Entry /\ missed \subseteq Entry
  /\ outbox \subseteq Events /\ life \in LifePc
  /\ left \in [BudgetKinds -> Nat]
  /\ gone \in [Events -> Reasons \cup {"no"}]

(* What has become of an event, read off the queue, the workers and the    *)
(* outbound queue.                                                         *)
Stage(place, e) ==
  IF place = "clip" THEN "accepted"
  ELSE IF place = "upload" THEN "clipped"
  ELSE IF place = "record" THEN (IF e \in clips THEN "clipped" ELSE "accepted")
  ELSE IF place = "skip" THEN "noted"
  ELSE IF place = "forward" THEN "recorded" ELSE "lost"
Fate(e) ==
  IF e \notin fired \/ hand = e THEN "new"
  ELSE IF e \in outbox THEN "forwarded"
  ELSE IF gone[e] = "no clip" THEN "skipped"
  ELSE IF gone[e] # "no" \/ ~Running THEN "lost"
  ELSE IF e \in Range(queue) THEN "accepted"
  ELSE IF \E w \in Workers : cur[w] = e THEN Stage(at[CHOOSE w \in Workers : cur[w] = e], e)
  ELSE "lost"

Channel == INSTANCE IncidentChannel WITH fate <- [e \in Events |-> Fate(e)]

(* The chain of sinks implements the abstract channel: no event is taken   *)
(* twice, whatever workers, faults and shutdown do; its trigger goes to    *)
(* the history before its webhook goes out; an incident goes out only with *)
(* its clip.  (README: "No clip -> webhook is not sent".)                  *)
ImplementsChannel == Channel!ChannelSpec

NoTimeouts == left["timeout"] = Budget["timeout"]
NoFaults   == left["fault"] = Budget["fault"]

(* close() that did not reach its deadline has handed on, or given up with *)
(* a reason, every incident the pipeline emitted: it waits for the queue   *)
(* and then for the event in the hand of each worker.                      *)
CloseLosesNoIncident ==
  manager = "closed" /\ NoTimeouts =>
    \A e \in Incidents : e \in fired => e \in outbox \/ gone[e] # "no"

(* stop() of the history: when no join timed out and the database accepted *)
(* every batch, what the queue could not hold and the rows beyond one      *)
(* batch are all that is missing, although the thread may leave without a  *)
(* last flush.                                                             *)
StopFlushesABatch ==
  life = "exit" /\ NoTimeouts /\ NoFaults =>
    /\ hist = <<>> \/ Len(hist) <= HistoryQueue - HistoryBatch
    /\ \A e \in outbox : <<"trigger", e>> \in rows \cup missed \cup Range(hist)

(* Every event that the queue accepted is handed on, or given up with a    *)
(* reason, whatever fails, unless the process exits first; an event may    *)
(* stay on the queue of a closed sink, but only when all workers left.     *)
EveryEventEnds ==
  \A e \in Events :
    e \in Range(queue) ~>
      \/ e \in outbox \/ gone[e] # "no"
      \/ ~Running
      \/ e \in Range(queue) /\ Joined
=============================================================================
