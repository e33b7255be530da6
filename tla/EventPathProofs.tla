--------------------------- MODULE EventPathProofs ---------------------------
(***************************************************************************)
(* Theorems about the way of an event, for any events, sink workers,       *)
(* capacities of the queues and any number of faults and timeouts.         *)
(***************************************************************************)
EXTENDS EventPath, TLAPS

USE PathAssumption

-----------------------------------------------------------------------------
(* Sequences.                                                              *)
LEMMA RangeOfAppend ==
  ASSUME NEW S, NEW s \in Seq(S), NEW x \in S
  PROVE  /\ Append(s, x) \in Seq(S) /\ Len(Append(s, x)) = Len(s) + 1
         /\ Range(Append(s, x)) = Range(s) \cup {x}
<1>1. /\ Append(s, x) \in Seq(S) /\ Len(Append(s, x)) = Len(s) + 1
      /\ Append(s, x)[Len(s) + 1] = x
      /\ \A i \in 1..Len(s) : Append(s, x)[i] = s[i]
  OBVIOUS
<1> QED
  BY <1>1 DEF Range

LEMMA RangeOfTail ==
  ASSUME NEW S, NEW s \in Seq(S), s # <<>>
  PROVE  /\ Head(s) \in S /\ Tail(s) \in Seq(S) /\ Len(Tail(s)) = Len(s) - 1
         /\ Range(s) = {Head(s)} \cup Range(Tail(s))
<1>1. /\ Head(s) = s[1] /\ Head(s) \in S /\ Len(s) >= 1
      /\ Tail(s) \in Seq(S) /\ Len(Tail(s)) = Len(s) - 1
      /\ \A i \in 1..Len(Tail(s)) : Tail(s)[i] = s[i + 1]
  OBVIOUS
<1>2. \A i \in 1..Len(s) : i = 1 \/ (i - 1 \in 1..Len(Tail(s)) /\ s[i] = Tail(s)[i - 1])
  BY <1>1
<1>3. ASSUME NEW i \in 1..Len(s) PROVE s[i] \in {Head(s)} \cup Range(Tail(s))
  <2>1. CASE i = 1
    BY <1>1, <2>1
  <2>2. CASE i - 1 \in 1..Len(Tail(s)) /\ s[i] = Tail(s)[i - 1]
    BY <2>2 DEF Range
  <2> QED
    BY <1>2, <2>1, <2>2
<1>4. Head(s) \in Range(s)
  BY <1>1 DEF Range
<1>5. ASSUME NEW i \in 1..Len(Tail(s)) PROVE Tail(s)[i] \in Range(s)
  <2>1. i + 1 \in 1..Len(s) /\ Tail(s)[i] = s[i + 1]
    BY <1>1
  <2> QED
    BY <2>1 DEF Range
<1>6. Range(Tail(s)) \subseteq Range(s)
  BY <1>5 DEF Range
<1>7. Range(s) \subseteq {Head(s)} \cup Range(Tail(s))
  BY <1>3 DEF Range
<1> QED
  BY <1>1, <1>4, <1>6, <1>7

LEMMA RangeInSet == ASSUME NEW S, NEW s \in Seq(S) PROVE Range(s) \subseteq S
  BY DEF Range

-----------------------------------------------------------------------------
(* Types.                                                                  *)
LEMMA PutTypes ==
  ASSUME PathTypeOK, NEW entry \in Entry, Put(entry)
  PROVE  hist' \in Seq(Entry) /\ Len(hist') <= HistoryQueue /\ missed' \subseteq Entry
<1>0. hist \in Seq(Entry) /\ Len(hist) \in Nat /\ Len(hist) <= HistoryQueue /\ missed \subseteq Entry
  BY DEF PathTypeOK
<1>1. CASE Len(hist) < HistoryQueue
  <2>1. Append(hist, entry) \in Seq(Entry) /\ Len(Append(hist, entry)) = Len(hist) + 1
    BY <1>0, RangeOfAppend
  <2> QED
    BY <1>0, <1>1, <2>1 DEF Put
<1>2. CASE ~(Len(hist) < HistoryQueue)
  BY <1>0, <1>2 DEF Put
<1> QED
  BY <1>1, <1>2

LEMMA SendTypes ==
  ASSUME PathTypeOK, NEW e \in Events, Send(e)
  PROVE  /\ queue' \in Seq(Events) /\ Len(queue') <= SinkQueue
         /\ gone' \in [Events -> Reasons \cup {"no"}]
<1>0. /\ queue \in Seq(Events) /\ Len(queue) \in Nat /\ Len(queue) <= SinkQueue
      /\ gone \in [Events -> Reasons \cup {"no"}]
  BY DEF PathTypeOK
<1>1. CASE Len(queue) < SinkQueue
  <2>1. Append(queue, e) \in Seq(Events) /\ Len(Append(queue, e)) = Len(queue) + 1
    BY <1>0, RangeOfAppend
  <2> QED
    BY <1>0, <1>1, <2>1 DEF Send
<1>2. CASE ~(Len(queue) < SinkQueue)
  BY <1>0, <1>2 DEF Send, Reasons
<1> QED
  BY <1>1, <1>2

LEMMA SpendTypes ==
  ASSUME PathTypeOK, NEW kind \in {"fault", "timeout"}, Spend(kind)
  PROVE  left' \in [BudgetKinds -> Nat]
  BY DEF Spend, PathTypeOK, BudgetKinds

LEMMA GotoTypes ==
  ASSUME PathTypeOK, NEW w \in Workers, NEW place \in WorkerPc, Goto(w, place)
  PROVE  at' \in [Workers -> WorkerPc]
  BY DEF Goto, PathTypeOK

LEMMA DrainTypes ==
  ASSUME PathTypeOK, NEW f \in {"thread", "stop"}, Drain(f)
  PROVE  /\ hist' \in Seq(Entry) /\ Len(hist') <= HistoryQueue
         /\ flushing' \in [{"thread", "stop"} -> Seq(Entry)]
<1> DEFINE n == IF Len(hist) < HistoryBatch THEN Len(hist) ELSE HistoryBatch
<1>1. hist \in Seq(Entry) /\ Len(hist) \in Nat /\ n \in 0..Len(hist)
  BY DEF PathTypeOK
<1>2. SubSeq(hist, 1, n) \in Seq(Entry) /\ SubSeq(hist, n + 1, Len(hist)) \in Seq(Entry)
  BY <1>1
<1>3. Len(SubSeq(hist, n + 1, Len(hist))) <= Len(hist)
  BY <1>1
<1>4. /\ flushing' = [flushing EXCEPT ![f] = SubSeq(hist, 1, n)]
      /\ hist' = SubSeq(hist, n + 1, Len(hist))
  BY DEF Drain
<1> HIDE DEF n
<1> QED
  BY <1>1, <1>2, <1>3, <1>4 DEF PathTypeOK

LEMMA CommitTypes ==
  ASSUME PathTypeOK, NEW f \in {"thread", "stop"}, Commit(f)
  PROVE  /\ flushing' \in [{"thread", "stop"} -> Seq(Entry)]
         /\ rows' \subseteq Entry /\ missed' \subseteq Entry
         /\ left' \in [BudgetKinds -> Nat]
<1>1. <<>> \in Seq(Entry) /\ flushing[f] \in Seq(Entry)
  BY DEF PathTypeOK
<1>2. Range(flushing[f]) \subseteq Entry
  BY <1>1, RangeInSet
<1>3. flushing' = [flushing EXCEPT ![f] = <<>>]
  BY DEF Commit
<1> QED
  BY <1>1, <1>2, <1>3, SpendTypes DEF Commit, PathTypeOK

LEMMA PathInitTypes == PathInit => PathTypeOK
<1> SUFFICES ASSUME PathInit PROVE PathTypeOK
  OBVIOUS
<1>1. <<>> \in Seq(Events) /\ <<>> \in Seq(Entry) /\ Len(<<>>) = 0
  OBVIOUS
<1>2. queue \in Seq(Events) /\ Len(queue) <= SinkQueue /\ hist \in Seq(Entry) /\ Len(hist) <= HistoryQueue
  BY <1>1 DEF PathInit
<1>3. flushing \in [{"thread", "stop"} -> Seq(Entry)]
  BY <1>1 DEF PathInit
<1>4. /\ at \in [Workers -> WorkerPc] /\ cur \in [Workers -> Events \cup {NoEvent}]
      /\ gone \in [Events -> Reasons \cup {"no"}] /\ left \in [BudgetKinds -> Nat]
  BY DEF PathInit, WorkerPc
<1> QED
  BY <1>2, <1>3, <1>4 DEF PathInit, PathTypeOK, ManagerPc, LifePc

(* The worker's event, while it has one, is an event.                      *)
HasEvent  == {"clip", "upload", "record", "skip", "forward"}
HoldsEvent ==
  \A w \in Workers : /\ at[w] \in HasEvent => cur[w] \in Events
                     /\ at[w] \in {"clip", "upload", "skip"} => cur[w] \in Incidents

PathTypes == PathTypeOK /\ HoldsEvent

LEMMA PathNextTypes == PathTypes /\ [PathNext]_pathVars => PathTypes'
<1> SUFFICES ASSUME PathTypes, [PathNext]_pathVars PROVE PathTypes'
  OBVIOUS
<1> USE DEF PathTypes, sink, worker, history
<1>1. CASE UNCHANGED pathVars
  BY <1>1 DEF pathVars, PathTypeOK, HoldsEvent
<1>2. CASE PipelineStep
  <2> USE DEF UnchangedOutsideSink, HoldsEvent
  <2>1. ASSUME NEW e \in Incidents, Trigger(e) PROVE PathTypes'
    BY <2>1, SendTypes DEF Trigger, Events, PathTypeOK
  <2>2. ASSUME NEW e \in Silents, WatchdogEmits(e) PROVE PathTypes'
    BY <2>2 DEF WatchdogEmits, Events, PathTypeOK
  <2>3. CASE WatchdogSends
    <3>1. hand \in Events
      BY <2>3 DEF WatchdogSends, PathTypeOK, Events
    <3> QED
      BY <2>3, <3>1, SendTypes DEF WatchdogSends, PathTypeOK
  <2>4. CASE Interrupt
    BY <2>4 DEF Interrupt, PathTypeOK
  <2> QED
    BY <1>2, <2>1, <2>2, <2>3, <2>4 DEF PipelineStep
<1>3. CASE CloseStep
  <2> USE DEF HoldsEvent
  <2>1. CASE FlowEnds
    BY <2>1 DEF FlowEnds, UnchangedOutsideSink, PathTypeOK, ManagerPc
  <2>2. CASE StopWorkers
    BY <2>2, SpendTypes DEF StopWorkers, PathTypeOK, ManagerPc
  <2>3. CASE CloseReturns
    BY <2>3, SpendTypes DEF CloseReturns, PathTypeOK, ManagerPc
  <2> QED
    BY <1>3, <2>1, <2>2, <2>3 DEF CloseStep
<1>4. ASSUME NEW w \in Workers, WorkerStep(w) PROVE PathTypes'
  <2> USE DEF UnchangedOutsideWorker, HasEvent
  <2>0. /\ (IF stopping THEN "exit" ELSE "get") \in WorkerPc
        /\ (IF stopping THEN "exit" ELSE "get") \notin HasEvent
    BY DEF WorkerPc
  <2>1. CASE GetTimesOut(w)
    BY <2>0, <2>1, GotoTypes DEF GetTimesOut, GoesOn, Goto, PathTypeOK, HoldsEvent
  <2>2. CASE Get(w)
    <3>1. /\ Head(queue) \in Events /\ Tail(queue) \in Seq(Events)
          /\ Len(Tail(queue)) = Len(queue) - 1
      BY <2>2, RangeOfTail DEF Get, PathTypeOK
    <3>2. /\ cur' = [cur EXCEPT ![w] = Head(queue)]
          /\ Goto(w, IF ShouldClip(Head(queue)) THEN "clip" ELSE "record")
      BY <2>2 DEF Get, Takes
    <3>3. at' \in [Workers -> WorkerPc]
      BY <3>2, GotoTypes DEF WorkerPc
    <3>4. HoldsEvent'
      BY <3>1, <3>2 DEF HoldsEvent, Goto, ShouldClip, PathTypeOK
    <3>5. /\ queue' \in Seq(Events) /\ Len(queue') <= SinkQueue
          /\ cur' \in [Workers -> Events \cup {NoEvent}]
      BY <2>2, <3>1, <3>2 DEF Get, PathTypeOK
    <3> QED
      BY <2>2, <3>3, <3>4, <3>5 DEF Get, PathTypeOK
  <2>3. CASE CutClip(w)
    <3>1. cur[w] \in Incidents
      BY <2>3 DEF CutClip, At, HoldsEvent
    <3>2. Goto(w, IF MinioOn THEN "upload" ELSE "record")
      BY <2>3 DEF CutClip
    <3>3. at' \in [Workers -> WorkerPc]
      BY <3>2, GotoTypes DEF WorkerPc
    <3>4. HoldsEvent'
      BY <2>3, <3>1, <3>2 DEF CutClip, HoldsEvent, Goto, PathTypeOK, Events
    <3> QED
      BY <2>3, <3>1, <3>3, <3>4 DEF CutClip, PathTypeOK
  <2>4. CASE ClipFails(w)
    <3>1. cur[w] \in Incidents
      BY <2>4 DEF ClipFails, At, HoldsEvent
    <3>2. <<"clip error", cur[w]>> \in Entry
      BY <3>1 DEF Entry, Sends, Events
    <3>3. at' \in [Workers -> WorkerPc]
      BY <2>4, GotoTypes DEF ClipFails, WorkerPc
    <3>4. HoldsEvent'
      BY <2>4, <3>1 DEF ClipFails, HoldsEvent, Goto, PathTypeOK, Events
    <3> QED
      BY <2>4, <3>2, <3>3, <3>4, PutTypes DEF ClipFails, PathTypeOK
  <2>5. CASE Upload(w)
    <3>1. cur[w] \in Incidents
      BY <2>5 DEF Upload, At, HoldsEvent
    <3>2. <<"minio ok", cur[w]>> \in Entry /\ <<"minio error", cur[w]>> \in Entry
      BY <3>1 DEF Entry, Sends, Events
    <3>3. at' \in [Workers -> WorkerPc]
      BY <2>5, GotoTypes DEF Upload, WorkerPc
    <3>4. HoldsEvent'
      BY <2>5, <3>1 DEF Upload, HoldsEvent, Goto, PathTypeOK, Events
    <3>5. hist' \in Seq(Entry) /\ Len(hist') <= HistoryQueue /\ missed' \subseteq Entry
      BY <2>5, <3>2, PutTypes DEF Upload
    <3>6. left' \in [BudgetKinds -> Nat]
      BY <2>5, SpendTypes DEF Upload, PathTypeOK
    <3> QED
      BY <2>5, <3>3, <3>4, <3>5, <3>6 DEF Upload, PathTypeOK
  <2>6. CASE RecordTrigger(w)
    <3>1. cur[w] \in Events
      BY <2>6 DEF RecordTrigger, At, HoldsEvent
    <3>2. <<"trigger", cur[w]>> \in Entry
      BY <3>1 DEF Entry
    <3>3. at' \in [Workers -> WorkerPc]
      BY <2>6, GotoTypes DEF RecordTrigger, WorkerPc
    <3>4. HoldsEvent'
      BY <2>6, <3>1 DEF RecordTrigger, HoldsEvent, Goto, MissesVideo, PathTypeOK, Events
    <3> QED
      BY <2>6, <3>2, <3>3, <3>4, PutTypes DEF RecordTrigger, PathTypeOK
  <2>7. CASE SkipWebhook(w)
    <3>1. cur[w] \in Incidents
      BY <2>7 DEF SkipWebhook, At, HoldsEvent
    <3>2. <<"webhook skipped", cur[w]>> \in Entry
      BY <3>1 DEF Entry, Sends, Events
    <3>3. at' \in [Workers -> WorkerPc]
      BY <2>0, <2>7, GotoTypes DEF SkipWebhook, GoesOn
    <3>4. HoldsEvent'
      BY <2>0, <2>7 DEF SkipWebhook, HoldsEvent, GoesOn, Goto, PathTypeOK
    <3>5. gone' \in [Events -> Reasons \cup {"no"}]
      BY <2>7 DEF SkipWebhook, PathTypeOK, Reasons
    <3> QED
      BY <2>7, <3>2, <3>3, <3>4, <3>5, PutTypes DEF SkipWebhook, PathTypeOK
  <2>8. CASE Forward(w)
    <3>1. cur[w] \in Events
      BY <2>8 DEF Forward, At, HoldsEvent
    <3>3. at' \in [Workers -> WorkerPc]
      BY <2>0, <2>8, GotoTypes DEF Forward, GoesOn
    <3>4. HoldsEvent'
      BY <2>0, <2>8 DEF Forward, HoldsEvent, GoesOn, Goto, PathTypeOK
    <3>5. gone' \in [Events -> Reasons \cup {"no"}] /\ outbox' \subseteq Events
      BY <2>8, <3>1 DEF Forward, PathTypeOK, Reasons
    <3>6. left' \in [BudgetKinds -> Nat]
      BY <2>8, SpendTypes DEF Forward, PathTypeOK
    <3> QED
      BY <2>8, <3>1, <3>3, <3>4, <3>5, <3>6 DEF Forward, PathTypeOK
  <2> QED
    BY <1>4, <2>1, <2>2, <2>3, <2>4, <2>5, <2>6, <2>7, <2>8 DEF WorkerStep
<1>5. CASE WriterStep
  <2> USE DEF UnchangedOutsideHistory, HoldsEvent
  <2>1. CASE WriterDrains
    BY <2>1, DrainTypes DEF WriterDrains, PathTypeOK
  <2>2. CASE WriterCommits
    BY <2>2, CommitTypes DEF WriterCommits, PathTypeOK
  <2>3. CASE WriterExits
    BY <2>3 DEF WriterExits, PathTypeOK
  <2> QED
    BY <1>5, <2>1, <2>2, <2>3 DEF WriterStep
<1>6. CASE LifeStep
  <2> USE DEF UnchangedOutsideLife, HoldsEvent, LifePc
  <2>1. CASE StopProcess
    BY <2>1 DEF StopProcess, PathTypeOK
  <2>2. CASE ManagerStopped
    BY <2>2, SpendTypes DEF ManagerStopped, PathTypeOK
  <2>3. CASE WriterJoined
    BY <2>3, SpendTypes DEF WriterJoined, PathTypeOK
  <2>4. CASE StopDrains
    BY <2>4, DrainTypes DEF StopDrains, PathTypeOK
  <2>5. CASE StopCommits
    BY <2>5, CommitTypes DEF StopCommits, PathTypeOK
  <2>6. CASE NothingToFlush
    BY <2>6 DEF NothingToFlush, PathTypeOK
  <2>7. CASE ProcessDies
    BY <2>7, SpendTypes DEF ProcessDies, PathTypeOK
  <2> QED
    BY <1>6, <2>1, <2>2, <2>3, <2>4, <2>5, <2>6, <2>7 DEF LifeStep
<1> QED
  BY <1>1, <1>2, <1>3, <1>4, <1>5, <1>6 DEF PathNext

(* The queues never hold more than their capacity, whoever puts into them, *)
(* and the fields of the path keep their types.                            *)
THEOREM PathTypeCorrect == PathSpec => []PathTypeOK
<1>1. PathInit => PathTypes
  BY PathInitTypes DEF PathTypes, PathInit, HoldsEvent, HasEvent
<1>2. PathTypes => PathTypeOK
  BY DEF PathTypes
<1> QED
  BY PathNextTypes, <1>1, <1>2, PTL DEF PathSpec

-----------------------------------------------------------------------------
(* close().                                                                *)

Held(e)    == \E w \in Workers : at[w] \in HasEvent /\ cur[w] = e
Settled(e) == e \in outbox \/ gone[e] # "no"

(* An incident that was emitted is on the queue, in a worker's hands, or   *)
(* settled.                                                                *)
Accounted == \A e \in Incidents : e \in fired => e \in Range(queue) \/ Held(e) \/ Settled(e)

(* After the drain nothing but a silence gets on the queue, and after the  *)
(* join no worker has an event any more.                                   *)
NothingLeft ==
  NoTimeouts =>
    /\ manager \in {"joining", "closed"} => Range(queue) \cap Incidents = {}
    /\ manager = "closed" => \A w \in Workers : at[w] = "exit"

(* Timeouts are only spent, so that NoTimeouts is false for good.          *)
OnlySpent == left["timeout"] \in Nat /\ left["timeout"] <= Budget["timeout"]

CloseInv == OnlySpent /\ Accounted /\ NothingLeft

LEMMA LeftMoves ==
  [PathNext]_pathVars => UNCHANGED left \/ Spend("fault") \/ Spend("timeout")
<1> SUFFICES ASSUME [PathNext]_pathVars PROVE UNCHANGED left \/ Spend("fault") \/ Spend("timeout")
  OBVIOUS
<1>1. CASE PipelineStep
  BY <1>1 DEF PipelineStep, Trigger, WatchdogEmits, WatchdogSends, Interrupt, UnchangedOutsideSink
<1>2. CASE CloseStep
  BY <1>2 DEF CloseStep, FlowEnds, StopWorkers, CloseReturns, UnchangedOutsideSink
<1>3. CASE \E w \in Workers : WorkerStep(w)
  BY <1>3 DEF WorkerStep, GetTimesOut, Get, CutClip, ClipFails, Upload, RecordTrigger,
              SkipWebhook, Forward
<1>4. CASE WriterStep
  BY <1>4 DEF WriterStep, WriterDrains, WriterCommits, WriterExits, Commit
<1>5. CASE LifeStep
  BY <1>5 DEF LifeStep, StopProcess, ManagerStopped, WriterJoined, StopDrains, StopCommits,
              Commit, NothingToFlush, ProcessDies, history
<1>6. CASE UNCHANGED pathVars
  BY <1>6 DEF pathVars
<1> QED
  BY <1>1, <1>2, <1>3, <1>4, <1>5, <1>6 DEF PathNext

LEMMA LeftFalls ==
  ASSUME PathTypeOK, OnlySpent, [PathNext]_pathVars
  PROVE  OnlySpent' /\ (NoTimeouts' => NoTimeouts /\ ~Spend("timeout"))
<1>0. left \in [BudgetKinds -> Nat] /\ Budget \in [BudgetKinds -> Nat]
  BY DEF PathTypeOK
<1>1. CASE UNCHANGED left
  <2>1. ~Spend("timeout")
    BY <1>0, <1>1 DEF Spend, BudgetKinds
  <2> QED
    BY <1>1, <2>1 DEF OnlySpent, NoTimeouts
<1>2. CASE Spend("fault")
  <2>1. left'["timeout"] = left["timeout"] /\ left["timeout"] \in Nat
    BY <1>0, <1>2 DEF Spend, BudgetKinds
  <2>2. ~Spend("timeout")
    BY <1>0, <2>1 DEF Spend, BudgetKinds
  <2> QED
    BY <2>1, <2>2 DEF OnlySpent, NoTimeouts
<1>3. CASE Spend("timeout")
  <2>1. left'["timeout"] = left["timeout"] - 1 /\ left["timeout"] > 0
    BY <1>0, <1>3 DEF Spend, BudgetKinds
  <2>2. Budget["timeout"] \in Nat
    BY <1>0 DEF BudgetKinds
  <2> QED
    BY <2>1, <2>2 DEF OnlySpent, NoTimeouts
<1>4. UNCHANGED left \/ Spend("fault") \/ Spend("timeout")
  BY LeftMoves
<1> QED
  BY <1>1, <1>2, <1>3, <1>4

(* The queue after a send, and the incidents it is about.                  *)
LEMMA SendAccounts ==
  ASSUME PathTypeOK, NEW e \in Events, Send(e)
  PROVE  /\ e \in Range(queue') \/ gone'[e] # "no"
         /\ Range(queue) \subseteq Range(queue') /\ Range(queue') \subseteq Range(queue) \cup {e}
         /\ \A f \in Events : gone[f] # "no" => gone'[f] # "no"
<1>0. queue \in Seq(Events) /\ gone \in [Events -> Reasons \cup {"no"}]
  BY DEF PathTypeOK
<1>1. CASE Len(queue) < SinkQueue
  <2>1. Range(Append(queue, e)) = Range(queue) \cup {e}
    BY <1>0, RangeOfAppend
  <2> QED
    BY <1>1, <2>1 DEF Send
<1>2. CASE ~(Len(queue) < SinkQueue)
  BY <1>0, <1>2 DEF Send
<1> QED
  BY <1>1, <1>2

(* Steps that leave the queue, the workers and what is settled alone.      *)
LEMMA CloseUndisturbed ==
  ASSUME CloseInv, OnlySpent', NoTimeouts' => NoTimeouts,
         UNCHANGED <<fired, queue, at, cur, outbox, gone>>,
         manager' \in {manager, "flow", "draining"}
  PROVE  CloseInv'
  BY DEF CloseInv, Accounted, NothingLeft, Held, Settled

LEMMA CloseNext == PathTypes /\ CloseInv /\ [PathNext]_pathVars => CloseInv'
<1> SUFFICES ASSUME PathTypes, CloseInv, [PathNext]_pathVars PROVE CloseInv'
  OBVIOUS
<1>0. /\ OnlySpent' /\ (NoTimeouts' => NoTimeouts /\ ~Spend("timeout"))
      /\ PathTypeOK /\ HoldsEvent
  BY LeftFalls DEF PathTypes, CloseInv
<1> USE DEF sink, worker, history
<1>1. CASE UNCHANGED pathVars
  BY <1>0, <1>1, CloseUndisturbed DEF pathVars
<1>2. CASE PipelineStep
  <2>1. ASSUME NEW e \in Incidents, Trigger(e) PROVE CloseInv'
    <3>1. /\ e \in Events /\ Send(e) /\ manager' = "flow" /\ fired' = fired \cup {e}
          /\ UNCHANGED <<at, cur, outbox>>
      BY <2>1 DEF Trigger, UnchangedOutsideSink, Events
    <3>2. Accounted'
      BY <1>0, <3>1, SendAccounts DEF CloseInv, Accounted, Held, Settled, Events
    <3> QED
      BY <1>0, <3>1, <3>2 DEF CloseInv, NothingLeft
  <2>2. ASSUME NEW e \in Silents, WatchdogEmits(e) PROVE CloseInv'
    <3>1. e \notin Incidents
      OBVIOUS
    <3> QED
      BY <1>0, <2>2, <3>1 DEF WatchdogEmits, UnchangedOutsideSink, CloseInv, Accounted,
                              NothingLeft, Held, Settled
  <2>3. CASE WatchdogSends
    <3>1. /\ hand \in Silents /\ hand \in Events /\ hand \notin Incidents /\ Send(hand)
          /\ UNCHANGED <<fired, manager, at, cur, outbox>>
      BY <1>0, <2>3 DEF WatchdogSends, UnchangedOutsideSink, PathTypeOK, Events
    <3>2. Accounted'
      BY <1>0, <3>1, SendAccounts DEF CloseInv, Accounted, Held, Settled, Events
    <3>3. NothingLeft'
      BY <1>0, <3>1, SendAccounts DEF CloseInv, NothingLeft
    <3> QED
      BY <1>0, <3>2, <3>3 DEF CloseInv
  <2>4. CASE Interrupt
    BY <1>0, <2>4, CloseUndisturbed DEF Interrupt, UnchangedOutsideSink
  <2> QED
    BY <1>2, <2>1, <2>2, <2>3, <2>4 DEF PipelineStep
<1>3. CASE CloseStep
  <2>1. CASE FlowEnds
    BY <1>0, <2>1, CloseUndisturbed DEF FlowEnds, UnchangedOutsideSink
  <2>2. CASE StopWorkers
    <3>1. Accounted' /\ manager' = "joining" /\ UNCHANGED queue
      BY <2>2 DEF StopWorkers, CloseInv, Accounted, Held, Settled
    <3>2. NoTimeouts' => Range(queue') = {}
      BY <1>0, <2>2 DEF StopWorkers, Drained, Range
    <3> QED
      BY <1>0, <3>1, <3>2 DEF CloseInv, NothingLeft
  <2>3. CASE CloseReturns
    <3>1. Accounted' /\ manager = "joining" /\ UNCHANGED <<queue, at>>
      BY <2>3 DEF CloseReturns, CloseInv, Accounted, Held, Settled
    <3>2. NoTimeouts' => \A w \in Workers : at[w] = "exit"
      BY <1>0, <2>3 DEF CloseReturns, Joined
    <3> QED
      BY <1>0, <3>1, <3>2 DEF CloseInv, NothingLeft
  <2> QED
    BY <1>3, <2>1, <2>2, <2>3 DEF CloseStep
<1>4. ASSUME NEW w \in Workers, WorkerStep(w) PROVE CloseInv'
  <2>1. at[w] # "exit" /\ UNCHANGED <<fired, manager>>
    BY <1>4 DEF WorkerStep, GetTimesOut, Get, CutClip, ClipFails, Upload, RecordTrigger,
                SkipWebhook, Forward, At, UnchangedOutsideWorker
  <2>2. SUFFICES /\ Range(queue') \subseteq Range(queue)
                 /\ \A e \in Incidents :
                      e \in Range(queue) \/ Held(e) \/ Settled(e) =>
                        e \in Range(queue') \/ Held(e)' \/ Settled(e)'
    BY <1>0, <2>1, <2>2 DEF CloseInv, Accounted, NothingLeft
  <2>3. at \in [Workers -> WorkerPc] /\ cur \in [Workers -> Events \cup {NoEvent}]
    BY <1>0 DEF PathTypeOK
  <2>4. ASSUME NEW place \in HasEvent, at[w] \in HasEvent, Goto(w, place), UNCHANGED cur
        PROVE  \A e : Held(e) => Held(e)'
    BY <2>3, <2>4 DEF Held, Goto
  <2>5. CASE GetTimesOut(w)
    BY <2>3, <2>5 DEF GetTimesOut, GoesOn, Goto, At, Held, HasEvent, Settled
  <2>6. CASE Get(w)
    <3>1. Range(queue) = {Head(queue)} \cup Range(queue')
      BY <1>0, <2>6, RangeOfTail DEF Get, PathTypeOK
    <3>2. /\ at[w] \notin HasEvent /\ at'[w] \in HasEvent /\ cur'[w] = Head(queue)
          /\ \A v \in Workers \ {w} : at'[v] = at[v] /\ cur'[v] = cur[v]
          /\ UNCHANGED <<outbox, gone>>
      BY <2>3, <2>6 DEF Get, Takes, Goto, At, HasEvent
    <3> QED
      BY <3>1, <3>2 DEF Held, Settled
  <2>7. CASE CutClip(w)
    BY <2>4, <2>7 DEF CutClip, At, HasEvent, Settled, UnchangedOutsideWorker
  <2>8. CASE ClipFails(w)
    BY <2>4, <2>8 DEF ClipFails, At, HasEvent, Settled, UnchangedOutsideWorker
  <2>9. CASE Upload(w)
    BY <2>4, <2>9 DEF Upload, At, HasEvent, Settled, UnchangedOutsideWorker
  <2>10. CASE RecordTrigger(w)
    BY <2>4, <2>10 DEF RecordTrigger, At, HasEvent, Settled, UnchangedOutsideWorker
  <2>11. ASSUME GoesOn(w), cur' = [cur EXCEPT ![w] = NoEvent]
         PROVE  \A e \in Events : Held(e) => Held(e)' \/ e = cur[w]
    BY <2>3, <2>11 DEF Held, GoesOn, Goto
  <2>12. CASE SkipWebhook(w)
    <3>1. gone \in [Events -> Reasons \cup {"no"}]
      BY <1>0 DEF PathTypeOK
    <3>2. \A e \in Events : Settled(e) \/ e = cur[w] => Settled(e)'
      BY <2>12, <3>1 DEF SkipWebhook, Settled
    <3> QED
      BY <2>11, <2>12, <3>2 DEF SkipWebhook, At, HasEvent, Events
  <2>13. CASE Forward(w)
    <3>1. gone \in [Events -> Reasons \cup {"no"}]
      BY <1>0 DEF PathTypeOK
    <3>2. \A e \in Events : Settled(e) \/ e = cur[w] => Settled(e)'
      BY <2>13, <3>1 DEF Forward, Settled
    <3> QED
      BY <2>11, <2>13, <3>2 DEF Forward, At, HasEvent, Events
  <2> QED
    BY <1>4, <2>5, <2>6, <2>7, <2>8, <2>9, <2>10, <2>12, <2>13 DEF WorkerStep
<1>5. CASE WriterStep
  BY <1>0, <1>5, CloseUndisturbed
     DEF WriterStep, WriterDrains, WriterCommits, WriterExits, UnchangedOutsideHistory
<1>6. CASE LifeStep
  BY <1>0, <1>6, CloseUndisturbed
     DEF LifeStep, StopProcess, ManagerStopped, WriterJoined, StopDrains, StopCommits,
         NothingToFlush, ProcessDies, UnchangedOutsideLife
<1> QED
  BY <1>1, <1>2, <1>3, <1>4, <1>5, <1>6 DEF PathNext

(* close() that reached no deadline leaves no incident behind: whatever    *)
(* the watchdog still sends, each one was handed on or given up with a     *)
(* reason (AsyncSink.close, async_sink.py:47).                             *)
THEOREM CloseCorrect == PathSpec => []CloseLosesNoIncident
<1>1. PathInit => PathTypes
  BY PathInitTypes DEF PathTypes, PathInit, HoldsEvent, HasEvent
<1>2. PathInit => CloseInv
  <2>1. Budget["timeout"] \in Nat
    BY DEF BudgetKinds
  <2> QED
    BY <2>1 DEF PathInit, CloseInv, OnlySpent, Accounted, NothingLeft
<1>3. CloseInv => CloseLosesNoIncident
  BY DEF CloseInv, Accounted, NothingLeft, CloseLosesNoIncident, Held, Settled, HasEvent
<1> QED
  BY PathNextTypes, CloseNext, <1>1, <1>2, <1>3, PTL DEF PathSpec

-----------------------------------------------------------------------------
(* The chain of sinks implements IncidentChannel.                          *)

(* The pipeline or its watchdog has sent it to the sink.                   *)
SentOff(e) == e \in fired /\ hand # e

(* An event is at one place at most, and at none before it was sent.       *)
Apart(e) ==
  /\ ~SentOff(e) => e \notin Range(queue) /\ \A w \in Workers : cur[w] # e
  /\ ~SentOff(e) \/ e \in Range(queue) \/ (\E w \in Workers : cur[w] = e) => ~Settled(e)
  /\ e \in Range(queue) => \A w \in Workers : cur[w] # e
  /\ e \in outbox => gone[e] = "no"
  /\ SentOff(e) => e \in Range(queue) \/ (\E w \in Workers : cur[w] = e) \/ Settled(e)

QueueApart == \A i, j \in 1..Len(queue) : queue[i] = queue[j] => i = j

(* Two workers never have the same event; it is in their hands until they  *)
(* settle it; what is uploaded is a clip.                                  *)
HandsApart ==
  \A w \in Workers :
    /\ cur[w] # NoEvent <=> at[w] \in HasEvent
    /\ at[w] = "upload" => cur[w] \in clips
    /\ \A v \in Workers : cur[v] = cur[w] /\ cur[v] # NoEvent => v = w

OnePlace ==
  /\ hand # NoEvent => hand \in fired
  /\ QueueApart /\ HandsApart
  /\ \A e \in Events : Apart(e)

LEMMA OnePlaceInit == PathInit => OnePlace
<1> SUFFICES ASSUME PathInit PROVE OnePlace
  OBVIOUS
<1>1. QueueApart /\ Range(queue) = {}
  <2>1. queue = <<>> /\ 1..Len(<<>>) = {}
    BY DEF PathInit
  <2>2. QueueApart
    BY <2>1 DEF QueueApart
  <2>3. Range(queue) = {}
    BY <2>1 DEF Range
  <2> QED
    BY <2>2, <2>3
<1>2. HandsApart
  BY DEF PathInit, HandsApart, HasEvent
<1>3. ASSUME NEW e \in Events PROVE Apart(e)
  <2>1. gone[e] = "no" /\ e \notin outbox /\ e \notin fired /\ \A w \in Workers : cur[w] # e
    BY DEF PathInit
  <2> QED
    BY <1>1, <2>1 DEF Apart, SentOff, Settled
<1> QED
  BY <1>1, <1>2, <1>3 DEF PathInit, OnePlace

-----------------------------------------------------------------------------
(* What an event has come to, read off its place.                          *)
LEMMA FateSettled ==
  ASSUME PathTypeOK, OnePlace, NEW e \in Events
  PROVE  /\ ~SentOff(e) => Fate(e) = "new"
         /\ e \in outbox => Fate(e) = "forwarded"
         /\ gone[e] = "no clip" => Fate(e) = "skipped"
         /\ gone[e] \notin {"no", "no clip"} => Fate(e) = "lost"
         /\ SentOff(e) /\ ~Settled(e) /\ ~Running => Fate(e) = "lost"
         /\ Running /\ e \in Range(queue) => Fate(e) = "accepted"
  BY DEF OnePlace, Apart, SentOff, Settled, Fate

LEMMA TheWorker ==
  ASSUME NEW f, NEW w \in Workers, \A v \in Workers : f[v] = f[w] => v = w
  PROVE  (CHOOSE v \in Workers : f[v] = f[w]) = w
  OBVIOUS

LEMMA FateInHands ==
  ASSUME OnePlace, NEW w \in Workers, NEW e \in Events, cur[w] = e, Running
  PROVE  Fate(e) = Stage(at[w], e)
<1>1. SentOff(e) /\ ~Settled(e) /\ e \notin Range(queue)
  BY DEF OnePlace, Apart
<1>2. \A v \in Workers : cur[v] = cur[w] => v = w
  <2>1. HandsApart /\ cur[w] # NoEvent
    BY DEF OnePlace
  <2> QED
    BY <2>1 DEF HandsApart
<1>3. (CHOOSE v \in Workers : cur[v] = e) = w
  BY <1>2, TheWorker
<1> QED
  BY <1>1, <1>3 DEF Fate, SentOff, Settled

LEMMA FateInHandsNext ==
  ASSUME OnePlace', NEW w \in Workers, NEW e \in Events, cur'[w] = e, Running'
  PROVE  Fate(e)' = Stage(at[w], e)'
<1>1. SentOff(e)' /\ ~Settled(e)' /\ e \notin Range(queue)'
  BY DEF OnePlace, Apart
<1>2. \A v \in Workers : cur'[v] = cur'[w] => v = w
  <2>1. HandsApart' /\ cur'[w] # NoEvent
    BY DEF OnePlace
  <2> QED
    BY <2>1 DEF HandsApart
<1>3. (CHOOSE v \in Workers : cur'[v] = e) = w
  BY <1>2, TheWorker
<1> QED
  BY <1>1, <1>3 DEF Fate, SentOff, Settled

(* A step that leaves an event where it is leaves its fate.                *)
LEMMA FateKept ==
  ASSUME NEW e \in Events,
         SentOff(e)' <=> SentOff(e), gone'[e] = gone[e],
         e \in outbox' <=> e \in outbox, e \in Range(queue') <=> e \in Range(queue),
         e \in clips' <=> e \in clips, Running' <=> Running,
         \A w \in Workers : (cur'[w] = e <=> cur[w] = e) /\ (cur[w] = e => at'[w] = at[w])
  PROVE  Fate(e)' = Fate(e)
<1>1. (CHOOSE w \in Workers : cur'[w] = e) = (CHOOSE w \in Workers : cur[w] = e)
  OBVIOUS
<1>2. CASE \E w \in Workers : cur[w] = e
  <2>1. PICK w \in Workers : w = (CHOOSE v \in Workers : cur[v] = e) /\ cur[w] = e
    BY <1>2
  <2>2. Stage(at[w], e)' = Stage(at[w], e)
    BY <2>1 DEF Stage
  <2> QED
    BY <1>1, <1>2, <2>1, <2>2 DEF Fate, SentOff
<1>3. CASE ~\E w \in Workers : cur[w] = e
  BY <1>3 DEF Fate, SentOff
<1> QED
  BY <1>2, <1>3

LEMMA OnePlaceUndisturbed ==
  ASSUME OnePlace, UNCHANGED <<hand, fired, queue, at, cur, outbox, gone>>, clips \subseteq clips'
  PROVE  OnePlace'
<1>1. HandsApart' /\ QueueApart'
  BY DEF OnePlace, HandsApart, QueueApart
<1>2. \A e \in Events : Apart(e)'
  BY DEF OnePlace, Apart, SentOff, Settled
<1> QED
  BY <1>1, <1>2 DEF OnePlace

(* What the sink does with an event that it has not had yet.               *)
LEMMA SendPlaces ==
  ASSUME PathTypeOK, OnePlace, NEW e \in Events, ~SentOff(e), Send(e)
  PROVE  /\ QueueApart'
         /\ \A f \in Events \ {e} : gone'[f] = gone[f] /\ (f \in Range(queue') <=> f \in Range(queue))
         /\ \/ e \in Range(queue') /\ gone'[e] = "no"
            \/ e \notin Range(queue') /\ gone'[e] = "queue full"
<1>0. /\ queue \in Seq(Events) /\ gone \in [Events -> Reasons \cup {"no"}]
      /\ e \notin Range(queue) /\ gone[e] = "no" /\ QueueApart
  BY DEF PathTypeOK, OnePlace, Apart, Settled
<1>1. CASE Len(queue) < SinkQueue
  <2>1. queue' = Append(queue, e) /\ gone' = gone
    BY <1>1 DEF Send
  <2>2. Range(queue') = Range(queue) \cup {e}
    BY <1>0, <2>1, RangeOfAppend
  <2>3. /\ Len(queue') = Len(queue) + 1 /\ queue'[Len(queue) + 1] = e
        /\ \A i \in 1..Len(queue) : queue'[i] = queue[i] /\ queue[i] # e
    BY <1>0, <2>1 DEF Range
  <2>4. QueueApart'
    <3>1. Len(queue) \in Nat /\ \A i \in 1..Len(queue') : i \in 1..Len(queue) \/ i = Len(queue) + 1
      BY <1>0, <2>3
    <3> QED
      BY <1>0, <2>3, <3>1 DEF QueueApart
  <2> QED
    BY <1>0, <2>1, <2>2, <2>4
<1>2. CASE ~(Len(queue) < SinkQueue)
  BY <1>0, <1>2 DEF Send, QueueApart
<1> QED
  BY <1>1, <1>2

(* The queue without its head, which is on it once.                        *)
LEMMA HeadLeaves ==
  ASSUME queue \in Seq(Events), QueueApart, queue # <<>>, queue' = Tail(queue)
  PROVE  /\ Head(queue) \in Events /\ QueueApart' /\ Head(queue) \notin Range(queue')
         /\ Range(queue) = {Head(queue)} \cup Range(queue')
<1>1. /\ Head(queue) = queue[1] /\ Len(queue) \in Nat /\ Len(queue') = Len(queue) - 1 /\ Len(queue) >= 1
      /\ \A i \in 1..Len(queue') : queue'[i] = queue[i + 1]
  OBVIOUS
<1>2. \A i \in 1..Len(queue') : i + 1 \in 1..Len(queue) /\ i + 1 # 1 /\ 1 \in 1..Len(queue)
  BY <1>1
<1>3. \A i \in 1..Len(queue') : queue'[i] # Head(queue)
  BY <1>1, <1>2 DEF QueueApart
<1>4. QueueApart'
  <2> SUFFICES ASSUME NEW i \in 1..Len(queue'), NEW j \in 1..Len(queue'), queue'[i] = queue'[j]
               PROVE  i = j
    BY DEF QueueApart
  <2>1. i + 1 = j + 1
    BY <1>1, <1>2 DEF QueueApart
  <2> QED
    BY <2>1
<1>5. Head(queue) \in Events /\ Range(queue) = {Head(queue)} \cup Range(queue')
  BY RangeOfTail
<1> QED
  BY <1>3, <1>4, <1>5 DEF Range

(* A worker goes on with its event.                                        *)
LEMMA StaysInHands ==
  ASSUME PathTypeOK, OnePlace, NEW w \in Workers, NEW place \in HasEvent, at[w] \in HasEvent,
         Goto(w, place), UNCHANGED <<hand, fired, queue, cur, outbox, gone>>,
         clips \subseteq clips', place = "upload" => cur[w] \in clips'
  PROVE  OnePlace'
<1>1. at' = [at EXCEPT ![w] = place] /\ at \in [Workers -> WorkerPc]
  BY DEF Goto, PathTypeOK
<1>2. HandsApart'
  BY <1>1 DEF OnePlace, HandsApart
<1>3. QueueApart' /\ \A e \in Events : Apart(e)'
  BY DEF OnePlace, QueueApart, Apart, SentOff, Settled
<1> QED
  BY <1>2, <1>3 DEF OnePlace

(* A worker settles its event.                                             *)
LEMMA LeavesHands ==
  ASSUME PathTypeOK, OnePlace, NEW w \in Workers, at[w] \in HasEvent, cur[w] \in Events,
         GoesOn(w), cur' = [cur EXCEPT ![w] = NoEvent], UNCHANGED <<hand, fired, queue, clips>>,
         \/ outbox' = outbox \cup {cur[w]} /\ UNCHANGED gone
         \/ /\ outbox' = outbox
            /\ \E reason \in Reasons : gone' = [gone EXCEPT ![cur[w]] = reason]
  PROVE  OnePlace'
<1>1. /\ at \in [Workers -> WorkerPc] /\ cur \in [Workers -> Events \cup {NoEvent}]
      /\ gone \in [Events -> Reasons \cup {"no"}] /\ "no" \notin Reasons
  BY DEF PathTypeOK, Reasons
<1>2. /\ at' = [at EXCEPT ![w] = IF stopping THEN "exit" ELSE "get"]
      /\ "exit" \notin HasEvent /\ "get" \notin HasEvent
  BY DEF GoesOn, Goto, HasEvent
<1>3. HandsApart /\ QueueApart /\ (\A e \in Events : Apart(e)) /\ (hand # NoEvent => hand \in fired)
  BY DEF OnePlace
<1>4. HandsApart'
  BY <1>1, <1>2, <1>3 DEF HandsApart
<1>5. ASSUME NEW e \in Events PROVE Apart(e)'
  <2>1. CASE e = cur[w]
    <3>1. SentOff(e) /\ e \notin Range(queue) /\ ~Settled(e)
      BY <1>3, <2>1 DEF Apart
    <3>2. \A v \in Workers : cur'[v] # e
      BY <1>1, <1>3, <2>1 DEF HandsApart
    <3>3. SentOff(e)' /\ e \notin Range(queue') /\ Settled(e)' /\ (e \in outbox' => gone'[e] = "no")
      BY <1>1, <2>1, <3>1 DEF SentOff, Settled, Range
    <3> QED
      BY <3>2, <3>3 DEF Apart
  <2>2. CASE e # cur[w]
    <3>1. /\ gone'[e] = gone[e] /\ (e \in outbox' <=> e \in outbox)
          /\ \A v \in Workers : cur'[v] = e <=> cur[v] = e
      BY <1>1, <2>2
    <3>2. Apart(e)
      BY <1>3
    <3> QED
      BY <3>1, <3>2 DEF Apart, SentOff, Settled
  <2> QED
    BY <2>1, <2>2
<1> QED
  BY <1>3, <1>4, <1>5 DEF OnePlace, QueueApart

(* The watchdog sends an event that the sink has not had.                  *)
LEMMA NotYetSent ==
  ASSUME OnePlace, NEW e \in Events, ~SentOff(e)
  PROVE  /\ e \notin Range(queue) /\ (\A w \in Workers : cur[w] # e) /\ ~Settled(e)
         /\ e \notin outbox /\ gone[e] = "no"
  BY DEF OnePlace, Apart, Settled

(* An event is sent: the others stay where they are.                       *)
LEMMA SendOnePlace ==
  ASSUME PathTypeOK, OnePlace, NEW e \in Events, ~SentOff(e), Send(e), SentOff(e)',
         \A f \in Events \ {e} : SentOff(f)' <=> SentOff(f),
         hand' # NoEvent => hand' \in fired',
         UNCHANGED <<at, cur, clips, outbox>>
  PROVE  OnePlace'
<1>1. HandsApart' /\ QueueApart'
  BY SendPlaces DEF OnePlace, HandsApart
<1>2. ASSUME NEW f \in Events PROVE Apart(f)'
  <2>0. Apart(f)
    BY DEF OnePlace
  <2>1. CASE f = e
    <3>1. /\ (\A w \in Workers : cur'[w] # f) /\ f \notin outbox'
          /\ \/ f \in Range(queue') /\ gone'[f] = "no"
             \/ f \notin Range(queue') /\ gone'[f] = "queue full"
      BY <2>1, NotYetSent, SendPlaces
    <3> QED
      BY <2>1, <3>1 DEF Apart, Settled
  <2>2. CASE f # e
    <3>1. gone'[f] = gone[f] /\ (f \in Range(queue') <=> f \in Range(queue)) /\ (SentOff(f)' <=> SentOff(f))
      BY <2>2, SendPlaces
    <3> QED
      BY <2>0, <3>1 DEF Apart, Settled
  <2> QED
    BY <2>1, <2>2
<1> QED
  BY <1>1, <1>2 DEF OnePlace

(* A worker takes the head of the queue.                                   *)
LEMMA GetOnePlace ==
  ASSUME PathTypes, OnePlace, NEW w \in Workers, Get(w)
  PROVE  OnePlace'
<1>0. /\ queue \in Seq(Events) /\ queue # <<>> /\ queue' = Tail(queue) /\ QueueApart
      /\ at \in [Workers -> WorkerPc] /\ cur \in [Workers -> Events \cup {NoEvent}]
      /\ at[w] = "get" /\ UNCHANGED <<hand, fired, outbox, gone, clips>>
  BY DEF Get, At, PathTypes, PathTypeOK, OnePlace, UnchangedOutsideWorker
<1>1. /\ Head(queue) \in Events /\ QueueApart' /\ Head(queue) \notin Range(queue')
      /\ Range(queue) = {Head(queue)} \cup Range(queue')
  BY <1>0, HeadLeaves
<1>2. PICK e \in Events : e = Head(queue) /\ e \in Range(queue) /\ e \notin Range(queue')
  BY <1>1
<1>3. /\ cur' = [cur EXCEPT ![w] = e]
      /\ at' = [at EXCEPT ![w] = IF ShouldClip(e) THEN "clip" ELSE "record"]
  BY <1>2 DEF Get, Takes, Goto
<1>4. cur[w] = NoEvent /\ \A v \in Workers : cur[v] # e
  BY <1>0, <1>2 DEF OnePlace, HandsApart, Apart, HasEvent
<1>5. HandsApart'
  <2>1. HandsApart /\ e # NoEvent
    BY DEF OnePlace
  <2> QED
    BY <1>0, <1>3, <1>4, <2>1 DEF HandsApart, HasEvent
<1>6. ASSUME NEW f \in Events PROVE Apart(f)'
  <2>0. Apart(f)
    BY DEF OnePlace
  <2>1. CASE f = e
    <3>1. SentOff(f) /\ ~Settled(f) /\ cur'[w] = f /\ f \notin Range(queue') /\ (f \in outbox => gone[f] = "no")
      BY <1>0, <1>2, <1>3, <2>0, <2>1 DEF Apart
    <3> QED
      BY <1>0, <3>1 DEF Apart, Settled, SentOff
  <2>2. CASE f # e
    <3>1. (f \in Range(queue') <=> f \in Range(queue)) /\ \A v \in Workers : cur'[v] = f <=> cur[v] = f
      BY <1>0, <1>1, <1>2, <1>3, <1>4, <2>2
    <3> QED
      BY <1>0, <2>0, <3>1 DEF Apart, Settled, SentOff
  <2> QED
    BY <2>1, <2>2
<1> QED
  BY <1>0, <1>1, <1>5, <1>6 DEF OnePlace

LEMMA OnePlaceNext == PathTypes /\ OnePlace /\ [PathNext]_pathVars => OnePlace'
<1> SUFFICES ASSUME PathTypes, OnePlace, [PathNext]_pathVars PROVE OnePlace'
  OBVIOUS
<1>0. PathTypeOK /\ HoldsEvent
  BY DEF PathTypes
<1> USE DEF sink, worker, history
<1>1. CASE UNCHANGED pathVars
  BY <1>1, OnePlaceUndisturbed DEF pathVars
<1>2. CASE PipelineStep
  <2>1. ASSUME NEW e \in Incidents, Trigger(e) PROVE OnePlace'
    <3>1. /\ e \in Events /\ Send(e) /\ e \notin fired /\ fired' = fired \cup {e}
          /\ UNCHANGED <<hand, at, cur, clips, outbox>>
      BY <2>1 DEF Trigger, UnchangedOutsideSink, Events
    <3>2. hand # e
      BY <1>0, <2>1 DEF PathTypeOK, Events
    <3>3. ~SentOff(e) /\ SentOff(e)' /\ \A f \in Events \ {e} : SentOff(f)' <=> SentOff(f)
      BY <3>1, <3>2 DEF SentOff
    <3>4. hand' # NoEvent => hand' \in fired'
      BY <3>1 DEF OnePlace
    <3> QED
      BY <1>0, <3>1, <3>3, <3>4, SendOnePlace
  <2>2. ASSUME NEW e \in Silents, WatchdogEmits(e) PROVE OnePlace'
    <3>1. /\ e \in Events /\ hand = NoEvent /\ e \notin fired /\ fired' = fired \cup {e} /\ hand' = e
          /\ UNCHANGED <<queue, at, cur, clips, outbox, gone>>
      BY <2>2 DEF WatchdogEmits, UnchangedOutsideSink, Events
    <3>2. \A f \in Events : SentOff(f)' <=> SentOff(f)
      BY <3>1 DEF SentOff
    <3>3. \A f \in Events : Apart(f)'
      BY <3>1, <3>2 DEF OnePlace, Apart, Settled
    <3> QED
      BY <3>1, <3>3 DEF OnePlace, HandsApart, QueueApart
  <2>3. CASE WatchdogSends
    <3>1. PICK e \in Events : e = hand
      BY <1>0, <2>3 DEF WatchdogSends, PathTypeOK, Events
    <3>2. /\ Send(e) /\ hand' = NoEvent /\ e \in fired /\ e # NoEvent
          /\ UNCHANGED <<fired, at, cur, clips, outbox>>
      BY <2>3, <3>1 DEF WatchdogSends, UnchangedOutsideSink, OnePlace
    <3>3. ~SentOff(e) /\ SentOff(e)' /\ \A f \in Events \ {e} : SentOff(f)' <=> SentOff(f)
      BY <3>1, <3>2 DEF SentOff
    <3> QED
      BY <1>0, <3>2, <3>3, SendOnePlace
  <2>4. CASE Interrupt
    BY <2>4, OnePlaceUndisturbed DEF Interrupt, UnchangedOutsideSink
  <2> QED
    BY <1>2, <2>1, <2>2, <2>3, <2>4 DEF PipelineStep
<1>3. CASE CloseStep
  BY <1>3, OnePlaceUndisturbed DEF CloseStep, FlowEnds, StopWorkers, CloseReturns, UnchangedOutsideSink
<1>4. ASSUME NEW w \in Workers, WorkerStep(w) PROVE OnePlace'
  <2> USE DEF UnchangedOutsideWorker, At
  <2>1. CASE GetTimesOut(w)
    <3>1. /\ at \in [Workers -> WorkerPc] /\ at[w] = "get" /\ at' = [at EXCEPT ![w] = "exit"]
          /\ UNCHANGED <<hand, fired, queue, cur, clips, outbox, gone>>
      BY <1>0, <2>1 DEF GetTimesOut, GoesOn, Goto, PathTypeOK
    <3>2. HandsApart'
      BY <3>1 DEF OnePlace, HandsApart, HasEvent
    <3>3. QueueApart' /\ \A e \in Events : Apart(e)'
      BY <3>1 DEF OnePlace, QueueApart, Apart, SentOff, Settled
    <3> QED
      BY <3>1, <3>2, <3>3 DEF OnePlace
  <2>2. CASE Get(w)
    BY <2>2, GetOnePlace
  <2>3. CASE CutClip(w)
    <3>1. at[w] \in HasEvent /\ clips' = clips \cup {cur[w]} /\ UNCHANGED <<hand, fired, queue, cur, outbox, gone>>
      BY <2>3 DEF CutClip, HasEvent
    <3>2. PICK place \in HasEvent : Goto(w, place)
      BY <2>3 DEF CutClip, HasEvent
    <3> QED
      BY <1>0, <3>1, <3>2, StaysInHands
  <2>4. CASE ClipFails(w)
    <3>1. /\ at[w] \in HasEvent /\ "record" \in HasEvent /\ Goto(w, "record")
          /\ UNCHANGED <<hand, fired, queue, cur, clips, outbox, gone>>
      BY <2>4 DEF ClipFails, HasEvent
    <3> QED
      BY <1>0, <3>1, StaysInHands
  <2>5. CASE Upload(w)
    <3>1. /\ at[w] \in HasEvent /\ "record" \in HasEvent /\ Goto(w, "record")
          /\ UNCHANGED <<hand, fired, queue, cur, clips, outbox, gone>>
      BY <2>5 DEF Upload, HasEvent
    <3> QED
      BY <1>0, <3>1, StaysInHands
  <2>6. CASE RecordTrigger(w)
    <3>1. at[w] \in HasEvent /\ UNCHANGED <<hand, fired, queue, cur, clips, outbox, gone>>
      BY <2>6 DEF RecordTrigger, HasEvent
    <3>2. PICK place \in HasEvent : Goto(w, place) /\ place # "upload"
      BY <2>6 DEF RecordTrigger, HasEvent
    <3> QED
      BY <1>0, <3>1, <3>2, StaysInHands
  <2>7. CASE SkipWebhook(w)
    <3>1. /\ at[w] \in HasEvent /\ GoesOn(w) /\ cur' = [cur EXCEPT ![w] = NoEvent] /\ outbox' = outbox
          /\ gone' = [gone EXCEPT ![cur[w]] = "no clip"] /\ "no clip" \in Reasons
          /\ UNCHANGED <<hand, fired, queue, clips>>
      BY <2>7 DEF SkipWebhook, HasEvent, Reasons
    <3>2. cur[w] \in Events
      BY <1>0, <3>1 DEF HoldsEvent
    <3> QED
      BY <1>0, <3>1, <3>2, LeavesHands
  <2>8. CASE Forward(w)
    <3>1. /\ at[w] \in HasEvent /\ GoesOn(w) /\ cur' = [cur EXCEPT ![w] = NoEvent]
          /\ \/ outbox' = outbox \cup {cur[w]} /\ UNCHANGED gone
             \/ outbox' = outbox /\ gone' = [gone EXCEPT ![cur[w]] = "enqueue failed"]
          /\ "enqueue failed" \in Reasons
          /\ UNCHANGED <<hand, fired, queue, clips>>
      BY <2>8 DEF Forward, HasEvent, Reasons
    <3>2. cur[w] \in Events
      BY <1>0, <3>1 DEF HoldsEvent
    <3> QED
      BY <1>0, <3>1, <3>2, LeavesHands
  <2> QED
    BY <1>4, <2>1, <2>2, <2>3, <2>4, <2>5, <2>6, <2>7, <2>8 DEF WorkerStep
<1>5. CASE WriterStep
  BY <1>5, OnePlaceUndisturbed
     DEF WriterStep, WriterDrains, WriterCommits, WriterExits, UnchangedOutsideHistory
<1>6. CASE LifeStep
  BY <1>6, OnePlaceUndisturbed
     DEF LifeStep, StopProcess, ManagerStopped, WriterJoined, StopDrains, StopCommits,
         NothingToFlush, ProcessDies, UnchangedOutsideLife
<1> QED
  BY <1>1, <1>2, <1>3, <1>4, <1>5, <1>6 DEF PathNext

Fates == [e \in Events |-> Fate(e)]

(* How the fate of one event may move.                                     *)
Moves(e, from, to) ==
  \/ to = from
  \/ from = "new" /\ to = "accepted"
  \/ from = "accepted" /\ to = "clipped" /\ e \in Incidents
  \/ from = (IF e \in Incidents THEN "clipped" ELSE "accepted") /\ to = "recorded"
  \/ from = "accepted" /\ to = "noted" /\ e \in Incidents
  \/ from = "recorded" /\ to = "forwarded"
  \/ from = "noted" /\ to = "skipped"
  \/ from \notin {"forwarded", "skipped", "lost"} /\ to = "lost"

LEMMA OneMoves ==
  ASSUME NEW e \in Events, Moves(e, Fate(e), Fate(e)'), \A f \in Events \ {e} : Fate(f)' = Fate(f)
  PROVE  [Channel!ChannelNext]_Fates
<1>0. /\ Fates = [f \in Events |-> Fate(f)] /\ Fates' = [f \in Events |-> Fate(f)']
      /\ Fates' = [Fates EXCEPT ![e] = Fate(e)'] /\ Fates[e] = Fate(e)
      /\ e \in Channel!Events
  BY DEF Fates, Channel!Events, Events
<1>1. CASE Fate(e)' = Fate(e)
  BY <1>0, <1>1
<1>2. CASE Fate(e) \notin {"forwarded", "skipped", "lost"} /\ Fate(e)' = "lost"
  <2>1. Channel!Lose({e})
    BY <1>0, <1>2 DEF Channel!Lose, Channel!Final, Fates, Channel!Events, Events
  <2> QED
    BY <1>0, <2>1 DEF Channel!ChannelNext
<1>3. CASE /\ Fate(e)' # Fate(e)
           /\ ~(Fate(e) \notin {"forwarded", "skipped", "lost"} /\ Fate(e)' = "lost")
  <2>1. \/ Channel!Accept(e) \/ Channel!Clip(e) \/ Channel!Record(e) 
        \/ Channel!Note(e) \/ Channel!Forward(e) \/ Channel!Skip(e)
    BY <1>0, <1>3 DEF Moves, Channel!Accept, Channel!Clip, Channel!Record, Channel!Note, Channel!Forward, 
              Channel!Skip, Channel!Becomes, Fates
  <2> QED
    BY <1>0, <2>1 DEF Channel!ChannelNext
<1> QED
  BY <1>1, <1>2, <1>3

LEMMA SomeLost ==
  ASSUME \A e \in Events : \/ Fate(e)' = Fate(e)
                           \/ Fate(e) \notin {"forwarded", "skipped", "lost"} /\ Fate(e)' = "lost"
  PROVE  [Channel!ChannelNext]_Fates
<1> DEFINE E == {e \in Events : Fate(e)' # Fate(e)}
<1>0. Fates = [e \in Events |-> Fate(e)] /\ Fates' = [e \in Events |-> Fate(e)'] /\ Channel!Events = Events
  BY DEF Fates, Channel!Events, Events
<1>1. CASE E = {}
  BY <1>0, <1>1
<1>2. CASE E # {}
  <2>1. /\ E \in (SUBSET Channel!Events) \ {{}}
        /\ \A e \in E : Fate(e) \notin {"forwarded", "skipped", "lost"} /\ Fate(e)' = "lost"
        /\ \A e \in Events \ E : Fate(e)' = Fate(e)
    BY <1>0, <1>2
  <2>2. Channel!Lose(E)
    <3> HIDE DEF E
    <3> QED
      BY <1>0, <2>1 DEF Channel!Lose, Channel!Final, Fates
  <2> HIDE DEF E
  <2> QED
    BY <2>1, <2>2 DEF Channel!ChannelNext
<1> QED
  BY <1>1, <1>2

LEMMA FateUnsettled ==
  ASSUME PathTypes, OnePlace, NEW e \in Events, SentOff(e), ~Settled(e), Running
  PROVE  Fate(e) \notin {"forwarded", "skipped", "lost"}
<1>1. CASE e \in Range(queue)
  BY <1>1, FateSettled DEF PathTypes
<1>2. CASE \E w \in Workers : cur[w] = e
  <2>1. PICK w \in Workers : cur[w] = e
    BY <1>2
  <2>2. Fate(e) = Stage(at[w], e) /\ at[w] \in HasEvent
    BY <2>1, FateInHands DEF OnePlace, HandsApart
  <2> QED
    BY <2>2 DEF Stage, HasEvent
<1> QED
  BY <1>1, <1>2 DEF OnePlace, Apart

LEMMA FatesUndisturbed ==
  ASSUME UNCHANGED <<hand, fired, queue, at, cur, clips, outbox, gone>>, Running' <=> Running
  PROVE  [Channel!ChannelNext]_Fates
<1>1. \A e \in Events : Fate(e)' = Fate(e)
  BY FateKept DEF SentOff
<1> QED
  BY <1>1, SomeLost

(* The process is gone: what is not settled is lost.                       *)
LEMMA ExitLoses ==
  ASSUME PathTypes, OnePlace, Running, ~Running',
         UNCHANGED <<hand, fired, queue, at, cur, clips, outbox, gone>>
  PROVE  [Channel!ChannelNext]_Fates
<1>1. ASSUME NEW e \in Events, SentOff(e), ~Settled(e)
      PROVE  Fate(e) \notin {"forwarded", "skipped", "lost"} /\ Fate(e)' = "lost"
  <2>1. Fate(e)' = "lost"
    BY <1>1 DEF Fate, SentOff, Settled
  <2> QED
    BY <1>1, <2>1, FateUnsettled
<1>2. ASSUME NEW e \in Events, ~SentOff(e) \/ Settled(e) PROVE Fate(e)' = Fate(e)
  BY <1>2 DEF Fate, SentOff, Settled
<1> QED
  BY <1>1, <1>2, SomeLost

LEMMA SendMoves ==
  ASSUME PathTypeOK, OnePlace, NEW e \in Events, ~SentOff(e), Send(e), SentOff(e)',
         \A f \in Events \ {e} : SentOff(f)' <=> SentOff(f),
         UNCHANGED <<at, cur, clips, outbox>>, Running, Running'
  PROVE  [Channel!ChannelNext]_Fates
<1>1. ASSUME NEW f \in Events \ {e} PROVE Fate(f)' = Fate(f)
  BY SendPlaces, FateKept
<1>2. Fate(e) = "new"
  BY FateSettled
<1>3. Fate(e)' \in {"accepted", "lost"}
  <2>1. /\ e \notin outbox'
        /\ \/ e \in Range(queue') /\ gone'[e] = "no"
           \/ e \notin Range(queue') /\ gone'[e] = "queue full"
    BY SendPlaces, NotYetSent
  <2> QED
    BY <2>1 DEF Fate, SentOff
<1>4. Moves(e, Fate(e), Fate(e)')
  BY <1>2, <1>3 DEF Moves
<1> QED
  BY <1>1, <1>4, OneMoves

(* What a worker does to its event leaves the others where they are.       *)
LEMMA OthersKept ==
  ASSUME PathTypes, OnePlace, OnePlace', NEW w \in Workers, NEW e \in Events,
         UNCHANGED <<hand, fired, queue>>, Running' <=> Running,
         \A f \in Events \ {e} : /\ gone'[f] = gone[f] /\ (f \in outbox' <=> f \in outbox)
                                 /\ (f \in clips' <=> f \in clips),
         cur[w] = e, cur'[w] \in {e, NoEvent},
         \A v \in Workers \ {w} : at'[v] = at[v] /\ cur'[v] = cur[v]
  PROVE  \A f \in Events \ {e} : Fate(f)' = Fate(f)
<1> TAKE f \in Events \ {e}
<1>1. \A v \in Workers : (cur'[v] = f <=> cur[v] = f) /\ (cur[v] = f => at'[v] = at[v])
  OBVIOUS
<1> QED
  BY <1>1, FateKept DEF SentOff

(* A worker goes on with its event.                                        *)
LEMMA StaysMoves ==
  ASSUME PathTypes, OnePlace, OnePlace', NEW w \in Workers, NEW e \in Events, cur[w] = e,
         NEW place, Goto(w, place), UNCHANGED <<hand, fired, queue, cur, outbox, gone, life>>,
         Running, \A f \in Events \ {e} : f \in clips' <=> f \in clips,
         Moves(e, Stage(at[w], e), Stage(place, e)')
  PROVE  [Channel!ChannelNext]_Fates
<1>1. at'[w] = place /\ \A v \in Workers \ {w} : at'[v] = at[v]
  BY DEF Goto, PathTypes, PathTypeOK
<1>2. Running' /\ cur'[w] = e /\ (Running' <=> Running)
  BY DEF Running
<1>3. \A f \in Events \ {e} : Fate(f)' = Fate(f)
  BY <1>1, <1>2, OthersKept
<1>4. Fate(e) = Stage(at[w], e) /\ Fate(e)' = Stage(at[w], e)'
  BY <1>2, FateInHands, FateInHandsNext
<1>5. Stage(at[w], e)' = Stage(place, e)'
  BY <1>1 DEF Stage
<1>6. Moves(e, Fate(e), Fate(e)')
  BY <1>4, <1>5
<1> QED
  BY <1>3, <1>6, OneMoves

(* A worker settles its event.                                             *)
LEMMA LeavesMoves ==
  ASSUME PathTypes, OnePlace, OnePlace', NEW w \in Workers, NEW e \in Events, cur[w] = e,
         GoesOn(w), cur' = [cur EXCEPT ![w] = NoEvent],
         UNCHANGED <<hand, fired, queue, clips, life>>, Running,
         \A f \in Events \ {e} : gone'[f] = gone[f] /\ (f \in outbox' <=> f \in outbox),
         Moves(e, Stage(at[w], e), Fate(e)')
  PROVE  [Channel!ChannelNext]_Fates
<1>1. cur'[w] = NoEvent /\ \A v \in Workers \ {w} : at'[v] = at[v] /\ cur'[v] = cur[v]
  BY DEF GoesOn, Goto, PathTypes, PathTypeOK
<1>2. \A f \in Events \ {e} : Fate(f)' = Fate(f)
  BY <1>1, OthersKept DEF Running
<1>3. Fate(e) = Stage(at[w], e)
  BY FateInHands
<1> QED
  BY <1>2, <1>3, OneMoves

(* The head of the queue goes into a worker's hands: still accepted.       *)
LEMMA GetMoves ==
  ASSUME PathTypes, OnePlace, OnePlace', NEW w \in Workers, Get(w)
  PROVE  [Channel!ChannelNext]_Fates
<1>0. /\ queue \in Seq(Events) /\ queue # <<>> /\ queue' = Tail(queue) /\ QueueApart
      /\ at \in [Workers -> WorkerPc] /\ cur \in [Workers -> Events \cup {NoEvent}]
      /\ at[w] = "get" /\ Running /\ Running' /\ (Running' <=> Running)
      /\ UNCHANGED <<hand, fired, outbox, gone, clips>>
  BY DEF Get, At, Running, PathTypes, PathTypeOK, OnePlace, UnchangedOutsideWorker
<1>1. PICK e \in Events : /\ e = Head(queue) /\ e \notin Range(queue')
                          /\ Range(queue) = {e} \cup Range(queue')
  BY <1>0, HeadLeaves
<1>2. /\ cur' = [cur EXCEPT ![w] = e]
      /\ at' = [at EXCEPT ![w] = IF ShouldClip(e) THEN "clip" ELSE "record"]
  BY <1>1 DEF Get, Takes, Goto
<1>3. cur[w] = NoEvent
  BY <1>0 DEF OnePlace, HandsApart, HasEvent
<1>4. ASSUME NEW f \in Events \ {e} PROVE Fate(f)' = Fate(f)
  <2>1. \A v \in Workers : (cur'[v] = f <=> cur[v] = f) /\ (cur[v] = f => at'[v] = at[v])
    BY <1>0, <1>2, <1>3
  <2>2. f \in Range(queue') <=> f \in Range(queue)
    BY <1>1
  <2> QED
    BY <1>0, <2>1, <2>2, FateKept DEF SentOff
<1>5. Fate(e) = "accepted"
  BY <1>0, <1>1, FateSettled DEF PathTypes
<1>6. Fate(e)' \in {"accepted", "clipped"} /\ (Fate(e)' = "clipped" => e \in Incidents)
  <2>1. cur'[w] = e /\ at'[w] \in {"clip", "record"}
    BY <1>0, <1>2
  <2>2. Fate(e)' = Stage(at[w], e)'
    BY <1>0, <2>1, FateInHandsNext
  <2>3. clips' \subseteq Incidents
    BY <1>0 DEF PathTypes, PathTypeOK
  <2> QED
    BY <2>1, <2>2, <2>3 DEF Stage
<1>7. Moves(e, Fate(e), Fate(e)')
  BY <1>5, <1>6 DEF Moves
<1> QED
  BY <1>4, <1>7, OneMoves

LEMMA ChannelStep ==
  PathTypes /\ OnePlace /\ OnePlace' /\ [PathNext]_pathVars => [Channel!ChannelNext]_Fates
<1> SUFFICES ASSUME PathTypes, OnePlace, OnePlace', [PathNext]_pathVars
             PROVE  [Channel!ChannelNext]_Fates
  OBVIOUS
<1>0. PathTypeOK /\ HoldsEvent
  BY DEF PathTypes
<1> USE DEF sink, worker, history
<1>1. CASE UNCHANGED pathVars
  BY <1>1, FatesUndisturbed DEF pathVars, Running
<1>2. CASE PipelineStep
  <2>1. ASSUME NEW e \in Incidents, Trigger(e) PROVE [Channel!ChannelNext]_Fates
    <3>1. /\ e \in Events /\ Send(e) /\ e \notin fired /\ fired' = fired \cup {e}
          /\ UNCHANGED <<hand, at, cur, clips, outbox>> /\ Running /\ Running'
      BY <2>1 DEF Trigger, UnchangedOutsideSink, Events, Running
    <3>2. hand # e
      BY <1>0, <2>1 DEF PathTypeOK, Events
    <3>3. ~SentOff(e) /\ SentOff(e)' /\ \A f \in Events \ {e} : SentOff(f)' <=> SentOff(f)
      BY <3>1, <3>2 DEF SentOff
    <3> QED
      BY <1>0, <3>1, <3>3, SendMoves
  <2>2. ASSUME NEW e \in Silents, WatchdogEmits(e) PROVE [Channel!ChannelNext]_Fates
    <3>1. /\ hand = NoEvent /\ e \notin fired /\ fired' = fired \cup {e} /\ hand' = e
          /\ UNCHANGED <<queue, at, cur, clips, outbox, gone, life>>
      BY <2>2 DEF WatchdogEmits, UnchangedOutsideSink
    <3>2. \A f \in Events : SentOff(f)' <=> SentOff(f)
      BY <3>1 DEF SentOff, Events
    <3>3. \A f \in Events : Fate(f)' = Fate(f)
      BY <3>1, <3>2, FateKept DEF Running
    <3> QED
      BY <3>3, SomeLost
  <2>3. CASE WatchdogSends
    <3>1. PICK e \in Events : e = hand
      BY <1>0, <2>3 DEF WatchdogSends, PathTypeOK, Events
    <3>2. /\ Send(e) /\ hand' = NoEvent /\ e \in fired /\ e # NoEvent /\ Running /\ Running'
          /\ UNCHANGED <<fired, at, cur, clips, outbox>>
      BY <2>3, <3>1 DEF WatchdogSends, UnchangedOutsideSink, OnePlace, Running
    <3>3. ~SentOff(e) /\ SentOff(e)' /\ \A f \in Events \ {e} : SentOff(f)' <=> SentOff(f)
      BY <3>1, <3>2 DEF SentOff
    <3> QED
      BY <1>0, <3>2, <3>3, SendMoves
  <2>4. CASE Interrupt
    BY <2>4, FatesUndisturbed DEF Interrupt, UnchangedOutsideSink, Running
  <2> QED
    BY <1>2, <2>1, <2>2, <2>3, <2>4 DEF PipelineStep
<1>3. CASE CloseStep
  BY <1>3, FatesUndisturbed
     DEF CloseStep, FlowEnds, StopWorkers, CloseReturns, UnchangedOutsideSink, Running
<1>4. ASSUME NEW w \in Workers, WorkerStep(w) PROVE [Channel!ChannelNext]_Fates
  <2> USE DEF UnchangedOutsideWorker, At
  <2>1. CASE GetTimesOut(w)
    <3>1. /\ at[w] = "get" /\ at' = [at EXCEPT ![w] = "exit"] /\ at \in [Workers -> WorkerPc]
          /\ UNCHANGED <<hand, fired, queue, cur, clips, outbox, gone, life>>
      BY <1>0, <2>1 DEF GetTimesOut, GoesOn, Goto, PathTypeOK
    <3>2. cur[w] = NoEvent
      BY <3>1 DEF OnePlace, HandsApart, HasEvent
    <3>3. ASSUME NEW e \in Events PROVE Fate(e)' = Fate(e)
      <4>1. e # NoEvent /\ \A v \in Workers : cur[v] = e => at'[v] = at[v]
        BY <3>1, <3>2
      <4> QED
        BY <3>1, <4>1, FateKept DEF SentOff, Running
    <3> QED
      BY <3>3, SomeLost
  <2>2. CASE Get(w)
    BY <2>2, GetMoves
  <2>3. CASE CutClip(w)
    <3>1. PICK e \in Incidents : cur[w] = e
      BY <1>0, <2>3 DEF CutClip, HoldsEvent
    <3>2. PICK place : Goto(w, place) /\ place \in {"upload", "record"}
      BY <2>3 DEF CutClip
    <3>3. /\ at[w] = "clip" /\ clips' = clips \cup {e} /\ e \in Events /\ Running
          /\ UNCHANGED <<hand, fired, queue, cur, outbox, gone, life>>
      BY <2>3, <3>1 DEF CutClip, Events
    <3>4. Moves(e, Stage(at[w], e), Stage(place, e)')
      BY <3>2, <3>3 DEF Stage, Moves
    <3> QED
      BY <3>1, <3>2, <3>3, <3>4, StaysMoves
  <2>4. CASE ClipFails(w)
    <3>1. PICK e \in Incidents : cur[w] = e
      BY <1>0, <2>4 DEF ClipFails, HoldsEvent
    <3>2. /\ at[w] = "clip" /\ Goto(w, "record") /\ e \in Events /\ Running
          /\ UNCHANGED <<hand, fired, queue, cur, clips, outbox, gone, life>>
      BY <2>4 DEF ClipFails, Events
    <3>3. Moves(e, Stage(at[w], e), Stage("record", e)')
      BY <3>2 DEF Stage, Moves
    <3> QED
      BY <3>1, <3>2, <3>3, StaysMoves
  <2>5. CASE Upload(w)
    <3>1. PICK e \in Incidents : cur[w] = e
      BY <1>0, <2>5 DEF Upload, HoldsEvent
    <3>2. /\ at[w] = "upload" /\ Goto(w, "record") /\ e \in Events /\ Running
          /\ UNCHANGED <<hand, fired, queue, cur, clips, outbox, gone, life>>
      BY <2>5 DEF Upload, Events
    <3>3. e \in clips
      BY <3>1, <3>2 DEF OnePlace, HandsApart
    <3>4. Moves(e, Stage(at[w], e), Stage("record", e)')
      BY <3>2, <3>3 DEF Stage, Moves
    <3> QED
      BY <3>1, <3>2, <3>4, StaysMoves
  <2>6. CASE RecordTrigger(w)
    <3>1. PICK e \in Events : cur[w] = e
      BY <1>0, <2>6 DEF RecordTrigger, HoldsEvent, HasEvent
    <3>2. /\ at[w] = "record" /\ Running
          /\ Goto(w, IF e \in Incidents \ clips THEN "skip" ELSE "forward")
          /\ UNCHANGED <<hand, fired, queue, cur, clips, outbox, gone, life>>
      BY <2>6, <3>1 DEF RecordTrigger, MissesVideo
    <3>3. Moves(e, Stage(at[w], e), Stage(IF e \in Incidents \ clips THEN "skip" ELSE "forward", e)')
      <4>1. clips \subseteq Incidents
        BY <1>0 DEF PathTypeOK
      <4> QED
        BY <3>2, <4>1 DEF Stage, Moves
    <3> QED
      BY <3>1, <3>2, <3>3, StaysMoves
  <2>7. CASE SkipWebhook(w)
    <3>1. PICK e \in Events : cur[w] = e
      BY <1>0, <2>7 DEF SkipWebhook, HoldsEvent, HasEvent
    <3>2. /\ at[w] = "skip" /\ Running /\ GoesOn(w) /\ cur' = [cur EXCEPT ![w] = NoEvent]
          /\ gone' = [gone EXCEPT ![e] = "no clip"]
          /\ UNCHANGED <<hand, fired, queue, clips, outbox, life>>
      BY <2>7, <3>1 DEF SkipWebhook
    <3>3. \A f \in Events \ {e} : gone'[f] = gone[f]
      BY <1>0, <3>2 DEF PathTypeOK
    <3>4. Moves(e, Stage(at[w], e), Fate(e)')
      <4>1. gone'[e] = "no clip" /\ e \notin outbox /\ SentOff(e)
        BY <1>0, <3>1, <3>2 DEF PathTypeOK, OnePlace, Apart, Settled
      <4>2. Fate(e)' = "skipped"
        BY <3>2, <4>1 DEF Fate, SentOff
      <4> QED
        BY <3>2, <4>2 DEF Stage, Moves
    <3> QED
      BY <3>1, <3>2, <3>3, <3>4, LeavesMoves
  <2>8. CASE Forward(w)
    <3>1. PICK e \in Events : cur[w] = e
      BY <1>0, <2>8 DEF Forward, HoldsEvent, HasEvent
    <3>2. /\ at[w] = "forward" /\ Running /\ GoesOn(w) /\ cur' = [cur EXCEPT ![w] = NoEvent]
          /\ \/ outbox' = outbox \cup {e} /\ UNCHANGED gone
             \/ outbox' = outbox /\ gone' = [gone EXCEPT ![e] = "enqueue failed"]
          /\ UNCHANGED <<hand, fired, queue, clips, life>>
      BY <2>8, <3>1 DEF Forward
    <3>3. \A f \in Events \ {e} : gone'[f] = gone[f] /\ (f \in outbox' <=> f \in outbox)
      BY <1>0, <3>2 DEF PathTypeOK
    <3>4. Moves(e, Stage(at[w], e), Fate(e)')
      <4>1. e \notin outbox /\ SentOff(e)
        BY <3>1 DEF OnePlace, Apart, Settled
      <4>2. Fate(e)' \in {"forwarded", "lost"}
        BY <1>0, <3>2, <4>1 DEF Fate, SentOff, PathTypeOK
      <4> QED
        BY <3>2, <4>2 DEF Stage, Moves
    <3> QED
      BY <3>1, <3>2, <3>3, <3>4, LeavesMoves
  <2> QED
    BY <1>4, <2>1, <2>2, <2>3, <2>4, <2>5, <2>6, <2>7, <2>8 DEF WorkerStep
<1>5. CASE WriterStep
  BY <1>5, FatesUndisturbed
     DEF WriterStep, WriterDrains, WriterCommits, WriterExits, UnchangedOutsideHistory, Running
<1>6. CASE LifeStep
  <2>1. /\ Running /\ UNCHANGED <<hand, fired, queue, at, cur, clips, outbox, gone>>
    BY <1>6 DEF LifeStep, StopProcess, ManagerStopped, WriterJoined, StopDrains, StopCommits,
                NothingToFlush, ProcessDies, UnchangedOutsideLife, Running
  <2> QED
    BY <2>1, FatesUndisturbed, ExitLoses
<1> QED
  BY <1>1, <1>2, <1>3, <1>4, <1>5, <1>6 DEF PathNext

(* The chain of sinks implements the abstract channel (sink_factory.py):   *)
(* the initial states are its initial states, and every step of the        *)
(* pipeline, the workers, close() and the shutdown is one of its steps or  *)
(* leaves every fate alone.  No event is taken twice, none goes out before *)
(* its trigger was put on record, no incident without its clip.            *)
THEOREM ChannelImplemented == PathSpec => ImplementsChannel
<1>1. PathInit => PathTypes
  BY PathInitTypes DEF PathTypes, PathInit, HoldsEvent, HasEvent
<1>2. PathInit => Channel!ChannelInit
  BY DEF PathInit, Channel!ChannelInit, Channel!Events, Events, Fate
<1> QED
  BY PathNextTypes, OnePlaceInit, OnePlaceNext, ChannelStep, <1>1, <1>2, PTL
     DEF PathSpec, ImplementsChannel, Channel!ChannelSpec, Fates

-----------------------------------------------------------------------------
(* stop() of the history.                                                  *)

(* The entries that were put and where they are.                           *)
Kept == rows \cup missed \cup Range(hist) \cup Range(flushing["thread"]) \cup Range(flushing["stop"])

(* A worker that forwards an event has put its trigger.                    *)
TriggersPut ==
  \A e \in Events :
    e \in outbox \/ (\E w \in Workers : at[w] \in {"skip", "forward"} /\ cur[w] = e) =>
      <<"trigger", e>> \in Kept

ShortRest == hist = <<>> \/ Len(hist) <= HistoryQueue - HistoryBatch

(* Each step of the stop waits for the one before it.                      *)
StopsInOrder ==
  /\ life \in {"writer", "flush", "exit"} => manager = "closed"
  /\ life \in {"flush", "exit"} => writer = "exit"
  /\ flushing["stop"] # <<>> => ShortRest
  /\ life = "exit" => flushing["stop"] = <<>> /\ ShortRest

FaultsSpent == left["fault"] \in Nat /\ left["fault"] <= Budget["fault"]

FlushInv ==
  /\ FaultsSpent /\ TriggersPut
  /\ writer = "exit" => flushing["thread"] = <<>>
  /\ flushing["stop"] # <<>> => life \in {"flush", "exit"}
  /\ NoTimeouts /\ NoFaults => StopsInOrder

LEMMA PutKeeps ==
  ASSUME PathTypeOK, NEW entry \in Entry, Put(entry), UNCHANGED <<rows, flushing>>
  PROVE  Kept \subseteq Kept' /\ entry \in Kept'
<1>0. hist \in Seq(Entry)
  BY DEF PathTypeOK
<1>1. CASE Len(hist) < HistoryQueue
  <2>1. hist' = Append(hist, entry) /\ Range(Append(hist, entry)) = Range(hist) \cup {entry} /\ missed' = missed
    BY <1>0, <1>1, RangeOfAppend DEF Put
  <2> QED
    BY <2>1 DEF Kept
<1>2. CASE ~(Len(hist) < HistoryQueue)
  BY <1>2 DEF Put, Kept
<1> QED
  BY <1>1, <1>2

(* A batch is the front of the queue.                                      *)
LEMMA BatchAndRest ==
  ASSUME NEW S, NEW s \in Seq(S), NEW n \in 0..Len(s)
  PROVE  /\ Range(s) = Range(SubSeq(s, 1, n)) \cup Range(SubSeq(s, n + 1, Len(s)))
         /\ Len(SubSeq(s, n + 1, Len(s))) = Len(s) - n
<1> DEFINE a == SubSeq(s, 1, n)
           b == SubSeq(s, n + 1, Len(s))
<1>1. /\ Len(s) \in Nat /\ Len(a) = n /\ Len(b) = Len(s) - n
      /\ \A i \in 1..n : a[i] = s[i]
      /\ \A i \in 1..(Len(s) - n) : b[i] = s[i + n]
  OBVIOUS
<1> HIDE DEF a, b
<1>2. ASSUME NEW i \in 1..Len(s) PROVE s[i] \in Range(a) \cup Range(b)
  <2>1. CASE i <= n
    BY <1>1, <2>1 DEF Range
  <2>2. CASE i > n
    <3>1. i - n \in 1..Len(b) /\ b[i - n] = s[i]
      BY <1>1, <2>2
    <3> QED
      BY <3>1 DEF Range
  <2> QED
    BY <1>1, <2>1, <2>2
<1>3. ASSUME NEW i \in 1..Len(a) PROVE a[i] \in Range(s)
  BY <1>1 DEF Range
<1>4. ASSUME NEW i \in 1..Len(b) PROVE b[i] \in Range(s)
  <2>1. i + n \in 1..Len(s) /\ b[i] = s[i + n]
    BY <1>1
  <2> QED
    BY <2>1 DEF Range
<1>5. Range(s) = Range(a) \cup Range(b)
  <2>1. Range(s) \subseteq Range(a) \cup Range(b)
    BY <1>2 DEF Range
  <2>2. Range(a) \subseteq Range(s)
    BY <1>3 DEF Range
  <2>3. Range(b) \subseteq Range(s)
    BY <1>4 DEF Range
  <2> QED
    BY <2>1, <2>2, <2>3
<1> QED
  BY <1>1, <1>5 DEF a, b

LEMMA DrainKeeps ==
  ASSUME PathTypeOK, NEW f \in {"thread", "stop"}, Drain(f), UNCHANGED <<rows, missed>>
  PROVE  /\ Kept \subseteq Kept' /\ ShortRest'
         /\ \A g \in {"thread", "stop"} \ {f} : flushing'[g] = flushing[g]
<1> DEFINE n == IF Len(hist) < HistoryBatch THEN Len(hist) ELSE HistoryBatch
<1>0. /\ hist \in Seq(Entry) /\ Len(hist) \in Nat /\ n \in 0..Len(hist) /\ Len(hist) <= HistoryQueue
      /\ flushing \in [{"thread", "stop"} -> Seq(Entry)]
  BY DEF PathTypeOK
<1>1. /\ flushing[f] = <<>> /\ flushing' = [flushing EXCEPT ![f] = SubSeq(hist, 1, n)]
      /\ hist' = SubSeq(hist, n + 1, Len(hist))
  BY DEF Drain
<1>2. n = Len(hist) \/ n = HistoryBatch
  OBVIOUS
<1> HIDE DEF n
<1>3. /\ Range(hist) = Range(flushing'[f]) \cup Range(hist') /\ Len(hist') = Len(hist) - n
      /\ Range(flushing[f]) = {} /\ hist' \in Seq(Entry)
  <2>1. Range(<<>>) = {}
    BY DEF Range
  <2> QED
    BY <1>0, <1>1, <2>1, BatchAndRest
<1>4. \A g \in {"thread", "stop"} \ {f} : flushing'[g] = flushing[g]
  BY <1>0, <1>1
<1>5. Kept \subseteq Kept'
  BY <1>3, <1>4 DEF Kept
<1>6. ShortRest'
  <2>1. CASE n = Len(hist)
    BY <1>0, <1>3, <2>1 DEF ShortRest
  <2>2. CASE n = HistoryBatch
    BY <1>0, <1>3, <2>2 DEF ShortRest
  <2> QED
    BY <1>2, <2>1, <2>2
<1> QED
  BY <1>4, <1>5, <1>6

LEMMA CommitKeeps ==
  ASSUME PathTypeOK, NEW f \in {"thread", "stop"}, Commit(f), UNCHANGED hist
  PROVE  /\ Kept \subseteq Kept' /\ flushing'[f] = <<>>
         /\ \A g \in {"thread", "stop"} \ {f} : flushing'[g] = flushing[g]
<1>1. flushing \in [{"thread", "stop"} -> Seq(Entry)]
  BY DEF PathTypeOK
<1>2. /\ flushing'[f] = <<>>
      /\ \A g \in {"thread", "stop"} \ {f} : flushing'[g] = flushing[g]
      /\ rows \cup missed \cup Range(flushing[f]) \subseteq rows' \cup missed'
  BY <1>1 DEF Commit
<1> QED
  BY <1>2 DEF Kept

(* The faults are spent like the timeouts.                                 *)
LEMMA FaultsFall ==
  ASSUME PathTypeOK, FaultsSpent, [PathNext]_pathVars
  PROVE  FaultsSpent' /\ (NoFaults' => NoFaults /\ ~ProcessDies)
<1>0. left \in [BudgetKinds -> Nat] /\ Budget \in [BudgetKinds -> Nat]
  BY DEF PathTypeOK
<1>1. UNCHANGED left \/ Spend("fault") \/ Spend("timeout")
  BY LeftMoves
<1>2. CASE Spend("fault")
  <2>1. left'["fault"] = left["fault"] - 1 /\ left["fault"] > 0 /\ left["fault"] \in Nat /\ Budget["fault"] \in Nat
    BY <1>0, <1>2 DEF Spend, BudgetKinds
  <2> QED
    BY <2>1 DEF FaultsSpent, NoFaults
<1>3. CASE (UNCHANGED left \/ Spend("timeout")) /\ ~Spend("fault")
  <2>1. left'["fault"] = left["fault"]
    BY <1>0, <1>3 DEF Spend, BudgetKinds
  <2> QED
    BY <1>3, <2>1 DEF FaultsSpent, NoFaults, ProcessDies
<1> QED
  BY <1>1, <1>2, <1>3

(* Steps that leave the history and the shutdown alone.                    *)
LEMMA FlushUndisturbed ==
  ASSUME FlushInv, FaultsSpent', NoFaults' => NoFaults, NoTimeouts' => NoTimeouts,
         UNCHANGED <<at, cur, outbox, hist, writer, flushing, rows, missed, life>>,
         manager = "closed" => manager' = "closed"
  PROVE  FlushInv'
<1>1. TriggersPut' /\ (ShortRest' <=> ShortRest)
  BY DEF FlushInv, TriggersPut, Kept, ShortRest
<1> QED
  BY <1>1 DEF FlushInv, StopsInOrder

(* A worker step: no stop() has got past the join of the manager.          *)
LEMMA FlushWorker ==
  ASSUME PathTypes, FlushInv, CloseInv, FaultsSpent',
         NoFaults' => NoFaults, NoTimeouts' => NoTimeouts,
         NEW w \in Workers, at[w] # "exit", Running,
         UNCHANGED <<manager, writer, flushing, life>>, TriggersPut'
  PROVE  FlushInv'
<1>1. NoTimeouts' /\ NoFaults' => life \in {"up", "stopping"}
  BY DEF FlushInv, CloseInv, NothingLeft, StopsInOrder, PathTypes, PathTypeOK, LifePc
<1>2. NoTimeouts' /\ NoFaults' => StopsInOrder'
  BY <1>1 DEF FlushInv, StopsInOrder
<1> QED
  BY <1>2 DEF FlushInv

LEMMA WorkerPuts ==
  ASSUME PathTypes, TriggersPut, NEW w \in Workers, WorkerStep(w)
  PROVE  TriggersPut'
<1>0. /\ at \in [Workers -> WorkerPc] /\ cur \in [Workers -> Events \cup {NoEvent}]
      /\ PathTypeOK /\ HoldsEvent /\ UNCHANGED <<rows, flushing>>
  BY DEF PathTypes, PathTypeOK, WorkerStep, GetTimesOut, Get, CutClip, ClipFails, Upload, RecordTrigger,
         SkipWebhook, Forward, UnchangedOutsideWorker
<1>1. ASSUME Kept \subseteq Kept', at'[w] \notin {"skip", "forward"},
             \A v \in Workers \ {w} : at'[v] = at[v] /\ cur'[v] = cur[v],
             \A e \in outbox' \ outbox : <<"trigger", e>> \in Kept
      PROVE  TriggersPut'
  BY <1>1 DEF TriggersPut
<1>2. ASSUME NEW place, Goto(w, place)
      PROVE  at'[w] = place /\ \A v \in Workers \ {w} : at'[v] = at[v]
  BY <1>0, <1>2 DEF Goto
<1>3. CASE GetTimesOut(w)
  <2>1. GoesOn(w) /\ UNCHANGED <<cur, hist, missed, outbox>>
    BY <1>3 DEF GetTimesOut
  <2> QED
    BY <1>0, <1>1, <1>2, <2>1 DEF GoesOn, Kept
<1>4. CASE Get(w)
  <2>1. /\ cur' = [cur EXCEPT ![w] = Head(queue)] /\ UNCHANGED <<hist, missed, outbox>>
        /\ Goto(w, IF ShouldClip(Head(queue)) THEN "clip" ELSE "record")
    BY <1>4 DEF Get, Takes
  <2> QED
    BY <1>0, <1>1, <1>2, <2>1 DEF Kept
<1>5. CASE CutClip(w)
  <2>1. Goto(w, IF MinioOn THEN "upload" ELSE "record") /\ UNCHANGED <<cur, hist, missed, outbox>>
    BY <1>5 DEF CutClip
  <2> QED
    BY <1>0, <1>1, <1>2, <2>1 DEF Kept
<1>6. CASE ClipFails(w)
  <2>1. <<"clip error", cur[w]>> \in Entry
    BY <1>0, <1>6 DEF ClipFails, At, HoldsEvent, Entry, Sends, Events
  <2>2. Goto(w, "record") /\ UNCHANGED <<cur, outbox>> /\ Kept \subseteq Kept'
    BY <1>0, <1>6, <2>1, PutKeeps DEF ClipFails
  <2> QED
    BY <1>1, <1>2, <2>2
<1>7. CASE Upload(w)
  <2>1. <<"minio ok", cur[w]>> \in Entry /\ <<"minio error", cur[w]>> \in Entry
    BY <1>0, <1>7 DEF Upload, At, HoldsEvent, Entry, Sends, Events
  <2>2. Goto(w, "record") /\ UNCHANGED <<cur, outbox>> /\ Kept \subseteq Kept'
    BY <1>0, <1>7, <2>1, PutKeeps DEF Upload
  <2> QED
    BY <1>1, <1>2, <2>2
<1>8. CASE RecordTrigger(w)
  <2>1. PICK e \in Events : cur[w] = e
    BY <1>0, <1>8 DEF RecordTrigger, At, HoldsEvent, HasEvent
  <2>2. <<"trigger", e>> \in Entry
    BY DEF Entry
  <2>3. UNCHANGED <<cur, outbox>> /\ Kept \subseteq Kept' /\ <<"trigger", e>> \in Kept'
    BY <1>0, <1>8, <2>1, <2>2, PutKeeps DEF RecordTrigger
  <2>4. \A v \in Workers \ {w} : at'[v] = at[v]
    BY <1>2, <1>8 DEF RecordTrigger
  <2> QED
    BY <2>1, <2>3, <2>4 DEF TriggersPut
<1>9. CASE SkipWebhook(w)
  <2>1. <<"webhook skipped", cur[w]>> \in Entry
    BY <1>0, <1>9 DEF SkipWebhook, At, HoldsEvent, Entry, Sends, Events
  <2>2. GoesOn(w) /\ cur' = [cur EXCEPT ![w] = NoEvent] /\ UNCHANGED outbox /\ Kept \subseteq Kept'
    BY <1>0, <1>9, <2>1, PutKeeps DEF SkipWebhook
  <2> QED
    BY <1>0, <1>1, <1>2, <2>2 DEF GoesOn
<1>10. CASE Forward(w)
  <2>1. /\ at[w] = "forward" /\ cur[w] \in Events /\ GoesOn(w) /\ cur' = [cur EXCEPT ![w] = NoEvent]
        /\ outbox' \subseteq outbox \cup {cur[w]} /\ UNCHANGED <<hist, missed>>
    BY <1>0, <1>10 DEF Forward, At, HoldsEvent, HasEvent
  <2>2. \A e \in outbox' \ outbox : <<"trigger", e>> \in Kept
    BY <2>1 DEF TriggersPut
  <2> QED
    BY <1>0, <1>1, <1>2, <2>1, <2>2 DEF GoesOn, Kept
<1> QED
  BY <1>3, <1>4, <1>5, <1>6, <1>7, <1>8, <1>9, <1>10 DEF WorkerStep

LEMMA FlushNext == PathTypes /\ CloseInv /\ FlushInv /\ [PathNext]_pathVars => FlushInv'
<1> SUFFICES ASSUME PathTypes, CloseInv, FlushInv, [PathNext]_pathVars PROVE FlushInv'
  OBVIOUS
<1>0. /\ PathTypeOK /\ FaultsSpent' /\ (NoFaults' => NoFaults /\ ~ProcessDies)
      /\ (NoTimeouts' => NoTimeouts /\ ~Spend("timeout"))
  BY FaultsFall, LeftFalls DEF PathTypes, CloseInv, FlushInv
<1> USE DEF sink, worker, history
<1>1. CASE UNCHANGED pathVars
  BY <1>0, <1>1, FlushUndisturbed DEF pathVars
<1>2. CASE PipelineStep
  BY <1>0, <1>2, FlushUndisturbed
     DEF PipelineStep, Trigger, WatchdogEmits, WatchdogSends, Interrupt, UnchangedOutsideSink
<1>3. CASE CloseStep
  BY <1>0, <1>3, FlushUndisturbed
     DEF CloseStep, FlowEnds, StopWorkers, CloseReturns, UnchangedOutsideSink
<1>4. ASSUME NEW w \in Workers, WorkerStep(w) PROVE FlushInv'
  <2>1. at[w] # "exit" /\ Running /\ UNCHANGED <<manager, writer, flushing, life>>
    BY <1>4 DEF WorkerStep, GetTimesOut, Get, CutClip, ClipFails, Upload, RecordTrigger,
                SkipWebhook, Forward, At, UnchangedOutsideWorker
  <2>2. TriggersPut'
    BY <1>4, WorkerPuts DEF FlushInv
  <2> QED
    BY <1>0, <2>1, <2>2, FlushWorker
<1>5. ASSUME Kept \subseteq Kept', UNCHANGED <<at, cur, outbox>> PROVE TriggersPut'
  BY <1>5 DEF FlushInv, TriggersPut
<1>6. CASE WriterStep
  <2> USE DEF UnchangedOutsideHistory
  <2>1. CASE WriterDrains
    <3>1. /\ Kept \subseteq Kept' /\ flushing'["stop"] = flushing["stop"]
          /\ writer = "run" /\ UNCHANGED <<writer, life, manager, at, cur, outbox>> /\ life # "exit"
      BY <1>0, <2>1, DrainKeeps DEF WriterDrains, Running
    <3>2. NoTimeouts' /\ NoFaults' => StopsInOrder'
      BY <1>0, <3>1 DEF FlushInv, StopsInOrder
    <3> QED
      BY <1>0, <1>5, <3>1, <3>2 DEF FlushInv
  <2>2. CASE WriterCommits
    <3>1. /\ Kept \subseteq Kept' /\ flushing'["stop"] = flushing["stop"]
          /\ writer = "run" /\ UNCHANGED <<hist, writer, life, manager, at, cur, outbox>> /\ life # "exit"
      BY <1>0, <2>2, CommitKeeps DEF WriterCommits, Running
    <3>2. NoTimeouts' /\ NoFaults' => StopsInOrder'
      BY <1>0, <3>1 DEF FlushInv, StopsInOrder, ShortRest
    <3> QED
      BY <1>0, <1>5, <3>1, <3>2 DEF FlushInv
  <2>3. CASE WriterExits
    <3>1. /\ Kept \subseteq Kept' /\ flushing["thread"] = <<>> /\ writer' = "exit"
          /\ UNCHANGED <<hist, flushing, life, manager, at, cur, outbox>>
      BY <2>3 DEF WriterExits, Kept
    <3>2. NoTimeouts' /\ NoFaults' => StopsInOrder'
      BY <1>0, <3>1 DEF FlushInv, StopsInOrder, ShortRest
    <3> QED
      BY <1>0, <1>5, <3>1, <3>2 DEF FlushInv
  <2> QED
    BY <1>6, <2>1, <2>2, <2>3 DEF WriterStep
<1>7. CASE LifeStep
  <2> USE DEF UnchangedOutsideLife
  <2>0. UNCHANGED <<manager, at, cur, outbox>>
    BY <1>7 DEF LifeStep, StopProcess, ManagerStopped, WriterJoined, StopDrains, StopCommits,
                NothingToFlush, ProcessDies
  <2>1. ASSUME UNCHANGED <<hist, writer, flushing, rows, missed>>
        PROVE  TriggersPut' /\ (ShortRest' <=> ShortRest)
    BY <1>5, <2>0, <2>1 DEF Kept, ShortRest
  <2>2. CASE StopProcess
    BY <1>0, <2>0, <2>1, <2>2 DEF StopProcess, FlushInv, StopsInOrder
  <2>3. CASE ManagerStopped
    BY <1>0, <2>0, <2>1, <2>3 DEF ManagerStopped, FlushInv, StopsInOrder
  <2>4. CASE WriterJoined
    BY <1>0, <2>0, <2>1, <2>4 DEF WriterJoined, FlushInv, StopsInOrder
  <2>5. CASE StopDrains
    <3>1. /\ Kept \subseteq Kept' /\ ShortRest' /\ flushing'["thread"] = flushing["thread"]
          /\ life = "flush" /\ UNCHANGED <<writer, life>>
      BY <1>0, <2>5, DrainKeeps DEF StopDrains
    <3> QED
      BY <1>0, <1>5, <2>0, <3>1 DEF FlushInv, StopsInOrder
  <2>6. CASE StopCommits
    <3>1. /\ Kept \subseteq Kept' /\ flushing["stop"] # <<>> /\ flushing'["stop"] = <<>>
          /\ flushing'["thread"] = flushing["thread"]
          /\ life = "flush" /\ life' = "exit" /\ UNCHANGED <<writer, hist>>
      BY <1>0, <2>6, CommitKeeps DEF StopCommits, Commit
    <3> QED
      BY <1>0, <1>5, <2>0, <3>1 DEF FlushInv, StopsInOrder, ShortRest
  <2>7. CASE NothingToFlush
    BY <1>0, <2>0, <2>1, <2>7 DEF NothingToFlush, FlushInv, StopsInOrder, ShortRest
  <2>8. CASE ProcessDies
    <3>1. ~NoFaults' /\ life' = "exit" /\ UNCHANGED <<hist, writer, flushing, rows, missed>>
      BY <1>0, <2>8 DEF ProcessDies
    <3> QED
      BY <1>0, <2>0, <2>1, <3>1 DEF FlushInv
  <2> QED
    BY <1>7, <2>2, <2>3, <2>4, <2>5, <2>6, <2>7, <2>8 DEF LifeStep
<1> QED
  BY <1>1, <1>2, <1>3, <1>4, <1>6, <1>7 DEF PathNext

(* stop() of the history (history.py:50): when every join was in time and  *)
(* the database took every batch, the trigger of each event that went out  *)
(* is in Postgres, was dropped by a full queue, or is among the rows       *)
(* beyond one batch that stop() leaves on the queue.                       *)
THEOREM StopFlushes == PathSpec => []StopFlushesABatch
<1>1. PathInit => PathTypes
  BY PathInitTypes DEF PathTypes, PathInit, HoldsEvent, HasEvent
<1>2. PathInit => CloseInv /\ FlushInv
  <2>1. Budget["timeout"] \in Nat /\ Budget["fault"] \in Nat
    BY DEF BudgetKinds
  <2> QED
    BY <2>1 DEF PathInit, CloseInv, OnlySpent, Accounted, NothingLeft, FlushInv, FaultsSpent,
                TriggersPut, StopsInOrder
<1>3. PathTypes /\ FlushInv => StopFlushesABatch
  <2> SUFFICES ASSUME PathTypes, FlushInv, life = "exit", NoTimeouts, NoFaults
               PROVE  /\ hist = <<>> \/ Len(hist) <= HistoryQueue - HistoryBatch
                      /\ \A e \in outbox : <<"trigger", e>> \in rows \cup missed \cup Range(hist)
    BY DEF StopFlushesABatch
  <2>1. flushing["thread"] = <<>> /\ flushing["stop"] = <<>> /\ ShortRest /\ outbox \subseteq Events
    BY DEF FlushInv, StopsInOrder, PathTypes, PathTypeOK
  <2>2. Range(<<>>) = {}
    BY DEF Range
  <2> QED
    BY <2>1, <2>2 DEF FlushInv, TriggersPut, Kept, ShortRest
<1> QED
  BY PathNextTypes, CloseNext, FlushNext, <1>1, <1>2, <1>3, PTL DEF PathSpec
=============================================================================
