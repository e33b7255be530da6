-------------------------- MODULE IncidentChannel --------------------------
(***************************************************************************)
(* What the sink chain of the pipeline promises about the events it is     *)
(* given (app/ds/sink_factory.py: AsyncSink, IncidentClipSink,             *)
(* OutboundEnqueueSink): an unordered channel that may lose an event but   *)
(* never takes it twice, that puts it on record before it forwards it, and *)
(* that forwards an incident only with its clip.                           *)
(***************************************************************************)
CONSTANTS
  Incidents,    (* events that need a clip                                 *)
  Silents       (* events that do not: stream_silent                       *)

VARIABLE fate   (* what has become of each event                           *)

Events == Incidents \cup Silents
Fates  == {"new", "accepted", "clipped", "recorded", "noted",
           "forwarded", "skipped", "lost"}
Final  == {"forwarded", "skipped", "lost"}

ChannelInit == fate = [e \in Events |-> "new"]

Becomes(e, from, to) == fate[e] \in from /\ fate' = [fate EXCEPT ![e] = to]

Accept(e)  == Becomes(e, {"new"}, "accepted")
Clip(e)    == e \in Incidents /\ Becomes(e, {"accepted"}, "clipped")
Record(e)  == Becomes(e, IF e \in Incidents THEN {"clipped"} ELSE {"accepted"}, "recorded")
Note(e)    == e \in Incidents /\ Becomes(e, {"accepted"}, "noted")  \* without a clip
Forward(e) == Becomes(e, {"recorded"}, "forwarded")
Skip(e)    == Becomes(e, {"noted"}, "skipped")
Lose(E)    == /\ \A e \in E : fate[e] \notin Final
              /\ fate' = [e \in Events |-> IF e \in E THEN "lost" ELSE fate[e]]

ChannelNext ==
  \/ \E e \in Events :
       Accept(e) \/ Clip(e) \/ Record(e) \/ Note(e) \/ Forward(e) \/ Skip(e)
  \/ \E E \in (SUBSET Events) \ {{}} : Lose(E)

ChannelSpec == ChannelInit /\ [][ChannelNext]_fate
=============================================================================
