-------------------------- MODULE MCOutboundQueue --------------------------
(* TLC instances of OutboundQueue.                                         *)
EXTENDS OutboundQueue, TLC

CONSTANTS api, video, j1, j2, u1, u2

(* Workers and rows are interchangeable: Spec treats them alike.           *)
Symmetry == Permutations({api, video}) \cup Permutations({j1, j2})

NoVideo      == [video |-> FALSE, path |-> FALSE, key |-> FALSE]
WithClip     == [video |-> TRUE, path |-> TRUE, key |-> TRUE]
SilentStream == {NoVideo}
Incident     == {WithClip}
LocalClips   == {WithClip, [WithClip EXCEPT !.key = FALSE]}

OneHook        == {<<[state |-> "enabled", url |-> u1]>>}
TwoHooks       == {<<[state |-> "enabled", url |-> u1],
                     [state |-> "enabled", url |-> u2]>>}
SameUrlHooks   == TwoHooks \cup {[h \in 1..2 |-> [state |-> "enabled", url |-> u1]]}

NoFaults            == [fault |-> 0, operator |-> 0, config |-> 0]
OneFault            == [NoFaults EXCEPT !.fault = 1]
OneFaultOneRequest  == [OneFault EXCEPT !.operator = 1]
OneOfEach           == [OneFaultOneRequest EXCEPT !.config = 1]
============================================================================
