---------------------------- MODULE MCRingBuffer ----------------------------
(* TLC instances of RingBuffer: two addresses, of different codecs.        *)
EXTENDS RingBuffer

CONSTANTS uA, uB

BothUris   == {uA, uB}
BothCoding == [u \in BothUris |-> IF u = uA THEN "h265" ELSE "h264"]

(* Two calls and two events, or three calls in a steady world.             *)
CallsAndEvents  == {[call |-> 2, event |-> 2], [call |-> 3, event |-> 0]}
OneCallOneEvent == {[call |-> 1, event |-> 1]}
============================================================================
