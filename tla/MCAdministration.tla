---------------------------- MODULE MCAdministration ----------------------------
EXTENDS Administration, TLC

FileCalls   == [up |-> 2, starting |-> 0]
RowCalls    == {[request |-> 1, view |-> 0, ring |-> 2, fault |-> 1],
                [request |-> 2, view |-> 0, ring |-> 0, fault |-> 1],
                [request |-> 1, view |-> 1, ring |-> 1, fault |-> 1]}
LoginCalls  == {[request |-> 3, outside |-> 0], [request |-> 2, outside |-> 1]}
Memberships == [t \in Tokens |-> IF t = 1 THEN Orgs ELSE {}]
VerdictCalls == {[ask |-> 1, change |-> 0, fault |-> 0, overlap |-> 1],
                 [ask |-> 0, change |-> 1, fault |-> 0, overlap |-> 1],
                 [ask |-> 0, change |-> 1, fault |-> 1, overlap |-> 0]}
ClipScenarios == ("fight" :> "ready") @@ ("silence" :> "stream_silent")
LabPresses  == [start |-> 2, cancel |-> 1, fault |-> 2]
=============================================================================
