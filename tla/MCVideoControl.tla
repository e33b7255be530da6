--------------------------- MODULE MCVideoControl ---------------------------
(* TLC instances of VideoControl.                                          *)
EXTENDS VideoControl, TLC

(* Pipeline threads are interchangeable.                                   *)
Symmetry == Permutations(Loops)

Nothing              == [request |-> 0, lab |-> 0, change |-> 0, licence |-> 0, fault |-> 0]
OneRequestOneLab     == [Nothing EXCEPT !.request = 1, !.lab = 1]
LabAndFault          == [OneRequestOneLab EXCEPT !.fault = 1]
RequestVerdictChange == [Nothing EXCEPT !.request = 1, !.licence = 1, !.change = 1]
============================================================================
