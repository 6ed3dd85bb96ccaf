------------------------------ MODULE MCNvsAB ------------------------------
(* Instances of NvsAB for TLC: two or three documents, a few generations.   *)
EXTENDS NvsAB

CONSTANTS a, b, c

SaveFaults == {"noremove", "cutSave"}
=============================================================================
