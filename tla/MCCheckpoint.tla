---------------------------- MODULE MCCheckpoint ----------------------------
(* Checkpoint with two output kinds; the parts of a rupture have one or two *)
(* variations, as the tasks parse_rupture_list cuts it into.                *)
EXTENDS Checkpoint

TwoKinds == <<"Seismogram", "PeakVals">>
NoPsa == <<"Seismogram", "RotD">>
OneAndTwo == <<<<0, 1>>, <<1, 3>>>>
=============================================================================
