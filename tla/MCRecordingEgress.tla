---- MODULE MCRecordingEgress ----
(* RecordingEgress for TLC. *)
EXTENDS RecordingEgress, TLC

AllFaults == FaultKinds

====
