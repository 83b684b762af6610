---- MODULE MCLiveSession ----
(* LiveSession for TLC. *)
EXTENDS LiveSession, TLC

AllFaults == FaultKinds

RequestSymmetry == Permutations(Requests)

====
