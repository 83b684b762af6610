---- MODULE MCIdentity ----
(* Identity for TLC: one row exists before anyone signs in. *)
EXTENDS Identity, TLC

CONSTANTS row1, email1

MCSeeded == row1 :> email1

====
