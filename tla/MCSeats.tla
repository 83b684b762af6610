---- MODULE MCSeats ----
(* Seats on small instances. *)
EXTENDS Seats, TLC

MCSymmetry == Permutations(Users \ {Host}) \cup Permutations(Requests) \cup Permutations(Tokens)

====
