---- MODULE MCTimetable ----
(* Timetable on small instances. *)
EXTENDS Timetable, TLC

MCSymmetry == Permutations(Sessions) \cup Permutations(Requests)

====
