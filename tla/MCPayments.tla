---- MODULE MCPayments ----
(* Payments on small instances: the constants that are not plain values. *)
EXTENDS PaymentsImplementLedger, TLC

MCSymmetry == Permutations(Requests) \cup Permutations(Users) \cup Permutations(Keys)

EveryMishap == MishapKinds

AnyAnswer == Terminal

====
