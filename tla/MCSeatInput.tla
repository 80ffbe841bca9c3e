---- MODULE MCSeatInput ----
(* Model-checking instance of SeatInput. *)
EXTENDS SeatInput, TLC

Sym == Permutations(Clients) \cup Permutations(Huts) \cup Permutations(Keys)
====
