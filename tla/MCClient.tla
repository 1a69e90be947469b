------------------------------- MODULE MCClient -------------------------------
(* The players and the ids of requests are interchangeable. *)
EXTENDS Client, TLC

Interchangeable == Permutations(User) \cup Permutations(Id)
=============================================================================
