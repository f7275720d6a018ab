--------------------------- MODULE MCTokenEndpoint ---------------------------
(* TokenEndpoint on small instances: the set TLC may permute. *)
EXTENDS TokenEndpoint, TLC

SameRequests == Permutations(Requests)
=============================================================================
