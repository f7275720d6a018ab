-------------------------- MODULE MCTokenRevocation --------------------------
(* TokenRevocation on small instances: requests are interchangeable. *)
EXTENDS TokenRevocation, TLC

SameRequests == Permutations(Requests)
=============================================================================
