------------------------- MODULE MCAuthorizeEndpoint -------------------------
(* AuthorizeEndpoint on small instances: a public and a confidential client, *)
(* each with a redirect URI of its own, and the sets TLC may permute.        *)
EXTENDS AuthorizeEndpoint, TLC

CONSTANTS spa, web, home, portal

MCRegistered == {<<spa, home>>, <<web, portal>>}
SameRequestsAndSubs == Permutations(Requests) \cup Permutations(Subs)
=============================================================================
