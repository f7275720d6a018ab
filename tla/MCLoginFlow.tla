----------------------------- MODULE MCLoginFlow -----------------------------
(* LoginFlow with one provider of each kind, the OAuth2 one without PKCE; the *)
(* providers of OAuth2 and SAML belong to one tenant.                         *)
EXTENDS LoginFlow, TLC

CONSTANTS forge, corp, cloud

MCKind == forge :> "oauth2" @@ corp :> "saml" @@ cloud :> "oidc"
MCTenant == forge :> "acme" @@ corp :> "acme" @@ cloud :> "globex"
MCRoleSets == {roles \in SUBSET Roles : Cardinality(roles) <= 1}
SameBrowsersCallbacksAndRoles ==
  Permutations(Browsers) \cup Permutations(Callbacks) \cup Permutations(Roles)
=============================================================================
